------------------------------ MODULE MqttLane ------------------------------
(***************************************************************************)
(* The MQTT driver (typescript-mqtt/src/index.ts) under runExternalDriver: *)
(* invocations of one identity share a connection, which the first one     *)
(* opens and the last one ends.  Beside the invocation of Lane there are   *)
(* siblings, other users of the same connection.  The client library and   *)
(* the broker are external: a call of a dead client may never return.      *)
(***************************************************************************)
EXTENDS Lane

CONSTANT MaxSiblings   \* bound on the siblings that ever come

VARIABLES
  pooled,       \* the connection is in the driver's map
  users,        \* MQTTConnection.users
  siblings,     \* siblings that hold the connection
  waiting,      \* siblings that wait until it is ready
  creator,      \* who opened it: "none", "lane" or "sibling"
  came,         \* history: how many siblings came
  listed,       \* the lane's subscriber is in the map of the topic
  failed        \* the promise of that name is rejected

poolVars == <<pooled, users, siblings, waiting, creator, came>>
mqttVars == <<poolVars, listed, failed>>
mqttRest == <<facts, prepared, inputConn, heard, trouble, frames, missed>>

Mqtt == {"mqttIn", "mqttOut"}

MqttInit ==
  /\ pooled = FALSE /\ users = 0 /\ siblings = 0 /\ waiting = 0 /\ came = 0
  /\ creator = "none" /\ listed = FALSE /\ failed = FALSE

(***************************************************************************)
(* acquire and release                                                     *)
(***************************************************************************)

(* An entry of the map is joined, whatever became of its client; without   *)
(* one the caller opens a connection.                                      *)
MqttAcquires ==
  /\ cell \in Mqtt /\ Dispatchable
  /\ pooled' = TRUE /\ users' = (IF pooled THEN users + 1 ELSE 1)
  /\ IF pooled THEN UNCHANGED <<creator, conn>> ELSE creator' = "lane" /\ conn' = "dialing"
  /\ main' = "acquiring"
  /\ UNCHANGED <<mqttRest, handleVars, sent, held, arrived, pumpVars, siblings, waiting,
                 came, listed, failed>>

SiblingAcquires ==
  /\ cell \in Mqtt /\ came < MaxSiblings /\ main # "finished"
  /\ pooled \/ conn = "none"
  /\ came' = came + 1 /\ waiting' = waiting + 1
  /\ pooled' = TRUE /\ users' = (IF pooled THEN users + 1 ELSE 1)
  /\ IF pooled THEN UNCHANGED <<creator, conn>> ELSE creator' = "sibling" /\ conn' = "dialing"
  /\ UNCHANGED <<mqttRest, handleVars, sent, held, arrived, main, pumpVars, siblings, listed,
                 failed>>

MqttConnected ==
  /\ cell \in Mqtt /\ conn = "dialing" /\ conn' = "open"
  /\ UNCHANGED <<mqttRest, handleVars, sent, held, arrived, main, pumpVars, mqttVars>>

(* The connection fails, or whoever opened it cancels: it is dropped from  *)
(* the map and ended, and everybody who waited for it fails with it.       *)
MqttConnectFails ==
  /\ cell \in Mqtt /\ conn = "dialing" /\ conn' = "closed"
  /\ pooled' = FALSE /\ waiting' = 0 /\ users' = 0
  /\ IF main = "acquiring" THEN EndAs("driverFailed") /\ main' = "finished"
     ELSE UNCHANGED <<handleVars, main>>
  /\ UNCHANGED <<mqttRest, sent, held, arrived, pumpVars, siblings, creator, came, listed,
                 failed>>

(* A caller resumes once the connection was ready; a subscriber is listed  *)
(* and its input closed before its SUBSCRIBE is answered.                  *)
MqttReady ==
  /\ cell \in Mqtt /\ main = "acquiring" /\ conn \in {"open", "closed"}
  /\ main' = "running" /\ held' = 1
  /\ IF cell = "mqttIn"
     THEN /\ feed' = (IF prepared THEN "encoding" ELSE "reading") /\ pump' = "done"
          /\ UNCHANGED <<handleVars, listed>>
     ELSE feed' = "subscribing" /\ pump' = "waiting" /\ listed' = TRUE /\ CloseInput
  /\ UNCHANGED <<mqttRest, sent, conn, arrived, item, emitted, poolVars, failed>>

SiblingReady ==
  /\ waiting > 0 /\ conn \in {"open", "closed"}
  /\ waiting' = waiting - 1 /\ siblings' = siblings + 1
  /\ UNCHANGED <<mqttRest, handleVars, sent, conn, held, arrived, main, pumpVars, pooled,
                 users, creator, came, listed, failed>>

(* The last user takes the connection from the map and ends it.            *)
Released ==
  /\ users' = users - 1
  /\ IF users > 1 THEN UNCHANGED <<pooled, conn>> ELSE pooled' = FALSE /\ conn' = "ended"

SiblingReleases ==
  /\ siblings > 0 /\ siblings' = siblings - 1
  /\ Released
  /\ UNCHANGED <<mqttRest, handleVars, sent, held, arrived, main, pumpVars, waiting, creator,
                 came, listed, failed>>

(* Mutant of MqttLeaves: whoever leaves ends the connection.               *)
MqttLeavesEnding ==
  /\ cell \in Mqtt /\ main = "running" /\ feed \in {"leaving", "failing"}
  /\ main' = "finished" /\ held' = 0 /\ listed' = FALSE /\ pump' = "done" /\ feed' = "done"
  /\ users' = users - 1 /\ pooled' = FALSE /\ conn' = "ended"
  /\ IF feed = "leaving" THEN EndAs("closed") ELSE EndAs("driverFailed")
  /\ UNCHANGED <<mqttRest, sent, arrived, item, emitted, siblings, waiting, creator, came,
                 failed>>

(* The subscriber is removed, the connection released, and the outcome told.*)
MqttLeaves ==
  /\ cell \in Mqtt /\ main = "running" /\ feed \in {"leaving", "failing"}
  /\ main' = "finished" /\ held' = 0 /\ listed' = FALSE /\ pump' = "done" /\ feed' = "done"
  /\ Released
  /\ IF feed = "leaving" THEN EndAs("closed") ELSE EndAs("driverFailed")
  /\ UNCHANGED <<mqttRest, sent, arrived, item, emitted, siblings, waiting, creator, came,
                 failed>>

MqttDrops ==
  /\ cell \in Mqtt /\ conn = "open" /\ conn' = "closed"
  /\ UNCHANGED <<mqttRest, handleVars, sent, held, arrived, main, pumpVars, mqttVars>>

(***************************************************************************)
(* publishInputs and subscribeOutputs                                      *)
(***************************************************************************)

mqttFeedRest == <<mqttRest, handleVars, conn, held, arrived, main, pump, item, emitted, mqttVars>>

(* A publish is answered, or refused; one of a dead client may hang.       *)
MqttSends ==
  /\ feed = "encoding" /\ cell = "mqttIn"
  /\ \/ conn = "open" /\ sent' = Append(sent, taken) /\ feed' = "reading"
     \/ feed' = "failing" /\ UNCHANGED sent
     \/ ~Alive /\ feed' = "leaving" /\ UNCHANGED sent
  /\ UNCHANGED mqttFeedRest

MqttInputsEnd ==
  /\ feed = "reading" /\ cell = "mqttIn"
  /\ \/ InputsEnd /\ feed' = IF sent = <<>> THEN "failing" ELSE "leaving"
     \/ InputsThrow /\ feed' = "failing"
  /\ UNCHANGED <<mqttFeedRest, sent>>

(* The leading metadata can be set only before the first output.           *)
MqttSubscribed ==
  /\ feed = "subscribing" /\ conn = "open"
  /\ feed' = IF emitted = <<>> /\ Alive THEN "listening" ELSE "failing"
  /\ UNCHANGED <<mqttFeedRest, sent>>

MqttSubscribeFails ==
  /\ feed = "subscribing" /\ feed' = "failing"
  /\ UNCHANGED <<mqttFeedRest, sent>>

(* handleMessage gives a message to the subscribers that are listed, in    *)
(* turn, and the client waits for them before the next one.                *)
MqttDelivers ==
  /\ cell = "mqttOut" /\ listed /\ conn = "open" /\ pump = "waiting"
  /\ Len(arrived) < MaxFrames
  /\ arrived' = Append(arrived, Len(arrived) + 1)
  /\ item' = Len(arrived) + 1 /\ pump' = "decoding"
  /\ UNCHANGED <<mqttRest, handleVars, sent, conn, held, main, feed, emitted, mqttVars>>

(* deliver: what cannot be decoded or emitted rejects the promise that the *)
(* subscription will wait for.  The subscriber stays listed until then, and*)
(* what comes after is delivered to it.                                    *)
MqttHandles ==
  /\ cell = "mqttOut"
  /\ \/ pump = "decoding" /\ pump' = "emitting" /\ UNCHANGED <<item, failed>>
     \/ /\ pump = "decoding" \/ (pump = "emitting" /\ ~Alive)
        /\ pump' = "waiting" /\ item' = 0 /\ failed' = TRUE
  /\ UNCHANGED <<mqttRest, handleVars, sent, conn, held, arrived, main, feed, emitted,
                 poolVars, listed>>

(* The end of the wait: an abort, a delivery that failed, or the client    *)
(* closed.  A client that closed before the wait began is not noticed.     *)
MqttStops ==
  /\ feed = "listening" /\ cell = "mqttOut"
  /\ \/ ~Alive /\ feed' = "leaving"
     \/ failed /\ feed' = "failing"
  /\ UNCHANGED <<mqttFeedRest, sent>>

MqttClosed ==
  /\ conn = "open" /\ conn' = "closed"
  /\ feed = "listening" /\ cell = "mqttOut"
  /\ feed' = IF Alive THEN "failing" ELSE "leaving"
  /\ UNCHANGED <<mqttRest, handleVars, held, arrived, main, pump, item, emitted, sent, mqttVars>>

MqttRuns ==
  \/ MqttAcquires \/ MqttReady \/ MqttLeaves \/ MqttSends \/ MqttInputsEnd
  \/ MqttHandles \/ MqttStops

MqttPeer ==
  \/ SiblingAcquires \/ SiblingReady \/ SiblingReleases
  \/ MqttConnected \/ MqttConnectFails \/ MqttSubscribed \/ MqttSubscribeFails \/ MqttDelivers
  \/ (feed # "listening" /\ MqttDrops) \/ MqttClosed
=============================================================================
