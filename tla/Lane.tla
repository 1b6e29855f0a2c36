-------------------------------- MODULE Lane --------------------------------
(***************************************************************************)
(* What every lane of the TypeScript engine shares: the caller's handle,   *)
(* of which this is the part that a binding sees (internal/invocation.ts   *)
(* is modelled in full by Invocation), and runBinding of invoke.ts, which  *)
(* resolves an operation and refuses it or gives it to a lane.             *)
(*                                                                         *)
(* A cell is a protocol with a direction; `In' publishes what the caller   *)
(* writes.  An action is the code between two awaits.  Inputs and frames   *)
(* are numbered in the order in which they are written and arrive.         *)
(***************************************************************************)
EXTENDS Naturals, Sequences, FiniteSets, SequencesExt

CONSTANTS
  Cell,        \* the cells explored
  MaxInputs, MaxFrames,  \* bounds on what the caller writes and the peer sends
  MaxBuffered  \* MAX_BUFFERED_FRAMES, and MAX_BUFFERED_BYTES with it

VARIABLES
  facts,       \* what the document, the configuration and the call say
  ended,       \* "open", "closed", or the kind of error of the invocation
  given, inputClosed, taken,  \* inputs accepted, the end of input, inputs read
  prepared,    \* the input that was read to resolve the address
  sent,        \* the inputs put on the wire, in order
  conn,        \* the transport: "none", "dialing", "open", "closed", ...
  held,        \* references of this invocation to pooled connections
  inputConn,   \* the second socket of an exchange over two
  heard,       \* a read of the listeners of close: "no", "clean" or "error"
  trouble,     \* "overflow" or "badFrame", once a frame is refused
  frames,      \* received and not yet taken by the output pump
  arrived, emitted,  \* history: frames buffered and outputs emitted, in order
  missed,      \* history: what a lane could not see before it listened
  main, feed, pump,  \* where the runner and its two pumps are
  item         \* what a pump is decoding or emitting

handleVars == <<ended, given, inputClosed, taken>>
wireVars == <<sent, conn, inputConn, held, heard, trouble, frames, arrived, missed>>
pumpVars == <<feed, pump, item, emitted>>
vars == <<facts, handleVars, prepared, wireVars, main, pumpVars>>

Exchange == {"wsReply", "wsSplit", "wsAsks"}
WebSocket == {"wsIn", "wsOut"} \union Exchange
External == {"kafkaIn", "kafkaOut", "mqttIn", "mqttOut"}
Receives(c) == c \in {"httpIn", "wsIn", "wsReply", "wsSplit", "kafkaIn", "mqttIn"}
cell == facts.cell

(* The objections that can be met before the address is resolved, in which *)
(* case no input is read, and after it.                                    *)
EarlyObjections(c) ==
  {"ref", "operation", "target", "context"}
    \union (IF c \in External THEN {"driver"} ELSE {"conjunction", "cell", "destinations"})
    \union (IF c \in Exchange THEN {"route"} ELSE {})
LateObjections(c) ==
  {"address", "headers", "codec"}
    \union (IF c \in WebSocket THEN {"upgrade"} ELSE {})
    \union (IF c \in External THEN {"profile"} ELSE {})

Facts ==
  {f \in [cell : Cell, needs : {"nothing", "payload", "envelope"}, acceptsInput : BOOLEAN,
          objections : UNION {{S \in SUBSET (EarlyObjections(c) \union LateObjections(c)) :
                                  Cardinality(S) <= 2} : c \in Cell}] :
     f.objections \subseteq EarlyObjections(f.cell) \union LateObjections(f.cell)}

Init ==
  /\ facts \in Facts
  /\ ended = "open" /\ given = 0 /\ inputClosed = FALSE /\ taken = 0 /\ prepared = FALSE
  /\ sent = <<>> /\ conn = "none" /\ inputConn = "none" /\ held = 0 /\ heard = "no" /\ trouble = "none"
  /\ frames = <<>> /\ arrived = <<>> /\ emitted = <<>> /\ missed = {}
  /\ main = "start" /\ feed = "off" /\ pump = "off" /\ item = 0

(***************************************************************************)
(* The handle                                                              *)
(***************************************************************************)

Alive == ended = "open"

(* fireError and closeOutput: the first one ends the invocation, and its   *)
(* input with it; the others change nothing.                               *)
EndAs(kind) ==
  /\ ended' = IF Alive THEN kind ELSE ended
  /\ inputClosed' = (inputClosed \/ Alive)
  /\ UNCHANGED <<given, taken>>

CloseInput ==
  /\ inputClosed' = TRUE
  /\ UNCHANGED <<ended, given, taken>>

(* A read of inputs(): a value, the end, or an invocation that failed.     *)
ReadInput ==
  /\ ended \in {"open", "closed"} /\ taken < given
  /\ taken' = taken + 1
  /\ UNCHANGED <<ended, given, inputClosed>>
InputsEnd == ended \in {"open", "closed"} /\ inputClosed /\ taken = given
InputsThrow == ended \notin {"open", "closed"}

Write ==
  /\ Alive /\ ~inputClosed /\ facts.acceptsInput /\ given < MaxInputs
  /\ given' = given + 1
  /\ UNCHANGED <<facts, ended, inputClosed, taken, prepared, wireVars, main, pumpVars>>

FinishInput ==
  /\ ~inputClosed /\ CloseInput
  /\ UNCHANGED <<facts, prepared, wireVars, main, pumpVars>>

Cancel ==
  /\ Alive /\ EndAs("cancelled")
  /\ UNCHANGED <<facts, prepared, wireVars, main, pumpVars>>

(***************************************************************************)
(* runBinding                                                              *)
(***************************************************************************)

laneRest == <<facts, wireVars, pumpVars>>
Objects(S) == facts.objections \cap S # {}

Preflight ==
  /\ main = "start"
  /\ IF Objects(EarlyObjections(cell))
     THEN EndAs("refused") /\ main' = "finished"
     ELSE main' = "addressing" /\ UNCHANGED handleVars
  /\ UNCHANGED <<laneRest, prepared>>

NeedsInput ==
  \/ facts.needs = "payload"
  \/ facts.needs = "envelope" /\ Receives(cell) /\ facts.acceptsInput
PayloadUnavailable ==
  facts.needs = "payload" /\ (~Receives(cell) \/ cell \in WebSocket \/ ~facts.acceptsInput)

(* Once the address is known, the carriage of headers is looked at.        *)
Unaddressable == Objects({"address", "headers"})

AddressFixed ==
  /\ main = "addressing" /\ ~NeedsInput /\ ~Unaddressable
  /\ main' = "dispatch"
  /\ UNCHANGED <<laneRest, handleVars, prepared>>

(* readFirstInput, and closeInput: a caller that still writes is refused.  *)
AddressFromInput ==
  /\ main = "addressing" /\ NeedsInput /\ ~PayloadUnavailable
  /\ ended \in {"open", "closed"} /\ taken < given
  /\ taken' = taken + 1 /\ inputClosed' = TRUE /\ prepared' = TRUE
  /\ IF Unaddressable /\ Alive THEN ended' = "refused" ELSE UNCHANGED ended
  /\ main' = IF Unaddressable THEN "finished" ELSE "dispatch"
  /\ UNCHANGED <<laneRest, given>>

(* No input comes, or it could not be read, or the address is not known.   *)
AddressRefused ==
  /\ main = "addressing"
  /\ IF NeedsInput THEN PayloadUnavailable \/ InputsEnd \/ InputsThrow ELSE Unaddressable
  /\ EndAs("refused") /\ main' = "finished"
  /\ UNCHANGED <<laneRest, prepared>>

(* What remains to object to is found by the lane before it dials.         *)
RefuseDispatch ==
  /\ main = "dispatch"
  /\ Objects(LateObjections(cell)) \/ (cell \in {"httpIn", "wsIn"} /\ ~facts.acceptsInput)
  /\ EndAs("refused") /\ main' = "finished"
  /\ UNCHANGED <<laneRest, prepared>>

Dispatchable ==
  /\ main = "dispatch"
  /\ ~Objects(LateObjections(cell))
  /\ cell \in {"httpIn", "wsIn"} => facts.acceptsInput

BindingStep ==
  Preflight \/ AddressFixed \/ AddressFromInput \/ AddressRefused \/ RefuseDispatch

(***************************************************************************)
(* The pumps of a lane: an input is encoded, perhaps by a hook, before it  *)
(* is put on the wire; a frame is decoded and then emitted.                *)
(***************************************************************************)

FeedReads ==
  /\ feed = "reading" /\ ReadInput
  /\ feed' = "encoding"
  /\ UNCHANGED <<facts, prepared, wireVars, main, pump, item, emitted>>

(* emitOutput takes the output, or parks until there is room.              *)
PumpEmits ==
  /\ pump = "emitting" /\ Alive
  /\ emitted' = Append(emitted, item) /\ item' = 0 /\ pump' = "waiting"
  /\ UNCHANGED <<facts, handleVars, prepared, wireVars, main, feed>>

CallerStep == Write \/ FinishInput \/ Cancel
=============================================================================
