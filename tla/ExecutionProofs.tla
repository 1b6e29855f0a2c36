--------------------------- MODULE ExecutionProofs ---------------------------
(***************************************************************************)
(* What an execution guarantees for any number of sends and of goroutines, *)
(* and for any capacities of its channels.                                 *)
(***************************************************************************)
EXTENDS Execution, TLAPS

(***************************************************************************)
(* Types.                                                                  *)
(***************************************************************************)

\* The channel of events holds what was emitted and not taken.
OutputsCounted == taken + Len(events) = emitted

TypeInv == TypeOK /\ OutputsCounted

LEMMA TypesInitially == Init => TypeInv
<1> SUFFICES ASSUME Init PROVE TypeInv
  OBVIOUS
<1>1. inputs \in Seq(Value) /\ Len(inputs) <= InputCapacity
  BY CapacitiesPositive DEF Init
<1>2. events \in Seq(1 .. MaxOutputs) /\ Len(events) = 0 /\ Len(events) <= OutputCapacity
  BY CapacitiesPositive DEF Init
<1>3. at \in [Goroutine -> Place]
  BY DEF Init, Place
<1>4. emitted \in 0 .. MaxOutputs /\ taken \in 0 .. emitted /\ taken + Len(events) = emitted
  BY <1>2, MaxOutputsIsNat DEF Init
<1> QED
  BY <1>1, <1>2, <1>3, <1>4 DEF Init, TypeInv, TypeOK, OutputsCounted, Outcome

LEMMA CallerTypes ==
  ASSUME TypeInv, CallerStep
  PROVE  TypeInv'
<1> USE MaxOutputsIsNat
    DEF TypeInv, TypeOK, OutputsCounted, inputVars, outputVars, endVars, history,
        Goroutine
<1>1. ASSUME NEW v \in Value,
             SendStarts(v) \/ SendRefused(v) \/ SendAbandoned(v)
      PROVE  TypeInv'
  <2>1. sender' \in [Value -> {"idle", "selecting", "sent", "refused"}]
    BY <1>1 DEF SendStarts, SendRefused, SendAbandoned, SendEnds
  <2>2. UNCHANGED <<inputs, inputClosed, inputDone, at, seen, proposal, outputVars,
                    endVars, history>>
    BY <1>1 DEF SendStarts, SendRefused, SendAbandoned, SendEnds
  <2> QED
    BY <2>1, <2>2
<1>2. ASSUME NEW v \in Value, SendAccepted(v) PROVE TypeInv'
  <2>1. inputs' \in Seq(Value) /\ Len(inputs') <= InputCapacity
    BY <1>2, CapacitiesPositive DEF SendAccepted
  <2>2. early' \subseteq Value
    BY <1>2 DEF SendAccepted
  <2> QED
    BY <1>2, <2>1, <2>2 DEF SendAccepted, SendEnds
<1>3. CASE CloseInputFlag \/ CloseInputChannel \/ Cancel \/ EndContext
  <2>1. UNCHANGED <<sender, inputs, at, seen, proposal, outputVars, finishing,
                    terminal, err, history>>
    BY <1>3 DEF CloseInputFlag, CloseInputChannel, Cancel, EndContext
  <2>2. {inputClosed', inputDone', cancelled', ctxDone'} \subseteq BOOLEAN
    BY <1>3 DEF CloseInputFlag, CloseInputChannel, Cancel, EndContext
  <2> QED
    BY <2>1, <2>2
<1>4. CASE TakeEvent
  <2>1. events \in Seq(1 .. MaxOutputs) /\ events # <<>> /\ events' = Tail(events)
    BY <1>4 DEF TakeEvent
  <2>2. events' \in Seq(1 .. MaxOutputs) /\ Len(events') = Len(events) - 1
        /\ Len(events) \in Nat /\ Len(events') \in Nat
    BY <2>1
  <2>3. taken' \in 0 .. emitted /\ taken' + Len(events') = emitted
    <3>1. taken' = taken + 1 /\ taken + Len(events) = emitted /\ taken \in Nat /\ emitted \in Nat
      BY <1>4 DEF TakeEvent
    <3> HIDE DEF TypeInv, TypeOK, OutputsCounted
    <3> QED
      BY <2>2, <3>1
  <2>4. Len(events') <= OutputCapacity
    <3>1. Len(events) <= OutputCapacity /\ OutputCapacity \in Nat
      BY CapacitiesPositive
    <3> HIDE DEF TypeInv, TypeOK
    <3> QED
      BY <2>2, <3>1
  <2>5. UNCHANGED <<inputVars, at, seen, proposal, emitted, eventsClosed, endVars, history>>
    BY <1>4 DEF TakeEvent
  <2> QED
    BY <2>2, <2>3, <2>4, <2>5
<1> QED
  BY <1>1, <1>2, <1>3, <1>4 DEF CallerStep

LEMMA ReadTypes ==
  ASSUME TypeInv, NEW g \in Goroutine, ReadStep(g)
  PROVE  TypeInv'
<1> USE MaxOutputsIsNat
    DEF TypeInv, TypeOK, OutputsCounted, inputVars, outputVars, endVars, history,
        Goto, Place
<1>1. ASSUME Receive(g) PROVE TypeInv'
  <2>1. inputs' \in Seq(Value) /\ Len(inputs') <= InputCapacity
    BY <1>1, CapacitiesPositive DEF Receive
  <2>2. read' \subseteq Value
    BY <1>1 DEF Receive
  <2>3. at' \in [Goroutine -> Place]
    BY <1>1 DEF Receive
  <2> QED
    BY <1>1, <2>1, <2>2, <2>3 DEF Receive
<1>2. CASE ReadStarts(g) \/ PollInput(g)
  <2>1. at' \in [Goroutine -> Place]
    BY <1>2 DEF ReadStarts, PollInput
  <2>2. seen' \in [Goroutine -> BOOLEAN]
    BY <1>2 DEF ReadStarts, PollInput
  <2>3. eof' \in BOOLEAN
    <3>1. CASE ReadStarts(g)
      BY <3>1 DEF ReadStarts
    <3>2. CASE PollInput(g)
      BY <3>2, Zenon DEF PollInput
    <3> QED
      BY <1>2, <3>1, <3>2
  <2>4. UNCHANGED <<inputVars, proposal, outputVars, endVars, early, read>>
    BY <1>2 DEF ReadStarts, PollInput
  <2> QED
    BY <2>1, <2>2, <2>3, <2>4
<1>3. CASE WaitInput(g) /\ ~Receive(g)
  <2>1. at' \in [Goroutine -> Place] /\ seen' \in [Goroutine -> BOOLEAN]
    BY <1>3 DEF WaitInput
  <2>2. UNCHANGED <<inputVars, proposal, outputVars, endVars, history>>
    BY <1>3 DEF WaitInput
  <2> QED
    BY <2>1, <2>2
<1> QED
  BY <1>1, <1>2, <1>3 DEF ReadStep

LEMMA EmitTypes ==
  ASSUME TypeInv, NEW g \in Goroutine,
         EmitStarts(g) \/ Emit(g) \/ EmitRefused(g) \/ EmitPanics(g) \/ Dispatch(g)
  PROVE  TypeInv'
<1> USE MaxOutputsIsNat, CapacitiesPositive
    DEF TypeInv, TypeOK, OutputsCounted, inputVars, outputVars, endVars, history,
        Goto, Place
<1>1. CASE EmitStarts(g) \/ Dispatch(g)
  <2>1. at' \in [Goroutine -> Place]
    BY <1>1 DEF EmitStarts, Dispatch
  <2>2. UNCHANGED <<inputVars, seen, proposal, outputVars, endVars, history>>
    BY <1>1 DEF EmitStarts, Dispatch
  <2> QED
    BY <2>1, <2>2
<1>2. CASE Emit(g)
  <2>1. events' \in Seq(1 .. MaxOutputs) /\ Len(events') = Len(events) + 1
        /\ Len(events) \in Nat
    BY <1>2 DEF Emit
  <2>2. emitted' \in 0 .. MaxOutputs /\ taken' \in 0 .. emitted'
    <3>1. emitted' = emitted + 1 /\ taken' = taken /\ emitted < MaxOutputs
      BY <1>2 DEF Emit
    <3>2. emitted \in 0 .. MaxOutputs /\ taken \in 0 .. emitted
      OBVIOUS
    <3> HIDE DEF TypeInv, TypeOK, OutputsCounted
    <3> QED
      BY <3>1, <3>2
  <2>3. Len(events') <= OutputCapacity /\ taken' + Len(events') = emitted'
    <3>1. /\ emitted' = emitted + 1 /\ taken' = taken /\ Len(events) < OutputCapacity
          /\ OutputCapacity \in Nat
      BY <1>2 DEF Emit
    <3>2. emitted \in Nat /\ taken \in Nat /\ taken + Len(events) = emitted
      OBVIOUS
    <3> HIDE DEF TypeInv, TypeOK, OutputsCounted
    <3> QED
      BY <2>1, <3>1, <3>2
  <2>4. at' \in [Goroutine -> Place]
    BY <1>2 DEF Emit
  <2> QED
    BY <1>2, <2>1, <2>2, <2>3, <2>4 DEF Emit
<1>3. CASE EmitRefused(g) \/ EmitPanics(g)
  BY <1>3 DEF EmitRefused, EmitPanics
<1> QED
  BY <1>1, <1>2, <1>3

LEMMA EndTypes ==
  ASSUME TypeInv,
         \/ \E g \in Owner : FireError(g) \/ Return(g) \/ FinishMarks(g) \/ FinishReturns(g)
         \/ \E h \in Helpers : StartHelper(h) \/ HelperEnds(h)
         \/ CloseOutput \/ FinishAfterRun \/ FinishStep
  PROVE  TypeInv'
<1> USE MaxOutputsIsNat
    DEF TypeInv, TypeOK, OutputsCounted, inputVars, outputVars, endVars, history,
        Goto, Place, Goroutine, Owner
<1>1. ASSUME NEW g \in Goroutine, NEW o \in Outcome, Propose(g, o) PROVE TypeInv'
  BY <1>1 DEF Propose
<1>2. ASSUME NEW g \in Goroutine, FireError(g) \/ Return(g) PROVE TypeInv'
  <2>1. CASE FireError(g)
    <3>1. "failed" \in Outcome /\ Propose(g, "failed")
      BY <2>1 DEF FireError, Outcome
    <3> QED
      BY <1>1, <3>1
  <2>2. CASE Return(g)
    BY <2>2 DEF Return
  <2> QED
    BY <1>2, <2>1, <2>2
<1>3. ASSUME NEW g \in Goroutine, FinishMarks(g) \/ FinishReturns(g) PROVE TypeInv'
  BY <1>3, ZenonT(30) DEF FinishMarks, FinishReturns
<1>4. ASSUME NEW h \in Helpers, StartHelper(h) \/ HelperEnds(h) PROVE TypeInv'
  BY <1>4 DEF StartHelper, HelperEnds
<1>5. CASE CloseOutput \/ FinishAfterRun
  <2>1. {"completed", "cancelled", "context", "runtime"} \subseteq Outcome
        /\ Runner \in Goroutine
    BY DEF Outcome
  <2>2. CASE CloseOutput
    BY <1>1, <2>1, <2>2 DEF CloseOutput
  <2>3. CASE FinishAfterRun /\ terminal
    BY <2>3 DEF FinishAfterRun
  <2>4. CASE FinishAfterRun /\ ~terminal
    <3>1. PICK o \in Outcome : Propose(Runner, o)
      BY <2>1, <2>4 DEF FinishAfterRun
    <3> QED
      BY <1>1, <2>1, <3>1
  <2> QED
    BY <1>5, <2>2, <2>3, <2>4
<1>6. CASE FinishStep
  BY <1>6, ZenonT(30) DEF FinishStep, FinishCloses, FinishAnnounces, FinishCancels
<1> QED
  BY <1>2, <1>3, <1>4, <1>5, <1>6

LEMMA TypesStep == TypeInv /\ [Next]_vars => TypeInv'
<1> SUFFICES ASSUME TypeInv, [Next]_vars PROVE TypeInv'
  OBVIOUS
<1>1. CASE CallerStep
  BY <1>1, CallerTypes
<1>2. CASE RunStep
  BY <1>2, ReadTypes, EmitTypes, EndTypes DEF RunStep, Goroutine, Owner, Emitter
<1>3. CASE UNCHANGED vars
  BY <1>3 DEF vars, inputVars, outputVars, endVars, history, TypeInv, TypeOK,
              OutputsCounted
<1> QED
  BY <1>1, <1>2, <1>3 DEF Next, Terminating

LEMMA TypeInvariant == Spec => []TypeInv
BY TypesInitially, TypesStep, PTL DEF Spec

\* Every variable of an execution keeps its type; in particular neither channel
\* ever holds more than its capacity.
THEOREM TypeCorrect == Spec => []TypeOK
<1>1. TypeInv => TypeOK
  BY DEF TypeInv
<1> QED
  BY <1>1, TypeInvariant, PTL

(***************************************************************************)
(* The end of inputs.                                                      *)
(***************************************************************************)

\* The inputs that were accepted and not read yet.
Buffered == {inputs[i] : i \in 1 .. Len(inputs)}

\* A reader that saw the flag saw it set for good; while it is not set, every
\* accepted value is read or buffered.
InputInv ==
  /\ inputs \in Seq(Value)
  /\ early \subseteq read \cup Buffered
  /\ \A g \in Goroutine : seen[g] => inputClosed
  /\ inputClosed \in BOOLEAN
  /\ seen \in [Goroutine -> BOOLEAN]
  /\ eof => inputClosed
  /\ InputsPrecedeEOF

LEMMA BufferedAppend ==
  ASSUME NEW s \in Seq(Value), NEW v \in Value
  PROVE  {Append(s, v)[i] : i \in 1 .. Len(Append(s, v))}
           = {s[i] : i \in 1 .. Len(s)} \cup {v}
<1>1. ASSUME NEW i \in 1 .. Len(s) PROVE Append(s, v)[i] = s[i]
  OBVIOUS
<1>2. Append(s, v)[Len(s) + 1] = v /\ Len(Append(s, v)) = Len(s) + 1 /\ Len(s) \in Nat
  OBVIOUS
<1>3. 1 .. Len(s) + 1 = (1 .. Len(s)) \cup {Len(s) + 1}
  BY <1>2
<1> QED
  BY <1>1, <1>2, <1>3

LEMMA BufferedTail ==
  ASSUME NEW s \in Seq(Value), s # <<>>
  PROVE  {s[i] : i \in 1 .. Len(s)}
           = {Head(s)} \cup {Tail(s)[i] : i \in 1 .. Len(Tail(s))}
<1>1. Len(Tail(s)) = Len(s) - 1 /\ Len(s) \in Nat /\ Len(s) # 0 /\ Head(s) = s[1]
  OBVIOUS
<1>2. ASSUME NEW i \in 1 .. Len(Tail(s)) PROVE Tail(s)[i] = s[i + 1] /\ i + 1 \in 1 .. Len(s)
  BY <1>1
<1>3. ASSUME NEW i \in 1 .. Len(s), i # 1
      PROVE  i - 1 \in 1 .. Len(Tail(s)) /\ Tail(s)[i - 1] = s[i]
  BY <1>1, <1>3
<1>4. 1 \in 1 .. Len(s)
  BY <1>1
<1>5. ASSUME NEW i \in 1 .. Len(s)
      PROVE  s[i] \in {Head(s)} \cup {Tail(s)[j] : j \in 1 .. Len(Tail(s))}
  BY <1>1, <1>3
<1>6. ASSUME NEW j \in 1 .. Len(Tail(s)) PROVE Tail(s)[j] \in {s[i] : i \in 1 .. Len(s)}
  BY <1>2
<1>7. Head(s) \in {s[i] : i \in 1 .. Len(s)}
  BY <1>1, <1>4
<1> QED
  BY <1>5, <1>6, <1>7

\* Steps that neither accept nor read an input.
LEMMA InputFrame ==
  ASSUME InputInv, UNCHANGED <<inputs, early, read, eof>>,
         seen' \in [Goroutine -> BOOLEAN], inputClosed' \in BOOLEAN,
         inputClosed => inputClosed',
         \A g \in Goroutine : seen'[g] => seen[g] \/ inputClosed'
  PROVE  InputInv'
BY DEF InputInv, InputsPrecedeEOF, Buffered

\* Steps by which a reader looks at the flag.
LEMMA InputLook ==
  ASSUME InputInv, NEW g \in Goroutine, UNCHANGED <<inputVars, history>>,
         seen' = [seen EXCEPT ![g] = inputClosed]
  PROVE  InputInv'
<1>1. inputClosed \in BOOLEAN => seen' \in [Goroutine -> BOOLEAN]
  BY DEF InputInv
<1>2. \A h \in Goroutine : seen'[h] => seen[h] \/ inputClosed
  BY DEF InputInv
<1> QED
  BY <1>1, <1>2, InputFrame DEF inputVars, history, InputInv

LEMMA InputSend ==
  ASSUME InputInv, NEW v \in Value, SendAccepted(v)
  PROVE  InputInv'
<1>1. Buffered' = Buffered \cup {v} /\ inputs' \in Seq(Value)
  BY BufferedAppend DEF SendAccepted, Buffered, InputInv
<1>2. UNCHANGED <<inputClosed, seen, read, eof>>
  BY DEF SendAccepted, SendEnds, history
<1>3. early' \subseteq early \cup {v} /\ (inputClosed => early' = early)
  BY DEF SendAccepted
<1> QED
  BY <1>1, <1>2, <1>3 DEF InputInv, InputsPrecedeEOF

LEMMA InputReceive ==
  ASSUME InputInv, NEW g \in Goroutine, Receive(g)
  PROVE  InputInv'
<1>1. Buffered = {Head(inputs)} \cup Buffered' /\ inputs' \in Seq(Value)
  <2>1. inputs \in Seq(Value) /\ inputs # <<>> /\ inputs' = Tail(inputs)
    BY DEF Receive, InputInv
  <2>2. Buffered = {Head(inputs)}
                     \cup {Tail(inputs)[i] : i \in 1 .. Len(Tail(inputs))}
    BY <2>1, BufferedTail DEF Buffered
  <2>3. Buffered' = {Tail(inputs)[i] : i \in 1 .. Len(Tail(inputs))}
    BY <2>1, Zenon DEF Buffered
  <2> QED
    BY <2>1, <2>2, <2>3
<1>2. UNCHANGED <<inputClosed, seen, early, eof>>
  BY DEF Receive
<1>3. read' = read \cup {Head(inputs)}
  BY DEF Receive
<1> QED
  BY <1>1, <1>2, <1>3 DEF InputInv, InputsPrecedeEOF

LEMMA InputPoll ==
  ASSUME InputInv, NEW g \in Goroutine, PollInput(g)
  PROVE  InputInv'
<1>1. Buffered = {}
  BY DEF PollInput, Buffered
<1>2. UNCHANGED <<inputs, inputClosed, seen, early, read>>
  BY DEF PollInput, inputVars
<1>3. eof' => eof \/ seen[g]
  BY DEF PollInput
<1>4. Buffered' = Buffered
  BY <1>2 DEF Buffered
<1> QED
  BY <1>1, <1>2, <1>3, <1>4 DEF InputInv, InputsPrecedeEOF

LEMMA InputStep == InputInv /\ [Next]_vars => InputInv'
<1> SUFFICES ASSUME InputInv, [Next]_vars PROVE InputInv'
  OBVIOUS
<1> USE DEF inputVars, outputVars, endVars, history
<1>1. ASSUME NEW v \in Value,
             SendStarts(v) \/ SendRefused(v) \/ SendAbandoned(v)
      PROVE  InputInv'
  BY <1>1, InputFrame DEF SendStarts, SendRefused, SendAbandoned, SendEnds, InputInv
<1>2. CASE CloseInputFlag \/ CloseInputChannel \/ Cancel \/ EndContext \/ TakeEvent
  BY <1>2, InputFrame
     DEF CloseInputFlag, CloseInputChannel, Cancel, EndContext, TakeEvent, InputInv
<1>3. ASSUME NEW g \in Goroutine, ReadStep(g) PROVE InputInv'
  <2>1. CASE ReadStarts(g)
    BY <2>1, InputLook DEF ReadStarts
  <2>2. CASE PollInput(g)
    BY <2>2, InputPoll
  <2>3. CASE WaitInput(g)
    <3>1. CASE Receive(g)
      BY <3>1, InputReceive
    <3>2. CASE /\ seen' = [seen EXCEPT ![g] = inputClosed]
               /\ UNCHANGED <<inputVars, history>>
      BY <3>2, InputLook
    <3>3. CASE UNCHANGED <<inputVars, seen, history>>
      BY <3>3, InputFrame DEF InputInv
    <3> QED
      BY <2>3, <3>1, <3>2, <3>3 DEF WaitInput
  <2> QED
    BY <1>3, <2>1, <2>2, <2>3, InputReceive DEF ReadStep
<1>4. ASSUME NEW g \in Goroutine,
             EmitStarts(g) \/ Emit(g) \/ EmitRefused(g) \/ EmitPanics(g) \/ Dispatch(g)
      PROVE  InputInv'
  BY <1>4, InputFrame DEF EmitStarts, Emit, EmitRefused, EmitPanics, Dispatch, InputInv
<1>5. ASSUME NEW g \in Goroutine, FireError(g) \/ Return(g) \/ FinishReturns(g)
      PROVE  InputInv'
  BY <1>5, InputFrame DEF FireError, Propose, Return, FinishReturns, InputInv
<1>6. ASSUME NEW g \in Goroutine, FinishMarks(g) PROVE InputInv'
  BY <1>6, InputFrame DEF FinishMarks, InputInv
<1>7. ASSUME NEW h \in Helpers, StartHelper(h) \/ HelperEnds(h) PROVE InputInv'
  BY <1>7, InputFrame DEF StartHelper, HelperEnds, InputInv
<1>8. CASE CloseOutput \/ FinishAfterRun
  BY <1>8, InputFrame DEF CloseOutput, FinishAfterRun, Propose, InputInv
<1>9. CASE FinishStep
  BY <1>9, InputFrame
     DEF FinishStep, FinishCloses, FinishAnnounces, FinishCancels, InputInv
<1>10. CASE UNCHANGED vars
  BY <1>10, InputFrame DEF vars, InputInv
<1>11. CASE CallerStep
  BY <1>1, <1>2, <1>11, InputSend DEF CallerStep
<1>12. CASE RunStep
  BY <1>3, <1>4, <1>5, <1>6, <1>7, <1>8, <1>9, <1>12
     DEF RunStep, Goroutine, Owner, Emitter
<1> QED
  BY <1>10, <1>11, <1>12 DEF Next, Terminating

\* ReadInput reports io.EOF only once it returned every input whose Send returned
\* before the half-close.
THEOREM NoInputLost == Spec => []InputsPrecedeEOF
<1>1. Init => InputInv
  <2> SUFFICES ASSUME Init PROVE InputInv
    OBVIOUS
  <2>1. inputs = <<>> /\ inputClosed = FALSE /\ eof = FALSE /\ early = {}
    BY DEF Init
  <2>4. inputs \in Seq(Value)
    BY <2>1
  <2>2. seen = [g \in Goroutine |-> FALSE]
    BY DEF Init
  <2>3. seen \in [Goroutine -> BOOLEAN] /\ \A g \in Goroutine : ~seen[g]
    BY <2>2
  <2> QED
    BY <2>1, <2>3, <2>4 DEF InputInv, InputsPrecedeEOF
<1>2. InputInv => InputsPrecedeEOF
  BY DEF InputInv
<1> QED
  BY <1>1, <1>2, InputStep, PTL DEF Spec

(***************************************************************************)
(* The terminal outcome.                                                   *)
(***************************************************************************)

\* The mutex has been through finish exactly when doneOnce has begun.
EndInv == terminal <=> finishing # "no"

LEMMA EndStep ==
  ASSUME EndInv, [Next]_vars
  PROVE  EndInv' /\ (terminal => terminal' /\ err' = err)
<1> USE DEF EndInv, endVars
<1>1. CASE UNCHANGED endVars
  BY <1>1
<1>2. ASSUME NEW g \in Goroutine, FinishMarks(g)
      PROVE  EndInv' /\ (terminal => terminal' /\ err' = err)
  BY <1>2 DEF FinishMarks
<1>3. CASE FinishStep
  BY <1>3 DEF FinishStep, FinishCloses, FinishAnnounces, FinishCancels
<1>4. CASE Cancel \/ EndContext
  BY <1>4 DEF Cancel, EndContext
<1>5. CASE CallerStep /\ ~Cancel /\ ~EndContext
  BY <1>1, <1>5 DEF CallerStep, SendStarts, SendAccepted, SendRefused, SendAbandoned,
                    SendEnds, CloseInputFlag, CloseInputChannel, TakeEvent
<1>6. ASSUME NEW g \in Goroutine, ReadStep(g) PROVE UNCHANGED endVars
  BY <1>6 DEF ReadStep, ReadStarts, Receive, PollInput, WaitInput
<1>7. ASSUME NEW g \in Goroutine, FireError(g) \/ Return(g) \/ FinishReturns(g)
      PROVE  UNCHANGED endVars
  BY <1>7 DEF FireError, Propose, Return, FinishReturns
<1>8. ASSUME NEW g \in Goroutine,
             EmitStarts(g) \/ Emit(g) \/ EmitRefused(g) \/ EmitPanics(g) \/ Dispatch(g)
      PROVE  UNCHANGED endVars
  BY <1>8 DEF EmitStarts, Emit, EmitRefused, EmitPanics, Dispatch
<1>9. ASSUME NEW h \in Helpers, StartHelper(h) \/ HelperEnds(h) PROVE UNCHANGED endVars
  BY <1>9 DEF StartHelper, HelperEnds
<1>12. CASE CloseOutput \/ FinishAfterRun
  BY <1>1, <1>12 DEF CloseOutput, FinishAfterRun, Propose
<1>10. CASE RunStep
  BY <1>1, <1>2, <1>3, <1>6, <1>7, <1>8, <1>9, <1>10, <1>12
     DEF RunStep, Goroutine, Owner, Emitter
<1>11. CASE UNCHANGED vars
  BY <1>1, <1>11 DEF vars
<1> QED
  BY <1>4, <1>5, <1>10, <1>11 DEF Next, Terminating

LEMMA EndInvariant == Spec => []EndInv
<1>1. Init => EndInv
  BY DEF Init, EndInv
<1>2. EndInv /\ [Next]_vars => EndInv'
  BY EndStep
<1> QED
  BY <1>1, <1>2, PTL DEF Spec

\* Wait reports the first outcome, whatever else ends the execution later.
THEOREM FirstOutcomeStays == Spec => OutcomeIsFinal
<1>1. EndInv /\ [Next]_vars => [terminal => terminal' /\ err' = err]_vars
  BY EndStep
<1> QED
  BY <1>1, EndInvariant, PTL DEF Spec, OutcomeIsFinal

(***************************************************************************)
(* A run that alone finishes its execution.                                *)
(***************************************************************************)

\* While finish is at work its only caller is in it, and afterwards on its way
\* out: it never emits again.  A callback is emitting or not, and ends nothing.
RunInv ==
  /\ at \in [Goroutine -> Place]
  /\ \A c \in Callbacks : at[c] \in {"idle", "busy", "emitting", "crashed"}
  /\ EndInv
  /\ finishing \in {"closed", "done", "over"} => eventsClosed
  /\ Alone /\ ~Panicked =>
       /\ finishing \in {"marked", "closed", "done"} => at[Runner] = "finishing"
       /\ finishing = "over" => at[Runner] \in {"finishing", "returning", "ended"}
       /\ finishing \in {"no", "marked", "closed", "done", "over"}
       /\ finishing = "no" => at[Runner] # "ended"
       /\ finishing \in {"no", "marked"} => ~eventsClosed

LEMMA RunStepInv ==
  ASSUME RunInv, [Next]_vars
  PROVE  RunInv'
<1> USE DEF RunInv, EndInv, Panicked, Goto, Place, Goroutine, Owner, Emitter, Alone,
            inputVars, outputVars, endVars, history
<1>1. CASE UNCHANGED <<at, finishing, eventsClosed, terminal>>
  BY <1>1
<1>2. CASE CallerStep
  BY <1>1, <1>2 DEF CallerStep, SendStarts, SendAccepted, SendRefused, SendAbandoned,
                    SendEnds, CloseInputFlag, CloseInputChannel, TakeEvent, Cancel,
                    EndContext
<1>3. ASSUME NEW g \in Owner, ReadStep(g) PROVE RunInv'
  BY <1>3, GoroutinesDiffer DEF ReadStep, ReadStarts, Receive, PollInput, WaitInput
<1>4. ASSUME NEW g \in Emitter,
             EmitStarts(g) \/ Emit(g) \/ EmitRefused(g) \/ EmitPanics(g)
      PROVE  RunInv'
  BY <1>4, GoroutinesDiffer DEF EmitStarts, Emit, EmitRefused, EmitPanics
<1>12. ASSUME NEW c \in Callbacks, Dispatch(c) PROVE RunInv'
  BY <1>12, GoroutinesDiffer DEF Dispatch
<1>5. ASSUME NEW g \in Owner, FireError(g) \/ Return(g) PROVE RunInv'
  BY <1>5, GoroutinesDiffer DEF FireError, Return, Propose
<1>6. CASE CloseOutput \/ FinishAfterRun
  BY <1>6, GoroutinesDiffer DEF CloseOutput, FinishAfterRun, Propose
<1>7. ASSUME NEW g \in Owner, FinishMarks(g) \/ FinishReturns(g) PROVE RunInv'
  BY <1>7, GoroutinesDiffer DEF FinishMarks, FinishReturns
<1>8. CASE FinishStep
  BY <1>8 DEF FinishStep, FinishCloses, FinishAnnounces, FinishCancels
<1>9. CASE UNCHANGED vars
  BY <1>1, <1>9 DEF vars
<1>10. ASSUME NEW h \in Helpers, StartHelper(h) \/ HelperEnds(h) PROVE RunInv'
  BY <1>10, GoroutinesDiffer DEF StartHelper, HelperEnds
<1>11. CASE RunStep
  BY <1>3, <1>4, <1>5, <1>6, <1>7, <1>8, <1>10, <1>11, <1>12 DEF RunStep
<1> QED
  BY <1>2, <1>9, <1>11 DEF Next, Terminating

\* EndsInOrder: where only the run finishes its execution, an emit of the run itself
\* never meets the closed channel of events, however the caller cancels and whatever
\* callbacks emit; and whoever sees the end can drain the events.
THEOREM EndsComeInOrder == Spec => []EndsInOrder
<1>1. Init => RunInv
  BY GoroutinesDiffer DEF Init, RunInv, EndInv, Goroutine, Owner, Place
<1>2. RunInv /\ [Next]_vars => RunInv'
  BY RunStepInv
<1>3. RunInv => EndsInOrder
  BY DEF RunInv, EndsInOrder, AloneEmitReturns, DrainBeforeTerminal, Done, Panicked, EndInv
<1> QED
  BY <1>1, <1>2, <1>3, PTL DEF Spec
=============================================================================
