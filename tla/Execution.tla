------------------------------ MODULE Execution ------------------------------
(***************************************************************************)
(* One execution of an operation by the Go client (go/execution.go): the   *)
(* caller's Send, FinishInput and Cancel, the consumer of Events, the run  *)
(* of the binding, the goroutines a run starts besides itself, which read  *)
(* inputs and fire errors (the WebSocket reply exchange of go/invoke.go),  *)
(* and those of a client library that emit what it receives (paho's, in    *)
(* go/mqtt/driver.go) while the run waits.                                 *)
(*                                                                         *)
(* What the run does with its transport is abstract: between two calls of  *)
(* the execution it may do anything, and it ends when its context does.    *)
(* A critical section of the mutex is one step, a select is one step that  *)
(* takes any of the cases that are ready, and closing a channel is one.    *)
(***************************************************************************)
EXTENDS Naturals, Sequences

CONSTANTS Value,          \* the calls of Send, each with a value of its own
          Helpers,        \* goroutines that a run starts besides itself
          Callbacks,      \* goroutines of a client library
          Runner,         \* the goroutine of the run
          InputCapacity, OutputCapacity,
          MaxOutputs      \* bound: the outputs that are emitted

ASSUME CapacitiesPositive ==
  InputCapacity \in Nat \ {0} /\ OutputCapacity \in Nat \ {0}

ASSUME GoroutinesDiffer ==
  Runner \notin Helpers \cup Callbacks /\ Helpers \cap Callbacks = {}

ASSUME MaxOutputsIsNat == MaxOutputs \in Nat

VARIABLES
  sender,       \* what each call of Send is doing, or what it returned
  inputs,       \* the channel of inputs
  inputClosed,  \* the flag of that name
  inputDone,    \* the channel of that name is closed
  at,           \* where each goroutine is
  seen,         \* ReadInput's local copy of inputClosed
  proposal,     \* the outcome each goroutine passes to finish
  emitted,      \* how many outputs were put in the channel of events
  events,       \* that channel
  eventsClosed, \* it is closed
  taken,        \* history: how many outputs the consumer took
  cancelled,    \* cancelErr is set
  ctxDone,      \* the context has ended
  finishing,    \* how far doneOnce is: "no", "marked", "closed", "done", "over"
  terminal, err, \* the fields of these names
  early,        \* history: values sent before the input was closed
  read,         \* history: values that ReadInput returned
  eof           \* history: ReadInput returned io.EOF

inputVars == <<sender, inputs, inputClosed, inputDone>>
outputVars == <<emitted, events, eventsClosed, taken>>
endVars == <<cancelled, ctxDone, finishing, terminal, err>>
history == <<early, read, eof>>
vars == <<inputVars, at, seen, proposal, outputVars, endVars, history>>

\* The goroutines that read inputs and finish the execution, and those that emit.
Owner == {Runner} \cup Helpers
Emitter == {Runner} \cup Callbacks
Goroutine == Owner \cup Callbacks
Outcome == {"none", "completed", "failed", "cancelled", "context", "runtime"}
Place == {"unstarted", "idle", "busy", "polling", "waiting", "emitting", "finishing",
          "returning", "ended", "crashed"}

TypeOK ==
  /\ sender \in [Value -> {"idle", "selecting", "sent", "refused"}]
  /\ inputs \in Seq(Value) /\ Len(inputs) <= InputCapacity
  /\ inputClosed \in BOOLEAN /\ inputDone \in BOOLEAN
  /\ at \in [Goroutine -> Place]
  /\ seen \in [Goroutine -> BOOLEAN]
  /\ proposal \in [Goroutine -> Outcome]
  /\ emitted \in 0 .. MaxOutputs /\ taken \in 0 .. emitted
  /\ events \in Seq(1 .. MaxOutputs) /\ Len(events) <= OutputCapacity
  /\ eventsClosed \in BOOLEAN
  /\ cancelled \in BOOLEAN /\ ctxDone \in BOOLEAN
  /\ finishing \in {"no", "marked", "closed", "done", "over"}
  /\ terminal \in BOOLEAN /\ err \in Outcome
  /\ early \subseteq Value /\ read \subseteq Value /\ eof \in BOOLEAN

Init ==
  /\ sender = [v \in Value |-> "idle"]
  /\ inputs = <<>> /\ inputClosed = FALSE /\ inputDone = FALSE
  /\ at = [g \in Goroutine |-> IF g = Runner THEN "busy"
                              ELSE IF g \in Helpers THEN "unstarted" ELSE "idle"]
  /\ seen = [g \in Goroutine |-> FALSE]
  /\ proposal = [g \in Goroutine |-> "none"]
  /\ emitted = 0 /\ events = <<>> /\ eventsClosed = FALSE /\ taken = 0
  /\ cancelled = FALSE /\ ctxDone = FALSE
  /\ finishing = "no" /\ terminal = FALSE /\ err = "none"
  /\ early = {} /\ read = {} /\ eof = FALSE
-----------------------------------------------------------------------------
(* The caller.                                                              *)

\* A panic ends every goroutine of the program.
Panicked == at[Runner] = "crashed"

\* The channel done is closed.
Done == finishing \in {"done", "over"}

SendEnds(v, result) ==
  /\ ~Panicked /\ sender[v] = "selecting"
  /\ sender' = [sender EXCEPT ![v] = result]
  /\ UNCHANGED <<inputClosed, inputDone, at, seen, proposal, outputVars, endVars, read, eof>>

\* Send looks at terminal and at inputClosed under the mutex, then selects.
SendStarts(v) ==
  /\ ~Panicked /\ sender[v] = "idle"
  /\ sender' = [sender EXCEPT ![v] = IF terminal \/ inputClosed THEN "refused" ELSE "selecting"]
  /\ UNCHANGED <<inputs, inputClosed, inputDone, at, seen, proposal, outputVars,
                 endVars, history>>

SendAccepted(v) ==
  /\ SendEnds(v, "sent")
  /\ Len(inputs) < InputCapacity
  /\ inputs' = Append(inputs, v)
  /\ early' = IF inputClosed THEN early ELSE early \cup {v}

SendRefused(v) ==
  /\ SendEnds(v, "refused")
  /\ inputDone \/ Done
  /\ UNCHANGED <<inputs, early>>

\* The context of this call of Send ends.
SendAbandoned(v) == SendEnds(v, "refused") /\ UNCHANGED <<inputs, early>>

\* CloseInput under inputOnce, by the caller or by the run: the flag, then the
\* channel.
CloseInputFlag ==
  /\ ~Panicked /\ ~inputClosed
  /\ inputClosed' = TRUE
  /\ UNCHANGED <<sender, inputs, inputDone, at, seen, proposal, outputVars, endVars, history>>

\* finish has set the flag too, and then CloseInput may still come.
CloseInputChannel ==
  /\ ~Panicked /\ inputClosed /\ ~inputDone
  /\ inputDone' = TRUE
  /\ UNCHANGED <<sender, inputs, inputClosed, at, seen, proposal, outputVars, endVars, history>>

\* Mutant of Cancel: it finishes the execution itself.
CancelFinishing ==
  /\ ~Panicked /\ ~terminal /\ ~cancelled
  /\ cancelled' = TRUE /\ terminal' = TRUE /\ err' = "cancelled"
  /\ inputClosed' = TRUE /\ finishing' = "marked"
  /\ UNCHANGED <<sender, inputs, inputDone, at, seen, proposal, outputVars,
                 ctxDone, history>>

\* Cancel under the mutex.
Cancel ==
  /\ ~Panicked /\ ~terminal /\ ~cancelled
  /\ cancelled' = TRUE
  /\ UNCHANGED <<inputVars, at, seen, proposal, outputVars, ctxDone, finishing,
                 terminal, err, history>>

\* Cancel's second half, or the end of the parent context.
EndContext ==
  /\ ~Panicked /\ ~ctxDone
  /\ ctxDone' = TRUE
  /\ UNCHANGED <<inputVars, at, seen, proposal, outputVars, cancelled, finishing,
                 terminal, err, history>>

\* The consumer receives from Events.
TakeEvent ==
  /\ ~Panicked /\ events # <<>>
  /\ events' = Tail(events) /\ taken' = taken + 1
  /\ UNCHANGED <<inputVars, at, seen, proposal, emitted, eventsClosed, endVars, history>>
-----------------------------------------------------------------------------
(* ReadInput.  The run reads until it hands the input to a goroutine.       *)

Goto(g, place) == at' = [at EXCEPT ![g] = place]

ReadStarts(g) ==
  /\ at[g] = "busy"
  /\ g = Runner => \A h \in Helpers : at[h] = "unstarted"
  /\ seen' = [seen EXCEPT ![g] = inputClosed]
  /\ Goto(g, "polling")
  /\ UNCHANGED <<inputVars, proposal, outputVars, endVars, history>>

Receive(g) ==
  /\ inputs # <<>>
  /\ inputs' = Tail(inputs)
  /\ read' = read \cup {Head(inputs)}
  /\ Goto(g, "busy")
  /\ UNCHANGED <<sender, inputClosed, inputDone, seen, proposal, outputVars,
                 endVars, early, eof>>

\* The first select finds nothing: io.EOF if the input was closed before it.
PollInput(g) ==
  /\ at[g] = "polling" /\ inputs = <<>>
  /\ Goto(g, IF seen[g] THEN "busy" ELSE "waiting")
  /\ eof' = (eof \/ seen[g])
  /\ UNCHANGED <<inputVars, seen, proposal, outputVars, endVars, early, read>>

\* Mutant of WaitInput: the end of inputs is reported without another look.
WaitInputOnce(g) ==
  /\ at[g] = "waiting"
  /\ \/ Receive(g)
     \/ /\ inputDone
        /\ Goto(g, "busy") /\ eof' = TRUE
        /\ UNCHANGED <<inputVars, seen, proposal, outputVars, endVars, early, read>>

\* The second select: an input, the end of inputs (look again), or the end of
\* the execution or of the context, on which every caller of ReadInput returns.
WaitInput(g) ==
  /\ at[g] = "waiting"
  /\ \/ Receive(g)
     \/ /\ inputDone
        /\ Goto(g, "polling") /\ seen' = [seen EXCEPT ![g] = inputClosed]
        /\ UNCHANGED <<inputVars, proposal, outputVars, endVars, history>>
     \/ /\ Done \/ ctxDone
        /\ Goto(g, "returning")
        /\ UNCHANGED <<inputVars, seen, proposal, outputVars, endVars, history>>

ReadStep(g) ==
  ReadStarts(g) \/ (at[g] = "polling" /\ Receive(g)) \/ PollInput(g) \/ WaitInput(g)
-----------------------------------------------------------------------------
(* EmitOutput, by the run or by a callback.                                 *)

\* A message comes for a subscription of the run, which waits: the callback takes
\* its subscriber, and emits to it although the run may be over by then.
Dispatch(c) ==
  /\ at[Runner] = "busy" /\ at[c] = "idle"
  /\ Goto(c, "busy")
  /\ UNCHANGED <<inputVars, seen, proposal, outputVars, endVars, history>>

EmitStarts(g) ==
  /\ at[g] = "busy"
  /\ Goto(g, "emitting")
  /\ UNCHANGED <<inputVars, seen, proposal, outputVars, endVars, history>>

Emit(g) ==
  /\ at[g] = "emitting" /\ emitted < MaxOutputs
  /\ ~eventsClosed /\ Len(events) < OutputCapacity
  /\ emitted' = emitted + 1
  /\ events' = Append(events, emitted + 1)
  /\ Goto(g, IF g = Runner THEN "busy" ELSE "idle")
  /\ UNCHANGED <<inputVars, seen, proposal, eventsClosed, taken, endVars, history>>

\* Mutant of EmitRefused: the select has no case for the context.
EmitIgnoringContext(g) ==
  /\ at[g] = "emitting"
  /\ Done
  /\ Goto(g, IF g = Runner THEN "returning" ELSE "idle")
  /\ UNCHANGED <<inputVars, seen, proposal, outputVars, endVars, history>>

\* The run returns when EmitOutput fails; a callback tells the run, which may then
\* return or fire an error.
EmitRefused(g) ==
  /\ at[g] = "emitting"
  /\ Done \/ ctxDone
  /\ Goto(g, IF g = Runner THEN "returning" ELSE "idle")
  /\ UNCHANGED <<inputVars, seen, proposal, outputVars, endVars, history>>

\* A select whose send case is a closed channel may take it, and one that was
\* parked when the channel was closed does: the program panics.
EmitPanics(g) ==
  /\ at[g] = "emitting" /\ eventsClosed
  /\ at' = [h \in Goroutine |-> "crashed"]
  /\ UNCHANGED <<inputVars, seen, proposal, outputVars, endVars, history>>
-----------------------------------------------------------------------------
(* The end.                                                                 *)

Propose(g, outcome) ==
  /\ proposal' = [proposal EXCEPT ![g] = outcome]
  /\ Goto(g, "finishing")
  /\ UNCHANGED <<inputVars, seen, outputVars, endVars, history>>

\* FireError; a helper fires an error, too.
FireError(g) == at[g] = "busy" /\ Propose(g, "failed")

CloseOutput == at[Runner] = "busy" /\ Propose(Runner, "completed")

\* The function of the goroutine returns, by itself or since its context ended.
Return(g) ==
  /\ at[g] = "busy"
  /\ Goto(g, "returning")
  /\ UNCHANGED <<inputVars, seen, proposal, outputVars, endVars, history>>

HelperEnds(h) ==
  /\ at[h] = "returning" /\ h \in Helpers
  /\ Goto(h, "ended")
  /\ UNCHANGED <<inputVars, seen, proposal, outputVars, endVars, history>>

\* finishAfterRun, under the mutex.
FinishAfterRun ==
  /\ at[Runner] = "returning"
  /\ IF terminal
     THEN /\ Goto(Runner, "ended")
          /\ UNCHANGED <<inputVars, seen, proposal, outputVars, endVars, history>>
     ELSE Propose(Runner, IF cancelled THEN "cancelled"
                          ELSE IF ctxDone THEN "context" ELSE "runtime")

\* finish under doneOnce: the fields, ...
FinishMarks(g) ==
  /\ at[g] = "finishing" /\ finishing = "no"
  /\ finishing' = "marked"
  /\ terminal' = TRUE /\ inputClosed' = TRUE /\ err' = proposal[g]
  /\ UNCHANGED <<sender, inputs, inputDone, at, seen, proposal, outputVars,
                 cancelled, ctxDone, history>>

\* ... close(events), ...
FinishCloses ==
  /\ ~Panicked /\ finishing = "marked"
  /\ finishing' = "closed" /\ eventsClosed' = TRUE
  /\ UNCHANGED <<inputVars, at, seen, proposal, emitted, events, taken, cancelled,
                 ctxDone, terminal, err, history>>

\* ... close(done) ...
FinishAnnounces ==
  /\ ~Panicked /\ finishing = "closed"
  /\ finishing' = "done"
  /\ UNCHANGED <<inputVars, at, seen, proposal, outputVars, cancelled, ctxDone,
                 terminal, err, history>>

\* ... and the context.
FinishCancels ==
  /\ ~Panicked /\ finishing = "done"
  /\ finishing' = "over" /\ ctxDone' = TRUE
  /\ UNCHANGED <<inputVars, at, seen, proposal, outputVars, cancelled, terminal,
                 err, history>>

\* finish returns, to whoever called it, once doneOnce is over.
FinishReturns(g) ==
  /\ at[g] = "finishing" /\ finishing = "over"
  /\ Goto(g, "returning")
  /\ UNCHANGED <<inputVars, seen, proposal, outputVars, endVars, history>>

StartHelper(h) ==
  /\ at[Runner] = "busy" /\ at[h] = "unstarted" /\ h \in Helpers
  /\ Goto(h, "busy")
  /\ UNCHANGED <<inputVars, seen, proposal, outputVars, endVars, history>>
-----------------------------------------------------------------------------
CallerStep ==
  \/ \E v \in Value : SendStarts(v) \/ SendAccepted(v) \/ SendRefused(v) \/ SendAbandoned(v)
  \/ CloseInputFlag \/ CloseInputChannel \/ Cancel \/ EndContext \/ TakeEvent

FinishStep == FinishCloses \/ FinishAnnounces \/ FinishCancels

RunStep ==
  \/ \E g \in Owner :
       ReadStep(g) \/ FireError(g) \/ Return(g) \/ FinishMarks(g) \/ FinishReturns(g)
  \/ \E g \in Emitter : EmitStarts(g) \/ Emit(g) \/ EmitRefused(g) \/ EmitPanics(g)
  \/ \E c \in Callbacks : Dispatch(c)
  \/ CloseOutput \/ FinishAfterRun \/ FinishStep
  \/ \E h \in Helpers : StartHelper(h) \/ HelperEnds(h)

\* The run is over, or the program is.
Terminating ==
  /\ at[Runner] \in {"ended", "crashed"}
  /\ UNCHANGED vars

Next == CallerStep \/ RunStep \/ Terminating

Spec == Init /\ [][Next]_vars

\* What a goroutine does without waiting for its transport.
Proceed(g) ==
  \/ at[g] # "busy" /\ ReadStep(g)
  \/ FinishMarks(g) \/ FinishReturns(g) \/ HelperEnds(g)

\* Goroutines are scheduled, and a run whose context ended returns, after however
\* many calls of the execution (strong fairness: between them it is not in its
\* transport): its dials, requests and reads are given that context.  The caller
\* and the consumer owe nothing.
Fairness ==
  /\ \A g \in Owner : WF_vars(Proceed(g)) /\ SF_vars(ctxDone /\ Return(g))
  /\ WF_vars(FinishStep) /\ WF_vars(FinishAfterRun)
  /\ \A g \in Emitter : WF_vars(Emit(g) \/ EmitRefused(g) \/ EmitPanics(g))
  /\ \A v \in Value : WF_vars(SendAccepted(v) \/ SendRefused(v))

FairSpec == Spec /\ Fairness
-----------------------------------------------------------------------------
\* ReadInput reports the end of inputs only after every value whose Send returned
\* before the input was closed, although it looks at the flag and at the channel
\* in two steps.
InputsPrecedeEOF == eof => early \subseteq read

\* The first outcome is the one that Wait reports: neither a late error, nor a
\* cancellation, nor the return of the run replaces it.
OutcomeIsFinal == [][terminal => terminal' /\ err' = err]_vars

\* A consumer that saw Done closed, or Wait return, and then ranges over Events
\* gets what was emitted and the end: the channel is closed by then.
DrainBeforeTerminal == Done => eventsClosed

\* `invocation terminated while the emit was parked': an EmitOutput that finds the
\* execution terminated returns an error to the run.
ParkedEmitReturns == ~Panicked

\* It does when the run itself emits and no helper can finish its execution: the
\* run then never meets the closed channel of events, however the caller cancels
\* and whatever callbacks do.  A callback has no such protection: the run may end,
\* and with it the channel, under its emit.
Alone == \A h \in Helpers : at[h] = "unstarted"

AloneEmitReturns == Alone /\ at[Runner] = "emitting" => ~eventsClosed

\* The end comes in order for the run, which emits into an open channel, and for
\* the consumer, which sees the channel closed before it sees the end.
EndsInOrder == AloneEmitReturns /\ DrainBeforeTerminal

\* An execution whose context has ended finishes, whatever its consumer does.
CancelEnds == ctxDone ~> Done \/ Panicked

\* No call of Send is left waiting by an execution that is done.
SendersReturn == Done ~> (\A v \in Value : sender[v] # "selecting") \/ Panicked

\* There is one outcome, it comes once the context has ended, and nobody who sends
\* waits beyond it.
EndsOnceForAll == OutcomeIsFinal /\ CancelEnds /\ SendersReturn
=============================================================================
