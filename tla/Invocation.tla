----------------------------- MODULE Invocation -----------------------------
(***************************************************************************)
(* The invocation of the TypeScript engine (internal/invocation.ts): one   *)
(* pair of bounded buffers between a caller, which writes inputs and pulls *)
(* outputs, and a binding, which reads inputs and emits outputs.           *)
(*                                                                         *)
(* JavaScript runs one job at a time, so an action is the code between two *)
(* awaits.  A parked promise is a member of a list of waiters; when it is  *)
(* settled its owner's phase changes in the same action, for the job that  *)
(* resumes it decides nothing that another job could still change.  Only   *)
(* the validation of an input suspends with a decision still to come.      *)
(* Inputs and outputs are numbered in the order of the calls.              *)
(***************************************************************************)
EXTENDS Naturals, Sequences, FiniteSets, Functions

CONSTANTS
  InputCapacity, OutputCapacity,
  MaxPulls,             \* bound on the pulls of the output iterator in flight
  MaxWrites, MaxEmits   \* bounds on the calls of write and emitOutput

ASSUME CapacitiesArePositive ==
  InputCapacity \in Nat \ {0} /\ OutputCapacity \in Nat \ {0}
ASSUME BoundsAreNatural ==
  MaxWrites \in Nat /\ MaxEmits \in Nat /\ MaxPulls \in Nat \ {0}

VARIABLES
  state,                 \* "open", "closed" or "errored"
  terminalError,         \* the code that the invocation failed with, or "none"
  inputSideClosed,
  aborted,               \* the internal controller's signal
  external,              \* the abort of the caller's signal that the invocation saw
  validates,             \* whether the invocation has a hook that validates inputs
  write,                 \* write[n] is the phase of the n-th write
  inputBuf, inputProducerWaiters,
  inputWaiting,          \* the binding's read of inputs() is parked
  emit,                  \* emit[n] is the phase of the n-th emitOutput
  outputQueue, outputProducerWaiters,
  outputWaiters,         \* how many pulls of the consumer are parked
  header, trailer,
  consumer,              \* who acquired the outputs, and how far `single' came
  taken, delivered,      \* history: inputs read and outputs handed over, in order
  inputSeen, outputSeen  \* history: the end each reader was told of

inputVars == <<write, inputBuf, inputProducerWaiters, inputWaiting, taken, inputSeen>>
outputVars == <<emit, outputQueue, outputProducerWaiters, outputWaiters, delivered,
                outputSeen>>
endVars == <<state, terminalError, aborted, external>>
metaVars == <<header, trailer>>
vars == <<inputVars, outputVars, endVars, metaVars, inputSideClosed, validates,
          consumer>>

Errors == {"CANCELLED", "TIMEOUT", "INVALID", "FAILED"}
WritePhase == {"idle", "validating", "parked", "accepted", "refused"}
EmitPhase == {"idle", "parked", "accepted", "refused"}
(* The phases f after every call in the sequence or set S is settled as p. *)
Settle(f, S, p) == [i \in DOMAIN f |-> IF i \in S THEN p ELSE f[i]]

(***************************************************************************)
(* The transitions shared by closeOutput and fireError: every waiter of    *)
(* either side is settled, and the controller is aborted last.             *)
(***************************************************************************)

(* settleHeader: the default settles a header that nobody set.             *)
SettledHeader == IF header = "pending" THEN "default" ELSE header

Terminate(kind, error) ==
  /\ state' = kind
  /\ terminalError' = error
  /\ inputSideClosed' = TRUE
  /\ header' = SettledHeader
  /\ outputSeen' = IF outputWaiters = 0 THEN outputSeen ELSE kind
  /\ outputWaiters' = 0
  /\ emit' = Settle(emit, Range(outputProducerWaiters), "refused")
  /\ outputProducerWaiters' = <<>>
  /\ inputSeen' = IF inputWaiting THEN kind ELSE inputSeen
  /\ inputWaiting' = FALSE
  /\ inputProducerWaiters' = <<>>
  /\ aborted' = TRUE
  /\ UNCHANGED <<inputBuf, outputQueue, taken, delivered, trailer>>

(* The writes parked behind a full buffer were never accepted.             *)
RefuseParkedWrites == write' = Settle(write, Range(inputProducerWaiters), "refused")

FireError(error) ==
  /\ state = "open"
  /\ Terminate("errored", error)
  /\ RefuseParkedWrites
  /\ UNCHANGED validates

(***************************************************************************)
(* The caller's side                                                       *)
(***************************************************************************)

(* An aborted signal fails the invocation as it is built.                  *)
Init ==
  /\ external \in {"live", "timeout", "cancel"}
  /\ aborted = (external # "live")
  /\ state = IF aborted THEN "errored" ELSE "open"
  /\ terminalError = CASE external = "live" -> "none"
                       [] external = "timeout" -> "TIMEOUT"
                       [] external = "cancel" -> "CANCELLED"
  /\ inputSideClosed = aborted
  /\ validates \in BOOLEAN
  /\ write = [n \in 1..MaxWrites |-> "idle"]
  /\ emit = [n \in 1..MaxEmits |-> "idle"]
  /\ inputWaiting = FALSE /\ outputWaiters = 0
  /\ inputBuf = <<>> /\ inputProducerWaiters = <<>> /\ taken = <<>>
  /\ outputQueue = <<>> /\ outputProducerWaiters = <<>> /\ delivered = <<>>
  /\ inputSeen = "none" /\ outputSeen = "none"
  /\ header = IF aborted THEN "default" ELSE "pending"
  /\ trailer = "unset"
  /\ consumer = "none"

Writable == state = "open" /\ ~inputSideClosed

IsNext(f, n) == f[n] = "idle" /\ \A k \in 1..(n - 1) : f[k] # "idle"

(* A write that may proceed goes to the parked reader, into the buffer, or *)
(* waits for room.                                                         *)
Enqueue(n) ==
  \/ /\ inputWaiting /\ inputWaiting' = FALSE
     /\ taken' = Append(taken, n)
     /\ write' = [write EXCEPT ![n] = "accepted"]
     /\ UNCHANGED <<inputBuf, inputProducerWaiters>>
  \/ /\ ~inputWaiting /\ Len(inputBuf) < InputCapacity
     /\ inputBuf' = Append(inputBuf, n)
     /\ write' = [write EXCEPT ![n] = "accepted"]
     /\ UNCHANGED <<inputProducerWaiters, inputWaiting, taken>>
  \/ /\ ~inputWaiting /\ Len(inputBuf) >= InputCapacity
     /\ inputProducerWaiters' = Append(inputProducerWaiters, n)
     /\ write' = [write EXCEPT ![n] = "parked"]
     /\ UNCHANGED <<inputBuf, inputWaiting, taken>>

inputSideRest == <<outputVars, endVars, metaVars, inputSideClosed, validates, consumer>>

(* throwIfUnwritable, and then either the hook or the buffer.              *)
Write(n) ==
  /\ IsNext(write, n)
  /\ \/ Writable /\ ~validates /\ Enqueue(n)
     \/ /\ write' = [write EXCEPT ![n] = IF Writable THEN "validating" ELSE "refused"]
        /\ ~Writable \/ validates
        /\ UNCHANGED <<inputBuf, inputProducerWaiters, inputWaiting, taken>>
  /\ UNCHANGED <<inputSeen, inputSideRest>>

(* Mutant of Validated: what was tested before the hook is trusted.        *)
ValidatedTrusting(n) ==
  /\ write[n] = "validating" /\ Enqueue(n)
  /\ UNCHANGED <<inputSeen, inputSideRest>>

(* The hook answers: the state may have moved, so it is tested again.      *)
Validated(n) ==
  /\ write[n] = "validating"
  /\ \/ Writable /\ Enqueue(n)
     \/ /\ ~Writable
        /\ write' = [write EXCEPT ![n] = "refused"]
        /\ UNCHANGED <<inputBuf, inputProducerWaiters, inputWaiting, taken>>
  /\ UNCHANGED <<inputSeen, inputSideRest>>

(* The hook objects: the error is terminal, and rejects the write itself.  *)
Invalid(n) ==
  /\ write[n] = "validating"
  /\ \/ /\ state = "open"
        /\ Terminate("errored", "INVALID")
        /\ write' = Settle(write, Range(inputProducerWaiters) \union {n}, "refused")
     \/ /\ state # "open"
        /\ write' = [write EXCEPT ![n] = "refused"]
        /\ UNCHANGED <<inputBuf, inputProducerWaiters, inputWaiting, taken, inputSeen,
                       outputVars, state, terminalError, aborted, metaVars,
                       inputSideClosed>>
  /\ UNCHANGED <<external, validates, consumer>>

(* Mutant of CloseInput: the writes behind a full buffer keep waiting.     *)
CloseInputStranding ==
  /\ ~inputSideClosed
  /\ inputSideClosed' = TRUE
  /\ inputSeen' = IF inputWaiting THEN "closed" ELSE inputSeen
  /\ inputWaiting' = FALSE
  /\ UNCHANGED <<write, inputProducerWaiters, inputBuf, taken, outputVars, endVars,
                 metaVars, validates, consumer>>

(* close, and closeInput of the binding: parked reads end cleanly.         *)
CloseInput ==
  /\ ~inputSideClosed
  /\ inputSideClosed' = TRUE
  /\ inputSeen' = IF inputWaiting THEN "closed" ELSE inputSeen
  /\ inputWaiting' = FALSE
  /\ RefuseParkedWrites
  /\ inputProducerWaiters' = <<>>
  /\ UNCHANGED <<inputBuf, taken, outputVars, endVars, metaVars, validates, consumer>>

Cancel == FireError("CANCELLED") /\ UNCHANGED <<external, consumer>>

(* Mutant of ExternalAbort: every abort is a cancellation.                 *)
ExternalAbortUntold(reason) ==
  /\ external = "live"
  /\ FireError("CANCELLED")
  /\ external' = reason /\ UNCHANGED consumer

(* The caller's own signal: a deadline is told from a cancellation.  The   *)
(* listener goes with the invocation, so a later abort is not seen.        *)
ExternalAbort(reason) ==
  /\ external = "live"
  /\ FireError(IF reason = "timeout" THEN "TIMEOUT" ELSE "CANCELLED")
  /\ external' = reason /\ UNCHANGED consumer

(***************************************************************************)
(* The outputs                                                             *)
(***************************************************************************)

outputSideRest == <<inputVars, endVars, inputSideClosed, validates, trailer>>

(* A freed slot of the queue is given to the eldest parked emit.           *)
TakeOutput ==
  /\ outputQueue # <<>>
  /\ delivered' = Append(delivered, Head(outputQueue))
  /\ \/ /\ outputProducerWaiters = <<>>
        /\ outputQueue' = Tail(outputQueue)
        /\ UNCHANGED <<emit, outputProducerWaiters>>
     \/ /\ outputProducerWaiters # <<>>
        /\ outputQueue' = Append(Tail(outputQueue), Head(outputProducerWaiters))
        /\ emit' = [emit EXCEPT ![Head(outputProducerWaiters)] = "accepted"]
        /\ outputProducerWaiters' = Tail(outputProducerWaiters)
  /\ UNCHANGED <<outputWaiters, outputSeen>>

TellEnd ==
  /\ state # "open" /\ outputSeen' = state
  /\ UNCHANGED <<emit, outputQueue, outputProducerWaiters, outputWaiters, delivered>>

ParkPull ==
  /\ outputQueue = <<>> /\ state = "open"
  /\ outputWaiters' = outputWaiters + 1
  /\ UNCHANGED <<emit, outputQueue, outputProducerWaiters, delivered, outputSeen>>

(* Mutant of ReadNext: the state is looked at before the queue.            *)
ReadNextStateFirst == TellEnd \/ (state = "open" /\ (TakeOutput \/ ParkPull))

(* readNext: the queue is drained before the state is looked at.           *)
ReadNext == TakeOutput \/ (outputQueue = <<>> /\ TellEnd) \/ ParkPull

(* The first acquisition claims the sequence, as an iterator or for        *)
(* `single'; a later one throws and changes nothing.                       *)
Acquire(by) ==
  /\ consumer = "none" /\ consumer' = by
  /\ UNCHANGED <<outputVars, outputSideRest, header>>

Iterate ==
  /\ consumer = "iterate" /\ outputWaiters < MaxPulls
  /\ ReadNext
  /\ UNCHANGED <<outputSideRest, header, consumer>>

(* Leaving the iteration early cancels the invocation.                     *)
Leave ==
  /\ consumer = "iterate" /\ consumer' = "left"
  /\ \/ FireError("CANCELLED") /\ UNCHANGED external
     \/ state # "open" /\ UNCHANGED <<outputVars, outputSideRest, header>>

(* single: two pulls, one after the other, with one verdict.  A pull that  *)
(* is neither parked nor to be made was handed a value or told the end.    *)
Due == IF consumer = "first" THEN 0 ELSE 1

SinglePulls ==
  /\ consumer \in {"first", "second"}
  /\ outputWaiters = 0 /\ outputSeen = "none" /\ Len(delivered) = Due
  /\ ReadNext
  /\ UNCHANGED <<outputSideRest, header, consumer>>

(* Mutant of SinglePulled: any end after one value is a success.           *)
SinglePulledLax ==
  /\ \/ consumer = "first" /\ Len(delivered) > Due /\ consumer' = "second"
     \/ consumer = "first" /\ outputSeen = "closed" /\ consumer' = "fewer"
     \/ consumer = "second" /\ outputSeen # "none" /\ consumer' = "one"
  /\ UNCHANGED <<outputVars, outputSideRest, header>>

SinglePulled ==
  /\ \/ consumer = "first" /\ Len(delivered) > Due /\ consumer' = "second"
     \/ consumer = "first" /\ outputSeen = "closed" /\ consumer' = "fewer"
     \/ consumer = "second" /\ outputSeen = "closed" /\ consumer' = "one"
     \/ consumer \in {"first", "second"} /\ outputSeen = "errored" /\ consumer' = "failed"
  /\ UNCHANGED <<outputVars, outputSideRest, header>>

SingleAbandons ==
  /\ consumer = "second" /\ Len(delivered) > Due /\ consumer' = "more"
  /\ \/ FireError("CANCELLED") /\ UNCHANGED external
     \/ state # "open" /\ UNCHANGED <<outputVars, outputSideRest, header>>

(***************************************************************************)
(* The binding's side                                                      *)
(***************************************************************************)

(* inputs().next: a failure is told at once, an end after the buffer.  A   *)
(* second read beside a parked one is refused, which changes nothing.      *)
ReadInput ==
  /\ ~inputWaiting
  /\ \/ /\ state = "errored"
        /\ inputSeen' = "errored"
        /\ UNCHANGED <<inputBuf, inputProducerWaiters, inputWaiting, write, taken>>
     \/ /\ state # "errored" /\ inputBuf # <<>>
        /\ taken' = Append(taken, Head(inputBuf))
        /\ \/ /\ inputProducerWaiters = <<>>
              /\ inputBuf' = Tail(inputBuf)
              /\ UNCHANGED <<write, inputProducerWaiters>>
           \/ /\ inputProducerWaiters # <<>>
              /\ inputBuf' = Append(Tail(inputBuf), Head(inputProducerWaiters))
              /\ write' = [write EXCEPT ![Head(inputProducerWaiters)] = "accepted"]
              /\ inputProducerWaiters' = Tail(inputProducerWaiters)
        /\ UNCHANGED <<inputWaiting, inputSeen>>
     \/ /\ state # "errored" /\ inputBuf = <<>> /\ inputSideClosed
        /\ inputSeen' = "closed"
        /\ UNCHANGED <<inputBuf, inputProducerWaiters, inputWaiting, write, taken>>
     \/ /\ state # "errored" /\ inputBuf = <<>> /\ ~inputSideClosed
        /\ inputWaiting' = TRUE
        /\ UNCHANGED <<inputBuf, inputProducerWaiters, inputSeen, write, taken>>
  /\ UNCHANGED inputSideRest

(* emitOutput: a parked pull is served first, then the queue, and a full   *)
(* queue parks the binding.  The first output settles the header.          *)
EmitOutput(n) ==
  /\ IsNext(emit, n)
  /\ \/ /\ state # "open"
        /\ emit' = [emit EXCEPT ![n] = "refused"]
        /\ UNCHANGED <<outputQueue, outputProducerWaiters, outputWaiters,
                       delivered, header>>
     \/ /\ state = "open" /\ outputWaiters > 0
        /\ outputWaiters' = outputWaiters - 1
        /\ delivered' = Append(delivered, n)
        /\ emit' = [emit EXCEPT ![n] = "accepted"]
        /\ header' = SettledHeader
        /\ UNCHANGED <<outputQueue, outputProducerWaiters>>
     \/ /\ state = "open" /\ outputWaiters = 0
        /\ \/ /\ Len(outputQueue) < OutputCapacity
              /\ outputQueue' = Append(outputQueue, n)
              /\ emit' = [emit EXCEPT ![n] = "accepted"]
              /\ UNCHANGED outputProducerWaiters
           \/ /\ Len(outputQueue) >= OutputCapacity
              /\ outputProducerWaiters' = Append(outputProducerWaiters, n)
              /\ emit' = [emit EXCEPT ![n] = "parked"]
              /\ UNCHANGED outputQueue
        /\ header' = SettledHeader
        /\ UNCHANGED <<outputWaiters, delivered>>
  /\ UNCHANGED <<outputSeen, outputSideRest, consumer>>

CloseOutput ==
  /\ state = "open"
  /\ Terminate("closed", "none")
  /\ RefuseParkedWrites
  /\ UNCHANGED <<external, validates, consumer>>

BindingFails == FireError("FAILED") /\ UNCHANGED <<external, consumer>>

(* setHeader throws once the header is settled; setTrailer is dropped once *)
(* the invocation is over.                                                 *)
SetHeader ==
  /\ header = "pending" /\ header' = "set"
  /\ UNCHANGED <<inputVars, outputVars, endVars, trailer, inputSideClosed, validates, consumer>>

SetTrailer ==
  /\ state = "open" /\ trailer' = "set"
  /\ UNCHANGED <<inputVars, outputVars, endVars, header, inputSideClosed, validates, consumer>>

CallerStep ==
  \/ \E n \in 1..MaxWrites : Write(n) \/ Validated(n) \/ Invalid(n)
  \/ CloseInput \/ Cancel \/ \E reason \in {"timeout", "cancel"} : ExternalAbort(reason)
  \/ \E by \in {"iterate", "first"} : Acquire(by)
  \/ Iterate \/ Leave \/ SinglePulls \/ SinglePulled \/ SingleAbandons

BindingStep ==
  \/ ReadInput
  \/ \E n \in 1..MaxEmits : EmitOutput(n)
  \/ CloseOutput \/ BindingFails \/ SetHeader \/ SetTrailer

Next == CallerStep \/ BindingStep

Spec == Init /\ [][Next]_vars

(***************************************************************************)
(* Properties                                                              *)
(***************************************************************************)

TypeOK ==
  /\ state \in {"open", "closed", "errored"}
  /\ terminalError \in Errors \union {"none"}
  /\ inputSideClosed \in BOOLEAN /\ aborted \in BOOLEAN /\ validates \in BOOLEAN
  /\ external \in {"live", "timeout", "cancel"}
  /\ write \in [1..MaxWrites -> WritePhase] /\ emit \in [1..MaxEmits -> EmitPhase]
  /\ inputWaiting \in BOOLEAN /\ outputWaiters \in 0..MaxPulls
  /\ inputBuf \in Seq(1..MaxWrites) /\ Len(inputBuf) <= InputCapacity
  /\ outputQueue \in Seq(1..MaxEmits) /\ Len(outputQueue) <= OutputCapacity
  /\ inputProducerWaiters \in Seq(1..MaxWrites)
  /\ outputProducerWaiters \in Seq(1..MaxEmits)
  /\ taken \in Seq(1..MaxWrites) /\ delivered \in Seq(1..MaxEmits)
  /\ inputSeen \in {"none", "closed", "errored"}
  /\ outputSeen \in {"none", "closed", "errored"}
  /\ header \in {"pending", "default", "set"} /\ trailer \in {"unset", "set"}
  /\ consumer \in {"none", "iterate", "left", "first", "second",
                   "one", "fewer", "more", "failed"}

(* The comment on the class: a consumer parks only when its buffer is      *)
(* empty, and a producer only when it is full.                             *)
BuffersExclusive ==
  /\ outputWaiters > 0 => outputQueue = <<>>
  /\ outputProducerWaiters # <<>> => Len(outputQueue) = OutputCapacity
  /\ inputWaiting => inputBuf = <<>>
  /\ inputProducerWaiters # <<>> => Len(inputBuf) = InputCapacity

(* Nobody is stranded: a call that waits is in the list that will settle   *)
(* it, and no list outlives the end of its side or of the invocation.      *)
NobodyStranded ==
  /\ {n \in 1..MaxWrites : write[n] = "parked"} = Range(inputProducerWaiters)
  /\ {n \in 1..MaxEmits : emit[n] = "parked"} = Range(outputProducerWaiters)
  /\ inputSideClosed => inputProducerWaiters = <<>> /\ ~inputWaiting
  /\ state # "open" => outputProducerWaiters = <<>> /\ outputWaiters = 0

(* The terminal state is one: the signal that the binding obeys, the error *)
(* and the input side agree with it, and a deadline is never reported as a *)
(* cancellation.                                                           *)
TerminalAgrees ==
  /\ aborted = (state # "open")
  /\ (state = "errored") = (terminalError # "none")
  /\ state # "open" => inputSideClosed /\ header # "pending"
  /\ external = "timeout" <=> terminalError = "TIMEOUT"
  /\ external = "cancel" => terminalError = "CANCELLED"

(* The verdict of `single' is true of what the binding emitted: it returns *)
(* a value only if that value was the only one and the end was a normal    *)
(* one, and says that there were more only if a second one was handed over.*)
SingleIsTruthful ==
  /\ consumer = "one" => state = "closed" /\ Len(delivered) = 1 /\ outputQueue = <<>>
  /\ consumer = "fewer" => state = "closed" /\ delivered = <<>>
  /\ consumer = "more" => Len(delivered) = 2 /\ state # "open"
  /\ consumer = "failed" => state = "errored"

InputEnd == IF state = "errored" THEN "errored"
            ELSE IF inputSideClosed THEN "closed" ELSE "open"

(* The outputs that the binding emitted reach the consumer in order, each  *)
(* once, and before the end of the invocation, failed or not.              *)
Outputs == INSTANCE Channel WITH
  Message <- 1..MaxEmits, Aborts <- FALSE,
  sent <- delivered \o outputQueue, received <- delivered,
  end <- state, seen <- outputSeen

OutputsImplementChannel == Outputs!Spec

(* The inputs accepted by write reach the binding in order, each once, and *)
(* before a close; a failure stops the binding at once.                    *)
Inputs == INSTANCE Channel WITH
  Message <- 1..MaxWrites, Aborts <- TRUE,
  sent <- taken \o inputBuf, received <- taken,
  end <- InputEnd, seen <- inputSeen

InputsImplementChannel == Inputs!Spec
=============================================================================
