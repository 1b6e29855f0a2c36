-------------------------- MODULE InvocationProofs --------------------------
(***************************************************************************)
(* What Invocation guarantees for any capacities and any number of writes, *)
(* outputs and pulls.                                                      *)
(***************************************************************************)
EXTENDS Invocation, SequenceTheorems, TLAPS

(***************************************************************************)
(* Lists of waiters: no member twice.                                      *)
(***************************************************************************)

\* The members of a longer list.
LEMMA RangeOfAppend ==
  ASSUME NEW S, NEW s \in Seq(S), NEW e \in S
  PROVE  Range(Append(s, e)) = Range(s) \union {e}
<1>1. ASSUME NEW x \in Range(Append(s, e)) PROVE x \in Range(s) \union {e}
  BY <1>1 DEF Range
<1>2. ASSUME NEW x \in Range(s) PROVE x \in Range(Append(s, e))
  <2>1. PICK i \in 1 .. Len(s) : s[i] = x
    BY <1>2 DEF Range
  <2>2. i \in DOMAIN Append(s, e) /\ Append(s, e)[i] = x
    BY <2>1
  <2>3. QED
    BY <2>2 DEF Range
<1>3. e \in Range(Append(s, e))
  <2>1. Len(s) + 1 \in DOMAIN Append(s, e) /\ Append(s, e)[Len(s) + 1] = e
    OBVIOUS
  <2>2. QED
    BY <2>1 DEF Range
<1>4. QED
  BY <1>1, <1>2, <1>3

\* The members of what is left of a list.
LEMMA RangeOfTail ==
  ASSUME NEW S, NEW s \in Seq(S), s # <<>>, IsInjective(s)
  PROVE  /\ Head(s) \in Range(s)
         /\ Range(Tail(s)) = Range(s) \ {Head(s)}
         /\ IsInjective(Tail(s))
<1>1. Head(s) \in Range(s)
  BY DEF Range
<1>2. ASSUME NEW x \in Range(Tail(s)) PROVE x \in Range(s) \ {Head(s)}
  BY <1>2 DEF Range, IsInjective
<1>3. ASSUME NEW x \in Range(s) \ {Head(s)} PROVE x \in Range(Tail(s))
  <2>1. PICK i \in 1 .. Len(s) : s[i] = x
    BY DEF Range
  <2>2. i # 1
    BY <2>1
  <2>3. i - 1 \in DOMAIN Tail(s) /\ Tail(s)[i - 1] = x
    BY <2>1, <2>2
  <2>4. QED
    BY <2>3 DEF Range
<1>4. IsInjective(Tail(s))
  BY DEF IsInjective
<1>5. QED
  BY <1>1, <1>2, <1>3, <1>4

LEMMA InjectiveAppend ==
  ASSUME NEW S, NEW s \in Seq(S), NEW e \in S, IsInjective(s), e \notin Range(s)
  PROVE  IsInjective(Append(s, e))
BY DEF Range, IsInjective

\* The list of nobody.
LEMMA EmptyList ==
  ASSUME NEW S
  PROVE  <<>> \in Seq(S) /\ IsInjective(<<>>) /\ Range(<<>>) = {} /\ Len(<<>>) = 0
BY EmptySeq DEF IsInjective, Range

(***************************************************************************)
(* A queue and what was taken from it: together the sequence of what was   *)
(* accepted.                                                               *)
(***************************************************************************)

\* Taking the head moves it from one part to the other.
LEMMA TakeHead ==
  ASSUME NEW S, NEW s \in Seq(S), NEW q \in Seq(S), q # <<>>
  PROVE  /\ Append(s, Head(q)) \in Seq(S) /\ Tail(q) \in Seq(S)
         /\ Append(s, Head(q)) \o Tail(q) = s \o q
         /\ (s \o q)[Len(s) + 1] = Head(q)
<1>1. Head(q) \in S /\ Tail(q) \in Seq(S) /\ q = <<Head(q)>> \o Tail(q)
  <2>1. Head(q) \in S /\ Tail(q) \in Seq(S)
    BY HeadTailProperties
  <2>2. <<Head(q)>> \in Seq(S)
    BY <2>1
  <2>3. Len(q) = Len(<<Head(q)>> \o Tail(q))
    BY <2>1, <2>2, ConcatProperties, HeadTailProperties
  <2>4. \A i \in 1 .. Len(q) : q[i] = (<<Head(q)>> \o Tail(q))[i]
    BY <2>1, <2>2, ConcatProperties, HeadTailProperties
  <2>5. QED
    BY <2>1, <2>2, <2>3, <2>4, ConcatProperties, SeqEqual
<1>2. <<Head(q)>> \in Seq(S)
  BY <1>1
<1>3. Append(s, Head(q)) = s \o <<Head(q)>>
  BY <1>1, AppendIsConcat
<1>4. Append(s, Head(q)) \o Tail(q) = s \o q
  BY <1>1, <1>2, <1>3, ConcatAssociative
<1>5. Append(s, Head(q)) \in Seq(S)
  BY <1>1, AppendProperties
<1>6. (s \o q)[Len(s) + 1] = Head(q)
  <2>1. Len(s) \in Nat /\ Len(q) \in Nat /\ Len(q) # 0
    BY EmptySeq
  <2>2. (s \o q)[Len(s) + 1] = q[1]
    BY <2>1, ConcatProperties
  <2>3. QED
    BY <2>2
<1>7. QED
  BY <1>1, <1>4, <1>5, <1>6

\* Queueing extends what was accepted.
LEMMA QueueLast ==
  ASSUME NEW S, NEW s \in Seq(S), NEW q \in Seq(S), NEW e \in S
  PROVE  Append(q, e) \in Seq(S) /\ s \o Append(q, e) = Append(s \o q, e)
<1>1. Append(q, e) = q \o <<e>> /\ <<e>> \in Seq(S) /\ s \o q \in Seq(S)
  BY AppendIsConcat, ConcatProperties
<1>2. Append(s \o q, e) = (s \o q) \o <<e>>
  BY <1>1, AppendIsConcat
<1>3. QED
  BY <1>1, <1>2, ConcatAssociative, AppendProperties

\* Taking the head and giving its room to another.
LEMMA TakeAndRefill ==
  ASSUME NEW S, NEW s \in Seq(S), NEW q \in Seq(S), q # <<>>, NEW e \in S
  PROVE  /\ Append(Tail(q), e) \in Seq(S)
         /\ Append(s, Head(q)) \o Append(Tail(q), e) = Append(s \o q, e)
         /\ Append(s \o q, e)[Len(s) + 1] = Head(q)
<1>1. Append(s, Head(q)) \in Seq(S) /\ Tail(q) \in Seq(S)
  BY TakeHead
<1>2. Append(s, Head(q)) \o Append(Tail(q), e) = Append(s \o q, e)
  BY <1>1, TakeHead, QueueLast
<1>3. Append(s \o q, e)[Len(s) + 1] = (s \o q)[Len(s) + 1]
  <2>1. s \o q \in Seq(S) /\ Len(s) + 1 \in 1 .. Len(s \o q)
    BY ConcatProperties, EmptySeq
  <2>2. QED
    BY <2>1, AppendProperties
<1>4. QED
  BY <1>1, <1>2, <1>3, TakeHead, QueueLast

\* Handing a value over while nothing is queued.
LEMMA HandOver ==
  ASSUME NEW S, NEW s \in Seq(S), NEW e \in S
  PROVE  /\ s \o <<>> = s /\ Append(s, e) \o <<>> = Append(s, e)
         /\ Append(s, e) \in Seq(S)
         /\ Append(s, e)[Len(s) + 1] = e
<1>1. Append(s, e) \in Seq(S) /\ Append(s, e)[Len(s) + 1] = e
  BY AppendProperties
<1>2. QED
  BY <1>1, ConcatEmptySeq

(***************************************************************************)
(* The terminal state.                                                     *)
(***************************************************************************)

EndTypeOK ==
  /\ state \in {"open", "closed", "errored"}
  /\ terminalError \in Errors \union {"none"}
  /\ inputSideClosed \in BOOLEAN /\ aborted \in BOOLEAN /\ validates \in BOOLEAN
  /\ external \in {"live", "timeout", "cancel"}
  /\ header \in {"pending", "default", "set"} /\ trailer \in {"unset", "set"}
  /\ consumer \in {"none", "iterate", "left", "first", "second",
                   "one", "fewer", "more", "failed"}

TerminalInv == EndTypeOK /\ TerminalAgrees

\* The only changes of the terminal state: it is left alone, or the invocation
\* ends once, normally or with an error that the caller's signal explains.
LEMMA TerminalSteps ==
  ASSUME [Next]_vars
  PROVE  \/ /\ UNCHANGED endVars
            /\ inputSideClosed' \in {inputSideClosed, TRUE}
            /\ header' \in {header, SettledHeader, "set"}
         \/ /\ state = "open"
            /\ \/ /\ Terminate("closed", "none") /\ UNCHANGED external
               \/ \E e \in {"CANCELLED", "INVALID", "FAILED"} : Terminate("errored", e) /\ UNCHANGED external
               \/ /\ external = "live" /\ external' = "timeout" /\ Terminate("errored", "TIMEOUT")
               \/ /\ external = "live" /\ external' = "cancel" /\ Terminate("errored", "CANCELLED")
<1> DEFINE Still == /\ UNCHANGED endVars
                    /\ inputSideClosed' \in {inputSideClosed, TRUE}
                    /\ header' \in {header, SettledHeader, "set"}
<1>1. ASSUME NEW n \in 1 .. MaxWrites, Write(n) \/ Validated(n) PROVE Still
  BY <1>1 DEF Write, Validated, inputSideRest, metaVars
<1>2. ASSUME NEW n \in 1 .. MaxWrites, Invalid(n)
      PROVE  Still \/ (state = "open" /\ Terminate("errored", "INVALID") /\ UNCHANGED external)
  BY <1>2 DEF Invalid, endVars, metaVars
<1>3. ASSUME CloseInput PROVE Still
  BY <1>3 DEF CloseInput, metaVars
<1>4. ASSUME Cancel \/ BindingFails
      PROVE  state = "open" /\ \E e \in {"CANCELLED", "FAILED"} : Terminate("errored", e) /\ UNCHANGED external
  BY <1>4 DEF Cancel, BindingFails, FireError
<1>5. ASSUME NEW reason \in {"timeout", "cancel"}, ExternalAbort(reason)
      PROVE  /\ state = "open" /\ external = "live"
             /\ \/ external' = "timeout" /\ Terminate("errored", "TIMEOUT")
                \/ external' = "cancel" /\ Terminate("errored", "CANCELLED")
  BY <1>5 DEF ExternalAbort, FireError
<1>6. ASSUME (\E by \in {"iterate", "first"} : Acquire(by)) \/ SinglePulled \/ ReadInput PROVE Still
  BY <1>6 DEF Acquire, SinglePulled, ReadInput, outputSideRest, inputSideRest, metaVars
<1>7. ASSUME Iterate \/ SinglePulls PROVE Still
  BY <1>7 DEF Iterate, SinglePulls, outputSideRest
<1>8. ASSUME Leave \/ SingleAbandons
      PROVE  Still \/ (state = "open" /\ Terminate("errored", "CANCELLED") /\ UNCHANGED external)
  BY <1>8 DEF Leave, SingleAbandons, FireError, outputSideRest
<1>9. ASSUME NEW n \in 1 .. MaxEmits, EmitOutput(n) PROVE Still
  BY <1>9 DEF EmitOutput, outputSideRest
<1>10. ASSUME CloseOutput
       PROVE  state = "open" /\ Terminate("closed", "none") /\ UNCHANGED external
  BY <1>10 DEF CloseOutput
<1>11. ASSUME SetHeader \/ SetTrailer PROVE Still
  BY <1>11 DEF SetHeader, SetTrailer
<1>12. ASSUME UNCHANGED vars PROVE Still
  BY <1>12 DEF vars, metaVars
<1>13. QED
  <2>1. CASE CallerStep
    <3>1. CASE \E n \in 1 .. MaxWrites : Write(n) \/ Validated(n) \/ Invalid(n)
      BY <1>1, <1>2, <3>1
    <3>2. CASE \E reason \in {"timeout", "cancel"} : ExternalAbort(reason)
      BY <1>5, <3>2
    <3>3. CASE CloseInput \/ Cancel \/ (\E by \in {"iterate", "first"} : Acquire(by)) \/ Iterate \/ Leave
                 \/ SinglePulls \/ SinglePulled \/ SingleAbandons
      BY <1>3, <1>4, <1>6, <1>7, <1>8, <3>3
    <3>4. QED
      BY <2>1, <3>1, <3>2, <3>3 DEF CallerStep
  <2>2. CASE BindingStep
    BY <1>4, <1>6, <1>9, <1>10, <1>11, <2>2 DEF BindingStep
  <2>3. QED
    BY <1>12, <2>1, <2>2 DEF Next

\* What no transition of the terminal state touches.
LEMMA RestTypes ==
  ASSUME EndTypeOK, [Next]_vars
  PROVE  /\ validates' = validates /\ trailer' \in {"unset", "set"}
         /\ consumer' \in {"none", "iterate", "left", "first", "second",
                           "one", "fewer", "more", "failed"}
<1> USE DEF EndTypeOK
<1>1. ASSUME NEW n \in 1 .. MaxWrites, Write(n) \/ Validated(n)
      PROVE  UNCHANGED <<validates, trailer, consumer>>
  BY <1>1 DEF Write, Validated, inputSideRest, metaVars
<1>2. ASSUME NEW n \in 1 .. MaxWrites, Invalid(n) PROVE UNCHANGED <<validates, trailer, consumer>>
  BY <1>2 DEF Invalid, Terminate, metaVars
<1>3. ASSUME CloseInput \/ Cancel \/ BindingFails \/ CloseOutput PROVE UNCHANGED <<validates, trailer, consumer>>
  BY <1>3 DEF CloseInput, Cancel, BindingFails, CloseOutput, FireError, Terminate, metaVars
<1>4. ASSUME NEW reason \in {"timeout", "cancel"}, ExternalAbort(reason) PROVE UNCHANGED <<validates, trailer, consumer>>
  BY <1>4 DEF ExternalAbort, FireError, Terminate
<1>5. ASSUME ReadInput \/ Iterate \/ SinglePulls PROVE UNCHANGED <<validates, trailer, consumer>>
  BY <1>5 DEF ReadInput, Iterate, SinglePulls, inputSideRest, outputSideRest, metaVars
<1>6. ASSUME NEW n \in 1 .. MaxEmits, EmitOutput(n) PROVE UNCHANGED <<validates, trailer, consumer>>
  BY <1>6 DEF EmitOutput, outputSideRest
<1>7. ASSUME Leave \/ SingleAbandons
      PROVE  UNCHANGED <<validates, trailer>> /\ consumer' \in {"left", "more"}
  BY <1>7 DEF Leave, SingleAbandons, FireError, Terminate, outputSideRest
<1>8. ASSUME SinglePulled
      PROVE  UNCHANGED <<validates, trailer>> /\ consumer' \in {"second", "fewer", "one", "failed"}
  BY <1>8 DEF SinglePulled, outputSideRest
<1>9. ASSUME NEW by \in {"iterate", "first"}, Acquire(by)
      PROVE  UNCHANGED <<validates, trailer>> /\ consumer' \in {"iterate", "first"}
  BY <1>9 DEF Acquire, outputSideRest
<1>10. ASSUME SetHeader \/ SetTrailer
       PROVE  UNCHANGED <<validates, consumer>> /\ trailer' \in {trailer, "set"}
  BY <1>10 DEF SetHeader, SetTrailer
<1>11. ASSUME UNCHANGED vars PROVE UNCHANGED <<validates, trailer, consumer>>
  BY <1>11 DEF vars, metaVars
<1>12. QED
  <2>1. CASE CallerStep
    BY <1>1, <1>2, <1>3, <1>4, <1>5, <1>7, <1>8, <1>9, <2>1 DEF CallerStep
  <2>2. CASE BindingStep
    BY <1>3, <1>5, <1>6, <1>10, <2>2 DEF BindingStep
  <2>3. QED
    BY <1>11, <2>1, <2>2 DEF Next

LEMMA TerminalStep == TerminalInv /\ [Next]_vars => TerminalInv'
<1> SUFFICES ASSUME TerminalInv, [Next]_vars PROVE TerminalInv'
  OBVIOUS
<1>0. EndTypeOK /\ TerminalAgrees
  BY DEF TerminalInv
<1>1. /\ validates' = validates /\ trailer' \in {"unset", "set"}
      /\ consumer' \in {"none", "iterate", "left", "first", "second",
                        "one", "fewer", "more", "failed"}
  BY <1>0, RestTypes
<1>2. SettledHeader \in {"default", "set"}
  BY <1>0 DEF SettledHeader, EndTypeOK
<1>3. CASE /\ UNCHANGED endVars
           /\ inputSideClosed' \in {inputSideClosed, TRUE}
           /\ header' \in {header, SettledHeader, "set"}
  <2>1. UNCHANGED <<state, terminalError, aborted, external>>
    BY <1>3 DEF endVars
  <2>2. EndTypeOK'
    BY <1>0, <1>1, <1>2, <1>3, <2>1 DEF EndTypeOK
  <2>3. (aborted = (state # "open"))' /\ ((state = "errored") = (terminalError # "none"))'
    BY <1>0, <2>1 DEF TerminalAgrees
  <2>4. (state # "open" => inputSideClosed /\ header # "pending")'
    <3>1. SUFFICES ASSUME state # "open" PROVE inputSideClosed' /\ header' # "pending"
      BY <2>1
    <3>2. inputSideClosed = TRUE /\ header # "pending"
      BY <1>0, <3>1 DEF TerminalAgrees, EndTypeOK
    <3>3. inputSideClosed' = TRUE
      BY <1>3, <3>2, Zenon
    <3>4. header' # "pending"
      BY <1>2, <1>3, <3>2
    <3>5. QED
      BY <3>3, <3>4
  <2>5. (external = "timeout" <=> terminalError = "TIMEOUT")' /\ (external = "cancel" => terminalError = "CANCELLED")'
    BY <1>0, <2>1 DEF TerminalAgrees
  <2>6. QED
    BY <2>2, <2>3, <2>4, <2>5 DEF TerminalInv, TerminalAgrees
<1>4. ASSUME state = "open", NEW kind, NEW e, Terminate(kind, e),
             \/ kind = "closed" /\ e = "none" /\ UNCHANGED external
             \/ kind = "errored" /\ e \in {"CANCELLED", "INVALID", "FAILED"} /\ UNCHANGED external
             \/ kind = "errored" /\ external = "live" /\ external' = "timeout" /\ e = "TIMEOUT"
             \/ kind = "errored" /\ external = "live" /\ external' = "cancel" /\ e = "CANCELLED"
      PROVE  TerminalInv'
  <2>1. /\ state' = kind /\ terminalError' = e /\ inputSideClosed' = TRUE
        /\ header' = SettledHeader /\ aborted' = TRUE
    BY <1>4 DEF Terminate
  <2>2. external = "live"
    BY <1>0, <1>4 DEF TerminalAgrees, EndTypeOK
  <2>3. EndTypeOK'
    BY <1>0, <1>1, <1>2, <1>4, <2>1 DEF EndTypeOK, Errors
  <2>4. TerminalAgrees'
    BY <1>2, <1>4, <2>1, <2>2 DEF TerminalAgrees
  <2>5. QED
    BY <2>3, <2>4 DEF TerminalInv
<1>5. QED
  BY <1>3, <1>4, TerminalSteps

LEMMA TerminalInvariant == Spec => []TerminalInv
<1>1. ASSUME Init PROVE TerminalInv
  <2>1. EndTypeOK
    BY <1>1 DEF Init, EndTypeOK, Errors
  <2>2. aborted = (external # "live") /\ inputSideClosed = aborted
    BY <1>1 DEF Init
  <2>3. CASE external = "live"
    <3>1. /\ aborted = FALSE /\ state = "open" /\ terminalError = "none"
      BY <1>1, <2>3 DEF Init
    <3>2. QED
      BY <2>1, <2>3, <3>1 DEF TerminalInv, TerminalAgrees
  <2>4. CASE external \in {"timeout", "cancel"}
    <3>1. /\ aborted = TRUE /\ state = "errored" /\ header = "default"
          /\ terminalError = IF external = "timeout" THEN "TIMEOUT" ELSE "CANCELLED"
      BY <1>1, <2>4 DEF Init
    <3>2. QED
      BY <2>1, <2>2, <2>4, <3>1 DEF TerminalInv, TerminalAgrees
  <2>5. QED
    BY <1>1, <2>3, <2>4 DEF Init
<1>2. QED
  BY <1>1, TerminalStep, PTL DEF Spec

\* The state, the error, the signal that the binding obeys and the input side
\* agree about the end, whichever of close, failure, cancellation and the caller's
\* signal came first, and a deadline is never reported as a cancellation
\* (closeOutput, fireError, abortToTerminal).
THEOREM EndsAgree == Spec => []TerminalAgrees
<1>1. TerminalInv => TerminalAgrees
  BY DEF TerminalInv
<1>2. QED
  BY <1>1, TerminalInvariant, PTL

(***************************************************************************)
(* The input side.                                                         *)
(***************************************************************************)

Writes == 1 .. MaxWrites
Emits == 1 .. MaxEmits

\* The buffer, the list of parked writes and the parked read exclude one another
\* as the comment on the class says, and the list is that of the parked writes.
InputInv ==
  /\ write \in [Writes -> WritePhase] /\ inputWaiting \in BOOLEAN
  /\ inputBuf \in Seq(Writes) /\ taken \in Seq(Writes)
  /\ inputProducerWaiters \in Seq(Writes) /\ IsInjective(inputProducerWaiters)
  /\ \A n \in Writes : write[n] = "parked" <=> n \in Range(inputProducerWaiters)
  /\ Len(inputBuf) <= InputCapacity
  /\ inputSideClosed => inputProducerWaiters = <<>> /\ ~inputWaiting
  /\ inputWaiting => inputBuf = <<>>
  /\ inputProducerWaiters # <<>> => Len(inputBuf) = InputCapacity

\* Settling a set of writes leaves the others as they are.
LEMMA SettleWrites ==
  ASSUME write \in [Writes -> WritePhase], NEW S, NEW p \in WritePhase
  PROVE  /\ Settle(write, S, p) \in [Writes -> WritePhase]
         /\ \A n \in Writes : Settle(write, S, p)[n] = IF n \in S THEN p ELSE write[n]
BY DEF Settle

\* An input proceeds once: it is taken, buffered or parked.
LEMMA EnqueueKeeps ==
  ASSUME InputInv, NEW n \in Writes, write[n] \in {"idle", "validating"}, Enqueue(n),
         ~inputSideClosed, inputSideClosed' = inputSideClosed
  PROVE  InputInv'
<1>0. n \notin Range(inputProducerWaiters)
  BY DEF InputInv
<1>1. \A p \in WritePhase : [write EXCEPT ![n] = p] \in [Writes -> WritePhase]
  BY DEF InputInv
<1>2. CASE inputWaiting /\ inputWaiting' = FALSE /\ taken' = Append(taken, n)
           /\ write' = [write EXCEPT ![n] = "accepted"]
           /\ UNCHANGED <<inputBuf, inputProducerWaiters>>
  <2>1. taken' \in Seq(Writes) /\ write' \in [Writes -> WritePhase]
    BY <1>1, <1>2, AppendProperties DEF InputInv, WritePhase
  <2>2. \A m \in Writes : write'[m] = "parked" <=> m \in Range(inputProducerWaiters)'
    BY <1>0, <1>2 DEF InputInv
  <2>3. QED
    BY <1>2, <2>1, <2>2 DEF InputInv
<1>3. CASE ~inputWaiting /\ Len(inputBuf) < InputCapacity /\ inputBuf' = Append(inputBuf, n)
           /\ write' = [write EXCEPT ![n] = "accepted"]
           /\ UNCHANGED <<inputProducerWaiters, inputWaiting, taken>>
  <2>1. inputBuf' \in Seq(Writes) /\ Len(inputBuf') = Len(inputBuf) + 1 /\ write' \in [Writes -> WritePhase]
    BY <1>1, <1>3, AppendProperties DEF InputInv, WritePhase
  <2>2. \A m \in Writes : write'[m] = "parked" <=> m \in Range(inputProducerWaiters)'
    BY <1>0, <1>3 DEF InputInv
  <2>3. Len(inputBuf) \in Nat /\ InputCapacity \in Nat
    BY CapacitiesArePositive DEF InputInv
  <2>4. Len(inputBuf') <= InputCapacity /\ inputProducerWaiters = <<>>
    BY <1>3, <2>1, <2>3 DEF InputInv
  <2>5. QED
    BY <1>3, <2>1, <2>2, <2>4 DEF InputInv
<1>4. CASE ~inputWaiting /\ Len(inputBuf) >= InputCapacity
           /\ inputProducerWaiters' = Append(inputProducerWaiters, n)
           /\ write' = [write EXCEPT ![n] = "parked"]
           /\ UNCHANGED <<inputBuf, inputWaiting, taken>>
  <2>1. /\ inputProducerWaiters' \in Seq(Writes) /\ IsInjective(inputProducerWaiters')
        /\ Range(inputProducerWaiters') = Range(inputProducerWaiters) \union {n}
    BY <1>0, <1>4, AppendProperties, InjectiveAppend, RangeOfAppend DEF InputInv
  <2>2. write' \in [Writes -> WritePhase]
    BY <1>1, <1>4 DEF WritePhase
  <2>3. \A m \in Writes : write'[m] = "parked" <=> m \in Range(inputProducerWaiters')
    BY <1>4, <2>1 DEF InputInv
  <2>4. Len(inputBuf) = InputCapacity
    <3>1. Len(inputBuf) \in Nat /\ InputCapacity \in Nat /\ Len(inputBuf) <= InputCapacity
      BY CapacitiesArePositive DEF InputInv
    <3>2. QED
      BY <1>4, <3>1
  <2>5. QED
    BY <1>4, <2>1, <2>2, <2>3, <2>4 DEF InputInv
<1>5. QED
  BY <1>2, <1>3, <1>4 DEF Enqueue

\* A write that only changes its own phase.
LEMMA PhaseKeeps ==
  ASSUME InputInv, NEW n \in Writes, write[n] \in {"idle", "validating"}, NEW p \in {"validating", "refused"},
         write' = [write EXCEPT ![n] = p],
         UNCHANGED <<inputBuf, inputProducerWaiters, inputWaiting, taken, inputSideClosed>>
  PROVE  InputInv'
<1>1. write' \in [Writes -> WritePhase]
  BY DEF InputInv, WritePhase
<1>2. \A m \in Writes : write'[m] = "parked" <=> m \in Range(inputProducerWaiters)
  BY DEF InputInv
<1>3. QED
  BY <1>1, <1>2 DEF InputInv

\* The end of the input side refuses whoever is parked.
LEMMA EndKeepsInputs ==
  ASSUME InputInv, NEW S, Range(inputProducerWaiters) \subseteq S,
         write' = Settle(write, S, "refused"), inputProducerWaiters' = <<>>,
         inputWaiting' = FALSE, inputSideClosed' = TRUE, UNCHANGED <<inputBuf, taken>>
  PROVE  InputInv'
<1>1. write' \in [Writes -> WritePhase]
  BY SettleWrites DEF InputInv, WritePhase
<1>2. \A m \in Writes : write'[m] # "parked"
  BY SettleWrites DEF InputInv, WritePhase
<1>3. inputProducerWaiters' \in Seq(Writes) /\ IsInjective(inputProducerWaiters') /\ Range(inputProducerWaiters') = {}
  BY EmptyList
<1>4. QED
  BY <1>1, <1>2, <1>3 DEF InputInv

\* The binding's read: the eldest parked write gets the room that it frees.
LEMMA ReadKeeps ==
  ASSUME InputInv, ReadInput
  PROVE  InputInv'
<1>0. inputSideClosed' = inputSideClosed
  BY DEF ReadInput, inputSideRest
<1>1. CASE UNCHANGED <<write, inputBuf, inputProducerWaiters, taken, inputWaiting>>
  BY <1>0, <1>1 DEF InputInv
<1>2. CASE inputBuf = <<>> /\ ~inputSideClosed /\ inputWaiting' = TRUE
           /\ UNCHANGED <<write, inputBuf, inputProducerWaiters, taken>>
  BY <1>0, <1>2 DEF InputInv
<1>3. CASE inputBuf # <<>> /\ taken' = Append(taken, Head(inputBuf)) /\ UNCHANGED inputWaiting
           /\ inputProducerWaiters = <<>> /\ inputBuf' = Tail(inputBuf)
           /\ UNCHANGED <<write, inputProducerWaiters>>
  <2>1. taken' \in Seq(Writes) /\ inputBuf' \in Seq(Writes)
    BY <1>3, TakeHead DEF InputInv
  <2>2. Len(inputBuf') <= InputCapacity
    <3>1. Len(inputBuf) \in Nat /\ InputCapacity \in Nat /\ Len(inputBuf) <= InputCapacity
      BY CapacitiesArePositive DEF InputInv
    <3>2. Len(inputBuf') = Len(inputBuf) - 1
      BY <1>3, HeadTailProperties DEF InputInv
    <3>3. QED
      BY <3>1, <3>2
  <2>3. inputWaiting = FALSE
    BY <1>3 DEF InputInv
  <2>4. QED
    BY <1>0, <1>3, <2>1, <2>2, <2>3 DEF InputInv
<1>4. CASE inputBuf # <<>> /\ taken' = Append(taken, Head(inputBuf)) /\ UNCHANGED inputWaiting
           /\ inputProducerWaiters # <<>>
           /\ inputBuf' = Append(Tail(inputBuf), Head(inputProducerWaiters))
           /\ write' = [write EXCEPT ![Head(inputProducerWaiters)] = "accepted"]
           /\ inputProducerWaiters' = Tail(inputProducerWaiters)
  <2> DEFINE h == Head(inputProducerWaiters)
  <2>1. /\ h \in Writes /\ Tail(inputProducerWaiters) \in Seq(Writes)
        /\ h \in Range(inputProducerWaiters)
        /\ Range(Tail(inputProducerWaiters)) = Range(inputProducerWaiters) \ {h}
        /\ IsInjective(Tail(inputProducerWaiters))
    BY <1>4, HeadTailProperties, RangeOfTail DEF InputInv
  <2>2. taken' \in Seq(Writes) /\ Tail(inputBuf) \in Seq(Writes)
    BY <1>4, TakeHead DEF InputInv
  <2>3. inputBuf' \in Seq(Writes) /\ Len(inputBuf') = Len(inputBuf)
    <3>1. Len(Tail(inputBuf)) = Len(inputBuf) - 1 /\ Len(inputBuf) \in Nat
      BY <1>4, HeadTailProperties DEF InputInv
    <3>2. Len(inputBuf') = Len(Tail(inputBuf)) + 1 /\ inputBuf' \in Seq(Writes)
      BY <1>4, <2>1, <2>2, AppendProperties
    <3>3. QED
      BY <3>1, <3>2
  <2>4. write' \in [Writes -> WritePhase]
    BY <1>4, <2>1 DEF InputInv, WritePhase
  <2>5. \A m \in Writes : write'[m] = "parked" <=> m \in Range(inputProducerWaiters')
    <3>1. \A m \in Writes : write'[m] = IF m = h THEN "accepted" ELSE write[m]
      BY <1>4, <2>1 DEF InputInv
    <3>2. QED
      BY <1>4, <2>1, <3>1 DEF InputInv
  <2>6. inputWaiting = FALSE /\ ~inputSideClosed
    BY <1>4 DEF InputInv
  <2>7. inputProducerWaiters' \in Seq(Writes) /\ IsInjective(inputProducerWaiters')
    BY <1>4, <2>1
  <2>8. Len(inputBuf') = InputCapacity /\ Len(inputBuf') <= InputCapacity
    BY <1>4, <2>3, CapacitiesArePositive DEF InputInv
  <2>9. QED
    BY <1>0, <1>4, <2>2, <2>3, <2>4, <2>5, <2>6, <2>7, <2>8 DEF InputInv
<1>5. QED
  BY <1>1, <1>2, <1>3, <1>4 DEF ReadInput

LEMMA InputStep == TerminalInv /\ InputInv /\ [Next]_vars => InputInv'
<1> SUFFICES ASSUME TerminalInv, InputInv, [Next]_vars PROVE InputInv'
  OBVIOUS
<1>1. ASSUME UNCHANGED <<inputVars, inputSideClosed>> PROVE InputInv'
  BY <1>1 DEF InputInv, inputVars
<1>2. ASSUME NEW kind, NEW e, Terminate(kind, e), RefuseParkedWrites PROVE InputInv'
  BY <1>2, EndKeepsInputs DEF Terminate, RefuseParkedWrites
<1>3. ASSUME NEW n \in Writes, Write(n) PROVE InputInv'
  <2>1. inputSideClosed' = inputSideClosed /\ write[n] = "idle"
    BY <1>3 DEF Write, inputSideRest, IsNext
  <2>2. CASE Writable /\ Enqueue(n)
    BY <2>1, <2>2, EnqueueKeeps DEF Writable
  <2>3. CASE ~(Writable /\ Enqueue(n))
    BY <1>3, <2>1, <2>3, PhaseKeeps DEF Write
  <2>4. QED
    BY <2>2, <2>3
<1>4. ASSUME NEW n \in Writes, Validated(n) PROVE InputInv'
  <2>1. inputSideClosed' = inputSideClosed /\ write[n] = "validating"
    BY <1>4 DEF Validated, inputSideRest
  <2>2. CASE Writable /\ Enqueue(n)
    BY <2>1, <2>2, EnqueueKeeps DEF Writable
  <2>3. CASE ~(Writable /\ Enqueue(n))
    BY <1>4, <2>1, <2>3, PhaseKeeps DEF Validated
  <2>4. QED
    BY <2>2, <2>3
<1>5. ASSUME NEW n \in Writes, Invalid(n) PROVE InputInv'
  <2>1. CASE Terminate("errored", "INVALID") /\ write' = Settle(write, Range(inputProducerWaiters) \union {n}, "refused")
    <3>1. Range(inputProducerWaiters) \subseteq Range(inputProducerWaiters) \union {n}
      OBVIOUS
    <3>2. QED
      BY <2>1, <3>1, EndKeepsInputs DEF Terminate
  <2>2. CASE write' = [write EXCEPT ![n] = "refused"] /\ write[n] = "validating"
             /\ UNCHANGED <<inputBuf, inputProducerWaiters, inputWaiting, taken, inputSideClosed>>
    BY <2>2, PhaseKeeps
  <2>3. QED
    BY <1>5, <2>1, <2>2 DEF Invalid
<1>6. ASSUME CloseInput PROVE InputInv'
  BY <1>6, EndKeepsInputs DEF CloseInput, RefuseParkedWrites
<1>7. ASSUME CloseOutput \/ (\E e \in Errors : FireError(e)) PROVE InputInv'
  BY <1>2, <1>7 DEF CloseOutput, FireError
<1>8. ASSUME Cancel \/ BindingFails \/ (\E reason \in {"timeout", "cancel"} : ExternalAbort(reason)) PROVE InputInv'
  BY <1>7, <1>8 DEF Cancel, BindingFails, ExternalAbort, Errors
<1>9. ASSUME Leave \/ SingleAbandons PROVE InputInv'
  BY <1>1, <1>7, <1>9 DEF Leave, SingleAbandons, Errors, outputSideRest
<1>10. ASSUME (\E by \in {"iterate", "first"} : Acquire(by)) \/ Iterate \/ SinglePulls \/ SinglePulled PROVE InputInv'
  BY <1>1, <1>10 DEF Acquire, Iterate, SinglePulls, SinglePulled, outputSideRest
<1>11. ASSUME (\E n \in Emits : EmitOutput(n)) \/ SetHeader \/ SetTrailer PROVE InputInv'
  BY <1>1, <1>11 DEF EmitOutput, SetHeader, SetTrailer, outputSideRest
<1>12. CASE UNCHANGED vars
  BY <1>1, <1>12 DEF vars
<1>13. QED
  <2>1. CASE CallerStep
    BY <1>3, <1>4, <1>5, <1>6, <1>8, <1>9, <1>10, <2>1 DEF CallerStep, Writes
  <2>2. CASE BindingStep
    BY <1>7, <1>8, <1>11, <2>2, ReadKeeps DEF BindingStep, Emits
  <2>3. QED
    BY <1>12, <2>1, <2>2 DEF Next

LEMMA InputInvariant == Spec => []InputInv
<1>1. ASSUME Init PROVE InputInv
  <2>1. write = [n \in Writes |-> "idle"] /\ inputBuf = <<>> /\ inputProducerWaiters = <<>>
        /\ taken = <<>> /\ inputWaiting = FALSE
    BY <1>1 DEF Init, Writes
  <2>2. inputBuf \in Seq(Writes) /\ inputProducerWaiters \in Seq(Writes) /\ taken \in Seq(Writes)
        /\ IsInjective(inputProducerWaiters) /\ Range(inputProducerWaiters) = {} /\ Len(inputBuf) = 0
    BY <2>1, EmptyList
  <2>3. 0 <= InputCapacity
    BY CapacitiesArePositive
  <2>4. write \in [Writes -> WritePhase] /\ \A n \in Writes : write[n] # "parked"
    BY <2>1 DEF WritePhase
  <2>5. QED
    BY <2>1, <2>2, <2>3, <2>4 DEF InputInv
<1>2. QED
  BY <1>1, InputStep, TerminalInvariant, PTL DEF Spec

(***************************************************************************)
(* The output side.                                                        *)
(***************************************************************************)

\* As for the inputs; a pull waits only while nothing is queued.
OutputInv ==
  /\ emit \in [Emits -> EmitPhase] /\ outputWaiters \in 0 .. MaxPulls
  /\ outputQueue \in Seq(Emits) /\ delivered \in Seq(Emits)
  /\ outputProducerWaiters \in Seq(Emits) /\ IsInjective(outputProducerWaiters)
  /\ \A n \in Emits : emit[n] = "parked" <=> n \in Range(outputProducerWaiters)
  /\ Len(outputQueue) <= OutputCapacity
  /\ state # "open" => outputProducerWaiters = <<>> /\ outputWaiters = 0
  /\ outputWaiters > 0 => outputQueue = <<>>
  /\ outputProducerWaiters # <<>> => Len(outputQueue) = OutputCapacity

\* Taking an output: the eldest parked emit gets the room that it frees.
LEMMA TakeKeeps ==
  ASSUME OutputInv, TakeOutput, state' = state
  PROVE  OutputInv'
<1>0. outputQueue # <<>> /\ delivered' = Append(delivered, Head(outputQueue)) /\ outputWaiters' = outputWaiters
  BY DEF TakeOutput
<1>a. outputWaiters = 0
  <2>1. outputWaiters \in Nat
    BY BoundsAreNatural DEF OutputInv
  <2>2. QED
    BY <1>0, <2>1 DEF OutputInv
<1>b. delivered' \in Seq(Emits) /\ Tail(outputQueue) \in Seq(Emits)
  BY <1>0, TakeHead DEF OutputInv
<1>1. CASE outputProducerWaiters = <<>> /\ outputQueue' = Tail(outputQueue)
           /\ UNCHANGED <<emit, outputProducerWaiters>>
  <2>1. Len(outputQueue') <= OutputCapacity
    <3>1. Len(outputQueue) \in Nat /\ OutputCapacity \in Nat /\ Len(outputQueue) <= OutputCapacity
      BY CapacitiesArePositive DEF OutputInv
    <3>2. Len(outputQueue') = Len(outputQueue) - 1
      BY <1>0, <1>1, HeadTailProperties DEF OutputInv
    <3>3. QED
      BY <3>1, <3>2
  <2>2. QED
    BY <1>0, <1>a, <1>b, <1>1, <2>1 DEF OutputInv
<1>2. CASE outputProducerWaiters # <<>>
           /\ outputQueue' = Append(Tail(outputQueue), Head(outputProducerWaiters))
           /\ emit' = [emit EXCEPT ![Head(outputProducerWaiters)] = "accepted"]
           /\ outputProducerWaiters' = Tail(outputProducerWaiters)
  <2> DEFINE h == Head(outputProducerWaiters)
  <2>1. /\ h \in Emits /\ Tail(outputProducerWaiters) \in Seq(Emits)
        /\ h \in Range(outputProducerWaiters)
        /\ Range(Tail(outputProducerWaiters)) = Range(outputProducerWaiters) \ {h}
        /\ IsInjective(Tail(outputProducerWaiters))
    BY <1>2, HeadTailProperties, RangeOfTail DEF OutputInv
  <2>2. outputQueue' \in Seq(Emits) /\ Len(outputQueue') = Len(outputQueue)
    <3>1. Len(Tail(outputQueue)) = Len(outputQueue) - 1 /\ Len(outputQueue) \in Nat
      BY <1>0, HeadTailProperties DEF OutputInv
    <3>2. Len(outputQueue') = Len(Tail(outputQueue)) + 1 /\ outputQueue' \in Seq(Emits)
      BY <1>2, <1>b, <2>1, AppendProperties
    <3>3. QED
      BY <3>1, <3>2
  <2>3. emit' \in [Emits -> EmitPhase]
    BY <1>2, <2>1 DEF OutputInv, EmitPhase
  <2>4. \A m \in Emits : emit'[m] = "parked" <=> m \in Range(outputProducerWaiters')
    <3>1. \A m \in Emits : emit'[m] = IF m = h THEN "accepted" ELSE emit[m]
      BY <1>2, <2>1 DEF OutputInv
    <3>2. QED
      BY <1>2, <2>1, <3>1 DEF OutputInv
  <2>5. state = "open"
    BY <1>2 DEF OutputInv
  <2>6. outputProducerWaiters' \in Seq(Emits) /\ IsInjective(outputProducerWaiters')
    BY <1>2, <2>1
  <2>7. Len(outputQueue') = OutputCapacity /\ Len(outputQueue') <= OutputCapacity
    BY <1>2, <2>2, CapacitiesArePositive DEF OutputInv
  <2>8. outputWaiters' \in 0 .. MaxPulls /\ ~(outputWaiters' > 0)
    BY <1>0, <1>a DEF OutputInv
  <2>9. QED
    BY <1>b, <2>2, <2>3, <2>4, <2>5, <2>6, <2>7, <2>8 DEF OutputInv
<1>3. QED
  BY <1>1, <1>2 DEF TakeOutput

\* One pull of the consumer.
LEMMA PullKeeps ==
  ASSUME OutputInv, ReadNext, outputWaiters < MaxPulls, state' = state
  PROVE  OutputInv'
<1>1. CASE TakeOutput
  BY <1>1, TakeKeeps
<1>2. CASE TellEnd
  BY <1>2 DEF TellEnd, OutputInv
<1>3. CASE ParkPull
  <2>1. outputWaiters' \in 0 .. MaxPulls
    BY <1>3, BoundsAreNatural DEF ParkPull, OutputInv
  <2>2. QED
    BY <1>3, <2>1 DEF ParkPull, OutputInv
<1>4. QED
  BY <1>1, <1>2, <1>3 DEF ReadNext

\* One output of the binding: handed over, queued, parked or refused.
LEMMA EmitKeeps ==
  ASSUME OutputInv, NEW n \in Emits, EmitOutput(n)
  PROVE  OutputInv'
<1>0. n \notin Range(outputProducerWaiters) /\ emit[n] = "idle" /\ state' = state
  BY DEF OutputInv, EmitOutput, IsNext, outputSideRest, endVars
<1>1. \A p \in EmitPhase : [emit EXCEPT ![n] = p] \in [Emits -> EmitPhase]
  BY DEF OutputInv
<1>2. CASE emit' = [emit EXCEPT ![n] = "refused"]
           /\ UNCHANGED <<outputQueue, outputProducerWaiters, outputWaiters, delivered>>
  <2>1. emit' \in [Emits -> EmitPhase] /\ \A m \in Emits : emit'[m] = "parked" <=> m \in Range(outputProducerWaiters)
    BY <1>0, <1>1, <1>2 DEF OutputInv, EmitPhase
  <2>2. QED
    BY <1>0, <1>2, <2>1 DEF OutputInv
<1>3. CASE state = "open" /\ outputWaiters > 0 /\ outputWaiters' = outputWaiters - 1
           /\ delivered' = Append(delivered, n) /\ emit' = [emit EXCEPT ![n] = "accepted"]
           /\ UNCHANGED <<outputQueue, outputProducerWaiters>>
  <2>1. emit' \in [Emits -> EmitPhase] /\ \A m \in Emits : emit'[m] = "parked" <=> m \in Range(outputProducerWaiters)
    BY <1>0, <1>1, <1>3 DEF OutputInv, EmitPhase
  <2>2. delivered' \in Seq(Emits)
    BY <1>3, AppendProperties DEF OutputInv
  <2>3. outputWaiters' \in 0 .. MaxPulls
    BY <1>3, BoundsAreNatural DEF OutputInv
  <2>4. outputQueue = <<>>
    BY <1>3 DEF OutputInv
  <2>5. QED
    BY <1>0, <1>3, <2>1, <2>2, <2>3, <2>4 DEF OutputInv
<1>4. CASE state = "open" /\ outputWaiters = 0 /\ Len(outputQueue) < OutputCapacity
           /\ outputQueue' = Append(outputQueue, n) /\ emit' = [emit EXCEPT ![n] = "accepted"]
           /\ UNCHANGED <<outputProducerWaiters, outputWaiters, delivered>>
  <2>1. emit' \in [Emits -> EmitPhase] /\ \A m \in Emits : emit'[m] = "parked" <=> m \in Range(outputProducerWaiters)
    BY <1>0, <1>1, <1>4 DEF OutputInv, EmitPhase
  <2>2. outputQueue' \in Seq(Emits) /\ Len(outputQueue') = Len(outputQueue) + 1
    BY <1>4, AppendProperties DEF OutputInv
  <2>3. Len(outputQueue) \in Nat /\ OutputCapacity \in Nat
    BY CapacitiesArePositive DEF OutputInv
  <2>4. Len(outputQueue') <= OutputCapacity /\ outputProducerWaiters = <<>>
    BY <1>4, <2>2, <2>3 DEF OutputInv
  <2>5. outputWaiters' = 0 /\ 0 \in 0 .. MaxPulls
    BY <1>4 DEF OutputInv
  <2>6. QED
    BY <1>0, <1>4, <2>1, <2>2, <2>4, <2>5 DEF OutputInv
<1>5. CASE state = "open" /\ outputWaiters = 0 /\ Len(outputQueue) >= OutputCapacity
           /\ outputProducerWaiters' = Append(outputProducerWaiters, n)
           /\ emit' = [emit EXCEPT ![n] = "parked"]
           /\ UNCHANGED <<outputQueue, outputWaiters, delivered>>
  <2>1. /\ outputProducerWaiters' \in Seq(Emits) /\ IsInjective(outputProducerWaiters')
        /\ Range(outputProducerWaiters') = Range(outputProducerWaiters) \union {n}
    BY <1>0, <1>5, AppendProperties, InjectiveAppend, RangeOfAppend DEF OutputInv
  <2>2. emit' \in [Emits -> EmitPhase]
    BY <1>1, <1>5 DEF EmitPhase
  <2>3. \A m \in Emits : emit'[m] = "parked" <=> m \in Range(outputProducerWaiters')
    BY <1>5, <2>1 DEF OutputInv
  <2>4. Len(outputQueue) = OutputCapacity
    <3>1. Len(outputQueue) \in Nat /\ OutputCapacity \in Nat /\ Len(outputQueue) <= OutputCapacity
      BY CapacitiesArePositive DEF OutputInv
    <3>2. QED
      BY <1>5, <3>1
  <2>5. QED
    BY <1>0, <1>5, <2>1, <2>2, <2>3, <2>4 DEF OutputInv
<1>6. QED
  BY <1>2, <1>3, <1>4, <1>5 DEF EmitOutput

\* The end of the invocation refuses whoever is parked.
LEMMA EndKeepsOutputs ==
  ASSUME OutputInv, NEW kind, NEW e, Terminate(kind, e)
  PROVE  OutputInv'
<1>1. /\ emit' = Settle(emit, Range(outputProducerWaiters), "refused")
      /\ outputProducerWaiters' = <<>> /\ outputWaiters' = 0 /\ UNCHANGED <<outputQueue, delivered>>
  BY DEF Terminate
<1>2. emit' \in [Emits -> EmitPhase] /\ \A m \in Emits : emit'[m] # "parked"
  BY <1>1 DEF OutputInv, EmitPhase, Settle
<1>3. outputProducerWaiters' \in Seq(Emits) /\ IsInjective(outputProducerWaiters') /\ Range(outputProducerWaiters') = {}
  BY <1>1, EmptyList
<1>4. outputWaiters' \in 0 .. MaxPulls
  BY <1>1, BoundsAreNatural
<1>5. QED
  BY <1>1, <1>2, <1>3, <1>4 DEF OutputInv

LEMMA OutputStep == OutputInv /\ [Next]_vars => OutputInv'
<1> SUFFICES ASSUME OutputInv, [Next]_vars PROVE OutputInv'
  OBVIOUS
<1>1. ASSUME UNCHANGED <<outputVars, state>> PROVE OutputInv'
  BY <1>1 DEF OutputInv, outputVars
<1>2. ASSUME NEW n \in Writes, Write(n) \/ Validated(n) PROVE OutputInv'
  BY <1>1, <1>2 DEF Write, Validated, inputSideRest, endVars
<1>3. ASSUME NEW n \in Writes, Invalid(n) PROVE OutputInv'
  BY <1>1, <1>3, EndKeepsOutputs DEF Invalid
<1>4. ASSUME CloseInput \/ ReadInput \/ SetHeader \/ SetTrailer PROVE OutputInv'
  BY <1>1, <1>4 DEF CloseInput, ReadInput, SetHeader, SetTrailer, inputSideRest, endVars
<1>5. ASSUME Cancel \/ BindingFails \/ CloseOutput \/ (\E reason \in {"timeout", "cancel"} : ExternalAbort(reason))
      PROVE  OutputInv'
  BY <1>5, EndKeepsOutputs DEF Cancel, BindingFails, CloseOutput, ExternalAbort, FireError
<1>6. ASSUME Leave \/ SingleAbandons PROVE OutputInv'
  BY <1>1, <1>6, EndKeepsOutputs DEF Leave, SingleAbandons, FireError, outputSideRest, endVars
<1>7. ASSUME (\E by \in {"iterate", "first"} : Acquire(by)) \/ SinglePulled PROVE OutputInv'
  BY <1>1, <1>7 DEF Acquire, SinglePulled, outputSideRest, endVars
<1>8. ASSUME Iterate \/ SinglePulls PROVE OutputInv'
  <2>1. outputWaiters < MaxPulls /\ ReadNext
    BY <1>8, BoundsAreNatural DEF Iterate, SinglePulls
  <2>2. state' = state
    BY <1>8 DEF Iterate, SinglePulls, outputSideRest, endVars
  <2>3. QED
    BY <2>1, <2>2, PullKeeps
<1>9. CASE UNCHANGED vars
  BY <1>1, <1>9 DEF vars, endVars
<1>10. QED
  <2>1. CASE CallerStep
    BY <1>2, <1>3, <1>4, <1>5, <1>6, <1>7, <1>8, <2>1 DEF CallerStep, Writes
  <2>2. CASE BindingStep
    BY <1>4, <1>5, <2>2, EmitKeeps DEF BindingStep, Emits
  <2>3. QED
    BY <1>9, <2>1, <2>2 DEF Next

LEMMA OutputInvariant == Spec => []OutputInv
<1>1. ASSUME Init PROVE OutputInv
  <2>1. emit = [n \in Emits |-> "idle"] /\ outputQueue = <<>> /\ outputProducerWaiters = <<>>
        /\ delivered = <<>> /\ outputWaiters = 0
    BY <1>1 DEF Init, Emits
  <2>2. outputQueue \in Seq(Emits) /\ outputProducerWaiters \in Seq(Emits) /\ delivered \in Seq(Emits)
        /\ IsInjective(outputProducerWaiters) /\ Range(outputProducerWaiters) = {} /\ Len(outputQueue) = 0
    BY <2>1, EmptyList
  <2>3. 0 <= OutputCapacity /\ 0 \in 0 .. MaxPulls
    BY CapacitiesArePositive, BoundsAreNatural
  <2>4. emit \in [Emits -> EmitPhase] /\ \A n \in Emits : emit[n] # "parked"
    BY <2>1 DEF EmitPhase
  <2>5. QED
    BY <2>1, <2>2, <2>3, <2>4 DEF OutputInv
<1>2. QED
  BY <1>1, OutputStep, PTL DEF Spec

\* Nobody waits on an invocation that ended, nor on an input side that was closed,
\* and whoever waits is in the list that will settle it (inputProducerWaiters,
\* outputProducerWaiters and what closeOutput, fireError and close do with them).
THEOREM NoneStranded == Spec => []NobodyStranded
<1>1. InputInv /\ OutputInv => NobodyStranded
  <2> SUFFICES ASSUME InputInv, OutputInv PROVE NobodyStranded
    OBVIOUS
  <2>1. Range(inputProducerWaiters) \subseteq Writes /\ Range(outputProducerWaiters) \subseteq Emits
    BY RangeOfSeq DEF InputInv, OutputInv
  <2>2. {n \in Writes : write[n] = "parked"} = Range(inputProducerWaiters)
    BY <2>1 DEF InputInv
  <2>3. {n \in Emits : emit[n] = "parked"} = Range(outputProducerWaiters)
    BY <2>1 DEF OutputInv
  <2>4. /\ inputSideClosed => inputProducerWaiters = <<>> /\ ~inputWaiting
        /\ state # "open" => outputProducerWaiters = <<>> /\ outputWaiters = 0
    BY DEF InputInv, OutputInv
  <2>5. QED
    BY <2>2, <2>3, <2>4 DEF NobodyStranded, Writes, Emits
<1>2. QED
  BY <1>1, InputInvariant, OutputInvariant, PTL

(***************************************************************************)
(* Each direction implements a Channel.                                    *)
(***************************************************************************)

\* The end of the invocation is the end of the outputs; a pull that waits learns
\* it with the end, and then nothing is queued.
LEMMA OutputsEnd ==
  ASSUME OutputInv, state = "open", NEW kind \in {"closed", "errored"}, NEW e, Terminate(kind, e)
  PROVE  Outputs!End
<1>1. state' = kind /\ delivered' = delivered /\ outputQueue' = outputQueue
      /\ outputSeen' = IF outputWaiters = 0 THEN outputSeen ELSE kind
  BY DEF Terminate
<1>2. outputWaiters # 0 => delivered = delivered \o outputQueue
  <2>1. outputWaiters # 0 => outputQueue = <<>>
    BY BoundsAreNatural DEF OutputInv
  <2>2. QED
    BY <2>1, ConcatEmptySeq DEF OutputInv
<1>3. QED
  BY <1>1, <1>2 DEF Outputs!End, Outputs!Drained

\* A pull takes the eldest output, or is told the end when none is left.
LEMMA PullRefines ==
  ASSUME OutputInv, ReadNext, state' = state
  PROVE  Outputs!Next \/ UNCHANGED Outputs!vars
<1>1. CASE TakeOutput
  <2>0. outputQueue # <<>> /\ delivered' = Append(delivered, Head(outputQueue)) /\ outputSeen' = outputSeen
    BY <1>1 DEF TakeOutput
  <2>1. delivered # delivered \o outputQueue
    BY <2>0, ConcatEqualIffEmpty DEF OutputInv
  <2>2. CASE outputQueue' = Tail(outputQueue)
    <3>1. delivered' \o outputQueue' = delivered \o outputQueue
          /\ (delivered \o outputQueue)[Len(delivered) + 1] = Head(outputQueue)
      <4>1. delivered \in Seq(Emits) /\ outputQueue \in Seq(Emits)
        BY DEF OutputInv
      <4>2. /\ Append(delivered, Head(outputQueue)) \o Tail(outputQueue) = delivered \o outputQueue
            /\ (delivered \o outputQueue)[Len(delivered) + 1] = Head(outputQueue)
        BY <2>0, <4>1, TakeHead
      <4>3. QED
        BY <2>0, <2>2, <4>2, Zenon
    <3>2. QED
      BY <2>0, <2>1, <3>1 DEF Outputs!Next, Outputs!Receive, Outputs!Drained, Outputs!TakesNext
  <2>3. CASE outputProducerWaiters # <<>> /\ outputQueue' = Append(Tail(outputQueue), Head(outputProducerWaiters))
    <3>1. Head(outputProducerWaiters) \in Emits
      BY <2>3, HeadTailProperties DEF OutputInv
    <3>2. state = "open"
      BY <2>3 DEF OutputInv
    <3>3. /\ delivered' \o outputQueue' = Append(delivered \o outputQueue, Head(outputProducerWaiters))
          /\ (delivered' \o outputQueue')[Len(delivered) + 1] = Head(outputQueue)
      <4>1. delivered \in Seq(Emits) /\ outputQueue \in Seq(Emits) /\ outputQueue # <<>>
        BY <2>0 DEF OutputInv
      <4>2. /\ Append(delivered, Head(outputQueue)) \o Append(Tail(outputQueue), Head(outputProducerWaiters))
                 = Append(delivered \o outputQueue, Head(outputProducerWaiters))
            /\ Append(delivered \o outputQueue, Head(outputProducerWaiters))[Len(delivered) + 1] = Head(outputQueue)
        BY <3>1, <4>1, TakeAndRefill
      <4>3. QED
        BY <2>0, <2>3, <4>2, Zenon
    <3>4. QED
      BY <2>0, <2>1, <3>1, <3>2, <3>3
         DEF Outputs!Next, Outputs!Receive, Outputs!Drained, Outputs!TakesNext, Emits
  <2>4. QED
    BY <1>1, <2>2, <2>3 DEF TakeOutput
<1>2. CASE outputQueue = <<>> /\ TellEnd
  <2>1. delivered = delivered \o outputQueue
    BY <1>2, ConcatEmptySeq DEF OutputInv
  <2>2. QED
    BY <1>2, <2>1 DEF TellEnd, Outputs!Next, Outputs!SeeEnd, Outputs!Drained
<1>3. CASE ParkPull
  BY <1>3 DEF ParkPull, Outputs!vars
<1>4. QED
  BY <1>1, <1>2, <1>3 DEF ReadNext

\* An output is sent when it is handed over or queued; a parked one is not.
LEMMA EmitRefines ==
  ASSUME OutputInv, NEW n \in Emits, EmitOutput(n)
  PROVE  Outputs!Next \/ UNCHANGED Outputs!vars
<1>0. state' = state /\ outputSeen' = outputSeen
  BY DEF EmitOutput, outputSideRest, endVars
<1>1. CASE UNCHANGED <<outputQueue, delivered>>
  BY <1>0, <1>1 DEF Outputs!vars
<1>2. CASE state = "open" /\ outputWaiters > 0 /\ delivered' = Append(delivered, n) /\ outputQueue' = outputQueue
  <2>1. outputQueue = <<>>
    BY <1>2 DEF OutputInv
  <2>2. /\ delivered \o outputQueue = delivered
        /\ delivered' \o outputQueue' = Append(delivered, n)
        /\ Append(delivered, n)[Len(delivered) + 1] = n
    BY <1>2, <2>1, HandOver DEF OutputInv
  <2>3. QED
    BY <1>0, <1>2, <2>2 DEF Outputs!Next, Outputs!Send, Outputs!Drained, Outputs!TakesNext, Emits
<1>3. CASE state = "open" /\ outputQueue' = Append(outputQueue, n) /\ delivered' = delivered
  <2>1. delivered' \o outputQueue' = Append(delivered \o outputQueue, n)
    BY <1>3, QueueLast DEF OutputInv
  <2>2. QED
    BY <1>0, <1>3, <2>1 DEF Outputs!Next, Outputs!Send, Emits
<1>4. QED
  BY <1>1, <1>2, <1>3 DEF EmitOutput

LEMMA OutputsStep == OutputInv /\ [Next]_vars => [Outputs!Next]_(Outputs!vars)
<1> SUFFICES ASSUME OutputInv, [Next]_vars PROVE Outputs!Next \/ UNCHANGED Outputs!vars
  OBVIOUS
<1>1. ASSUME UNCHANGED <<outputVars, state>> PROVE UNCHANGED Outputs!vars
  BY <1>1 DEF outputVars, Outputs!vars
<1>2. ASSUME NEW kind \in {"closed", "errored"}, NEW e, Terminate(kind, e), state = "open" PROVE Outputs!Next
  BY <1>2, OutputsEnd DEF Outputs!Next
<1>3. ASSUME NEW n \in Writes, Write(n) \/ Validated(n) PROVE UNCHANGED Outputs!vars
  BY <1>1, <1>3 DEF Write, Validated, inputSideRest, endVars
<1>4. ASSUME NEW n \in Writes, Invalid(n) PROVE Outputs!Next \/ UNCHANGED Outputs!vars
  BY <1>1, <1>2, <1>4 DEF Invalid
<1>5. ASSUME CloseInput \/ ReadInput \/ SetHeader \/ SetTrailer PROVE UNCHANGED Outputs!vars
  BY <1>1, <1>5 DEF CloseInput, ReadInput, SetHeader, SetTrailer, inputSideRest, endVars
<1>6. ASSUME Cancel \/ BindingFails \/ CloseOutput \/ (\E reason \in {"timeout", "cancel"} : ExternalAbort(reason))
      PROVE  Outputs!Next
  BY <1>2, <1>6 DEF Cancel, BindingFails, CloseOutput, ExternalAbort, FireError
<1>7. ASSUME Leave \/ SingleAbandons PROVE Outputs!Next \/ UNCHANGED Outputs!vars
  BY <1>1, <1>2, <1>7 DEF Leave, SingleAbandons, FireError, outputSideRest, endVars
<1>8. ASSUME (\E by \in {"iterate", "first"} : Acquire(by)) \/ SinglePulled PROVE UNCHANGED Outputs!vars
  BY <1>1, <1>8 DEF Acquire, SinglePulled, outputSideRest, endVars
<1>9. ASSUME Iterate \/ SinglePulls PROVE Outputs!Next \/ UNCHANGED Outputs!vars
  BY <1>9, PullRefines DEF Iterate, SinglePulls, outputSideRest, endVars
<1>10. ASSUME UNCHANGED vars PROVE UNCHANGED Outputs!vars
  BY <1>1, <1>10 DEF vars, endVars
<1>11. QED
  <2>1. CASE CallerStep
    BY <1>3, <1>4, <1>5, <1>6, <1>7, <1>8, <1>9, <2>1 DEF CallerStep, Writes
  <2>2. CASE BindingStep
    BY <1>5, <1>6, <2>2, EmitRefines DEF BindingStep, Emits
  <2>3. QED
    BY <1>10, <2>1, <2>2 DEF Next

\* The outputs of the binding reach the consumer in order, each once, and before
\* the end of the invocation (emitOutput, readNext, closeOutput, fireError),
\* whatever the capacity, the pulls in flight and the way it ends.
THEOREM OutputsRefined == Spec => OutputsImplementChannel
<1>1. Init => Outputs!Init
  <2>1. ASSUME Init PROVE delivered = <<>> /\ outputQueue = <<>> /\ outputSeen = "none" /\ state \in {"open", "errored"}
    BY <2>1 DEF Init
  <2>2. <<>> \o <<>> = <<>>
    BY ConcatEmptySeq, EmptySeq
  <2>3. QED
    BY <2>1, <2>2 DEF Outputs!Init
<1>2. QED
  BY <1>1, OutputsStep, OutputInvariant, PTL DEF Spec, OutputsImplementChannel, Outputs!Spec

\* The input side ends with the invocation or before it; a parked read learns it
\* with the end, and then nothing is buffered.
LEMMA InputsEnd ==
  ASSUME TerminalInv, InputInv, state = "open", NEW kind \in {"closed", "errored"}, NEW e, Terminate(kind, e)
  PROVE  Inputs!Next \/ UNCHANGED Inputs!vars
<1>1. /\ state' = kind /\ inputSideClosed' = TRUE /\ taken' = taken /\ inputBuf' = inputBuf
      /\ inputSeen' = IF inputWaiting THEN kind ELSE inputSeen
  BY DEF Terminate
<1>2. InputEnd' = kind /\ InputEnd = IF inputSideClosed THEN "closed" ELSE "open"
  BY <1>1 DEF InputEnd
<1>3. inputWaiting => taken = taken \o inputBuf /\ ~inputSideClosed
  BY ConcatEmptySeq DEF InputInv
<1>4. CASE inputSideClosed /\ kind = "closed"
  <2>1. InputEnd' = InputEnd /\ inputSeen' = inputSeen
    BY <1>1, <1>2, <1>3, <1>4
  <2>2. QED
    BY <1>1, <2>1 DEF Inputs!vars
<1>5. CASE ~(inputSideClosed /\ kind = "closed")
  <2>1. \/ InputEnd = "open" /\ InputEnd' \in {"closed", "errored"}
        \/ InputEnd = "closed" /\ InputEnd' = "errored"
    BY <1>2, <1>5
  <2>2. \/ inputSeen' = inputSeen
        \/ inputSeen' = InputEnd' /\ taken = taken \o inputBuf
    BY <1>1, <1>2, <1>3
  <2>3. Inputs!End
    BY <1>1, <2>1, <2>2 DEF Inputs!End, Inputs!Drained
  <2>4. QED
    BY <2>3 DEF Inputs!Next
<1>6. QED
  BY <1>4, <1>5

\* Closing the input side ends it unless it ended before.
LEMMA CloseRefines ==
  ASSUME TerminalInv, InputInv, CloseInput
  PROVE  Inputs!Next
<1>1. /\ ~inputSideClosed /\ inputSideClosed' = TRUE /\ state' = state /\ taken' = taken /\ inputBuf' = inputBuf
      /\ inputSeen' = IF inputWaiting THEN "closed" ELSE inputSeen
  BY DEF CloseInput, endVars
<1>2. state = "open"
  BY <1>1 DEF TerminalInv, TerminalAgrees, EndTypeOK
<1>3. InputEnd = "open" /\ InputEnd' = "closed"
  BY <1>1, <1>2 DEF InputEnd
<1>4. inputWaiting => taken = taken \o inputBuf
  BY ConcatEmptySeq DEF InputInv
<1>5. Inputs!End
  BY <1>1, <1>3, <1>4 DEF Inputs!End, Inputs!Drained
<1>6. QED
  BY <1>5 DEF Inputs!Next

\* An input is sent when it is handed over or buffered; a parked one is not.
LEMMA EnqueueRefines ==
  ASSUME InputInv, NEW n \in Writes, Enqueue(n), Writable, UNCHANGED <<state, inputSideClosed, inputSeen>>
  PROVE  Inputs!Next \/ UNCHANGED Inputs!vars
<1>0. InputEnd = "open" /\ InputEnd' = "open"
  BY DEF InputEnd, Writable
<1>1. CASE UNCHANGED <<inputBuf, taken>>
  BY <1>0, <1>1 DEF Inputs!vars
<1>2. CASE inputWaiting /\ taken' = Append(taken, n) /\ inputBuf' = inputBuf
  <2>1. inputBuf = <<>>
    BY <1>2 DEF InputInv
  <2>2. taken \o inputBuf = taken /\ taken' \o inputBuf' = Append(taken, n) /\ Append(taken, n)[Len(taken) + 1] = n
    BY <1>2, <2>1, HandOver DEF InputInv
  <2>3. QED
    BY <1>0, <1>2, <2>2 DEF Inputs!Next, Inputs!Send, Inputs!Drained, Inputs!TakesNext, Writes
<1>3. CASE inputBuf' = Append(inputBuf, n) /\ taken' = taken
  <2>1. taken' \o inputBuf' = Append(taken \o inputBuf, n)
    BY <1>3, QueueLast, SMTT(30) DEF InputInv
  <2>2. QED
    BY <1>0, <1>3, <2>1 DEF Inputs!Next, Inputs!Send, Writes
<1>4. QED
  BY <1>1, <1>2, <1>3 DEF Enqueue

\* A read takes the eldest input, or learns the end.
LEMMA ReadRefines ==
  ASSUME TerminalInv, InputInv, ReadInput
  PROVE  Inputs!Next \/ UNCHANGED Inputs!vars
<1>0. UNCHANGED <<state, inputSideClosed>> /\ InputEnd' = InputEnd
  BY DEF ReadInput, inputSideRest, endVars, InputEnd
<1>1. CASE state = "errored" /\ inputSeen' = "errored" /\ UNCHANGED <<inputBuf, taken>>
  <2>1. InputEnd = "errored"
    BY <1>1 DEF InputEnd
  <2>2. Inputs!SeeEnd
    BY <1>0, <1>1, <2>1 DEF Inputs!SeeEnd
  <2>3. QED
    BY <2>2 DEF Inputs!Next
<1>2. CASE inputBuf # <<>> /\ taken' = Append(taken, Head(inputBuf)) /\ inputBuf' = Tail(inputBuf) /\ inputSeen' = inputSeen
  <2>1. taken # taken \o inputBuf
    BY <1>2, ConcatEqualIffEmpty DEF InputInv
  <2>2. taken' \o inputBuf' = taken \o inputBuf /\ (taken \o inputBuf)[Len(taken) + 1] = Head(inputBuf)
    <3>1. taken \in Seq(Writes) /\ inputBuf \in Seq(Writes)
      BY DEF InputInv
    <3>2. /\ Append(taken, Head(inputBuf)) \o Tail(inputBuf) = taken \o inputBuf
          /\ (taken \o inputBuf)[Len(taken) + 1] = Head(inputBuf)
      BY <1>2, <3>1, TakeHead
    <3>3. QED
      BY <1>2, <3>2, Zenon
  <2>3. QED
    BY <1>0, <1>2, <2>1, <2>2 DEF Inputs!Next, Inputs!Receive, Inputs!Drained, Inputs!TakesNext
<1>3. CASE /\ state # "errored" /\ inputBuf # <<>> /\ taken' = Append(taken, Head(inputBuf)) /\ inputSeen' = inputSeen
           /\ inputProducerWaiters # <<>> /\ inputBuf' = Append(Tail(inputBuf), Head(inputProducerWaiters))
  <2>1. taken # taken \o inputBuf
    BY <1>3, ConcatEqualIffEmpty DEF InputInv
  <2>2. Head(inputProducerWaiters) \in Writes
    BY <1>3, HeadTailProperties DEF InputInv
  <2>3. InputEnd = "open"
    BY <1>3 DEF InputInv, InputEnd
  <2>4. /\ taken' \o inputBuf' = Append(taken \o inputBuf, Head(inputProducerWaiters))
        /\ (taken' \o inputBuf')[Len(taken) + 1] = Head(inputBuf)
    <3>1. taken \in Seq(Writes) /\ inputBuf \in Seq(Writes) /\ inputBuf # <<>>
      BY <1>3 DEF InputInv
    <3>2. /\ Append(taken, Head(inputBuf)) \o Append(Tail(inputBuf), Head(inputProducerWaiters))
               = Append(taken \o inputBuf, Head(inputProducerWaiters))
          /\ Append(taken \o inputBuf, Head(inputProducerWaiters))[Len(taken) + 1] = Head(inputBuf)
      BY <2>2, <3>1, TakeAndRefill, SMTT(30)
    <3>3. QED
      BY <1>3, <3>2, Zenon
  <2>5. QED
    BY <1>0, <1>3, <2>1, <2>2, <2>3, <2>4 DEF Inputs!Next, Inputs!Receive, Inputs!Drained, Inputs!TakesNext, Writes
<1>4. CASE state # "errored" /\ inputBuf = <<>> /\ inputSideClosed /\ inputSeen' = "closed" /\ UNCHANGED <<inputBuf, taken>>
  <2>1. InputEnd = "closed"
    BY <1>4 DEF InputEnd
  <2>2. taken = taken \o inputBuf
    BY <1>4, ConcatEmptySeq DEF InputInv
  <2>3. Inputs!SeeEnd
    BY <1>0, <1>4, <2>1, <2>2 DEF Inputs!SeeEnd, Inputs!Drained
  <2>4. QED
    BY <2>3 DEF Inputs!Next
<1>5. CASE UNCHANGED <<inputBuf, taken, inputSeen>>
  BY <1>0, <1>5 DEF Inputs!vars
<1>6. QED
  BY <1>1, <1>2, <1>3, <1>4, <1>5 DEF ReadInput

LEMMA InputsStep == TerminalInv /\ InputInv /\ [Next]_vars => [Inputs!Next]_(Inputs!vars)
<1> SUFFICES ASSUME TerminalInv, InputInv, [Next]_vars PROVE Inputs!Next \/ UNCHANGED Inputs!vars
  OBVIOUS
<1>1. ASSUME UNCHANGED <<taken, inputBuf, inputSeen, state, inputSideClosed>> PROVE UNCHANGED Inputs!vars
  BY <1>1 DEF InputEnd, Inputs!vars
<1>2. ASSUME NEW kind \in {"closed", "errored"}, NEW e, Terminate(kind, e), state = "open"
      PROVE  Inputs!Next \/ UNCHANGED Inputs!vars
  BY <1>2, InputsEnd
<1>3. ASSUME NEW n \in Writes, Write(n) \/ Validated(n) PROVE Inputs!Next \/ UNCHANGED Inputs!vars
  <2>1. UNCHANGED <<state, inputSideClosed, inputSeen>>
    BY <1>3 DEF Write, Validated, inputSideRest, endVars
  <2>2. CASE Writable /\ Enqueue(n)
    BY <2>1, <2>2, EnqueueRefines
  <2>3. CASE UNCHANGED <<inputBuf, taken>>
    BY <1>1, <2>1, <2>3
  <2>4. QED
    BY <1>3, <2>2, <2>3 DEF Write, Validated
<1>4. ASSUME NEW n \in Writes, Invalid(n) PROVE Inputs!Next \/ UNCHANGED Inputs!vars
  BY <1>1, <1>2, <1>4 DEF Invalid
<1>5. ASSUME CloseInput \/ ReadInput PROVE Inputs!Next \/ UNCHANGED Inputs!vars
  BY <1>5, CloseRefines, ReadRefines
<1>6. ASSUME Cancel \/ BindingFails \/ CloseOutput \/ (\E reason \in {"timeout", "cancel"} : ExternalAbort(reason))
      PROVE  Inputs!Next \/ UNCHANGED Inputs!vars
  BY <1>2, <1>6 DEF Cancel, BindingFails, CloseOutput, ExternalAbort, FireError
<1>7. ASSUME Leave \/ SingleAbandons PROVE Inputs!Next \/ UNCHANGED Inputs!vars
  BY <1>1, <1>2, <1>7 DEF Leave, SingleAbandons, FireError, outputSideRest, endVars, inputVars
<1>8. ASSUME (\E by \in {"iterate", "first"} : Acquire(by)) \/ SinglePulled \/ Iterate \/ SinglePulls
      PROVE  UNCHANGED Inputs!vars
  BY <1>1, <1>8 DEF Acquire, SinglePulled, Iterate, SinglePulls, outputSideRest, endVars, inputVars
<1>9. ASSUME (\E n \in Emits : EmitOutput(n)) \/ SetHeader \/ SetTrailer PROVE UNCHANGED Inputs!vars
  BY <1>1, <1>9 DEF EmitOutput, SetHeader, SetTrailer, outputSideRest, endVars, inputVars
<1>10. ASSUME UNCHANGED vars PROVE UNCHANGED Inputs!vars
  BY <1>1, <1>10 DEF vars, endVars, inputVars
<1>11. QED
  <2>1. CASE CallerStep
    BY <1>3, <1>4, <1>5, <1>6, <1>7, <1>8, <2>1 DEF CallerStep, Writes
  <2>2. CASE BindingStep
    BY <1>5, <1>6, <1>9, <2>2 DEF BindingStep, Emits
  <2>3. QED
    BY <1>10, <2>1, <2>2 DEF Next

\* The inputs that write accepted reach the binding in order, each once, and before
\* a close (write, close, inputs, fireError); a failure stops the binding at once.
THEOREM InputsRefined == Spec => InputsImplementChannel
<1>1. Init => Inputs!Init
  <2>1. ASSUME Init PROVE taken = <<>> /\ inputBuf = <<>> /\ inputSeen = "none" /\ InputEnd \in {"open", "errored"}
    BY <2>1 DEF Init, InputEnd
  <2>2. <<>> \o <<>> = <<>>
    BY ConcatEmptySeq, EmptySeq
  <2>3. QED
    BY <2>1, <2>2 DEF Inputs!Init
<1>2. QED
  BY <1>1, InputsStep, InputInvariant, TerminalInvariant, PTL DEF Spec, InputsImplementChannel, Inputs!Spec

\* What each reader was told is an end, as its channel has it.
SeenTypeOK == inputSeen \in {"none", "closed", "errored"} /\ outputSeen \in {"none", "closed", "errored"}

LEMMA SeenInvariant == Spec => []SeenTypeOK
<1>1. Init => SeenTypeOK
  BY DEF Init, SeenTypeOK
<1>2. TerminalInv /\ TerminalInv' /\ InputInv /\ OutputInv /\ SeenTypeOK /\ [Next]_vars => SeenTypeOK'
  <2> SUFFICES ASSUME TerminalInv, TerminalInv', InputInv, OutputInv, SeenTypeOK, [Next]_vars
               PROVE  SeenTypeOK'
    OBVIOUS
  <2>1. outputSeen' \in {"none", "closed", "errored"}
    <3>1. state \in {"open", "closed", "errored"}
      BY DEF TerminalInv, EndTypeOK
    <3>2. [Outputs!Next]_(Outputs!vars)
      BY OutputsStep
    <3>3. QED
      BY <3>1, <3>2 DEF SeenTypeOK, Outputs!Next, Outputs!vars, Outputs!Send, Outputs!Receive, Outputs!End, Outputs!SeeEnd
  <2>2. inputSeen' \in {"none", "closed", "errored"}
    <3>1. InputEnd \in {"open", "closed", "errored"}
      BY DEF InputEnd
    <3>2. [Inputs!Next]_(Inputs!vars)
      BY InputsStep
    <3>3. QED
      BY <3>1, <3>2 DEF SeenTypeOK, Inputs!Next, Inputs!vars, Inputs!Send, Inputs!Receive, Inputs!End, Inputs!SeeEnd
  <2>3. QED
    BY <2>1, <2>2 DEF SeenTypeOK
<1>3. QED
  BY <1>1, <1>2, TerminalInvariant, InputInvariant, OutputInvariant, PTL DEF Spec

\* Every variable of an invocation keeps its type and neither buffer exceeds its
\* capacity.
THEOREM TypeCorrect == Spec => []TypeOK
<1>1. TerminalInv /\ InputInv /\ OutputInv /\ SeenTypeOK => TypeOK
  BY DEF TerminalInv, EndTypeOK, InputInv, OutputInv, SeenTypeOK, TypeOK, Writes, Emits
<1>2. QED
  BY <1>1, TerminalInvariant, InputInvariant, OutputInvariant, SeenInvariant, PTL

(***************************************************************************)
(* single.                                                                 *)
(***************************************************************************)

\* What single was handed and what its pull may still be handed.
Pulling ==
  consumer \in {"first", "second"} =>
    /\ Len(delivered) >= Due /\ Len(delivered) + outputWaiters <= Due + 1
    /\ outputSeen # "none" => Len(delivered) = Due /\ outputWaiters = 0

SingleInv ==
  /\ consumer = "none" => delivered = <<>> /\ outputWaiters = 0 /\ outputSeen = "none"
  /\ outputSeen # "none" => state = outputSeen /\ outputQueue = <<>>
  /\ Pulling
  /\ SingleIsTruthful

\* A step after the end hands nothing over, and tells nobody another end.
LEMMA SingleKept ==
  ASSUME SingleInv, UNCHANGED <<consumer, delivered, outputQueue, outputWaiters, outputSeen, state>>
  PROVE  SingleInv'
BY DEF SingleInv, Pulling, SingleIsTruthful, Due

\* The end of the invocation tells a pull that waits.
LEMMA SingleEnds ==
  ASSUME SingleInv, OutputInv, SeenTypeOK, EndTypeOK, state = "open", NEW kind \in {"closed", "errored"}, NEW e,
         Terminate(kind, e), consumer' \in {consumer, "left"}
  PROVE  SingleInv'
<1>1. /\ state' = kind /\ delivered' = delivered /\ outputQueue' = outputQueue /\ outputWaiters' = 0
      /\ outputSeen' = IF outputWaiters = 0 THEN outputSeen ELSE kind
  BY DEF Terminate
<1>2. outputWaiters \in Nat /\ Len(delivered) \in Nat
  BY BoundsAreNatural DEF OutputInv
<1>3. outputSeen = "none"
  BY DEF SingleInv, SeenTypeOK
<1>4. consumer \notin {"one", "fewer", "more", "failed"}
  BY DEF SingleInv, SingleIsTruthful
<1>5. outputWaiters # 0 => outputQueue = <<>>
  BY <1>2 DEF OutputInv
<1>6. (consumer = "none" => delivered = <<>> /\ outputWaiters = 0 /\ outputSeen = "none")'
  BY <1>1, <1>3 DEF SingleInv
<1>7. (outputSeen # "none" => state = outputSeen /\ outputQueue = <<>>)'
  BY <1>1, <1>3, <1>5
<1>8. Pulling'
  <2>1. SUFFICES ASSUME consumer' \in {"first", "second"} PROVE Pulling'
    BY DEF Pulling
  <2>2. consumer' = consumer /\ Due' = Due /\ Due \in Nat
    BY <2>1 DEF Due
  <2>3. Len(delivered) >= Due /\ Len(delivered) + outputWaiters <= Due + 1
    BY <2>1, <2>2 DEF SingleInv, Pulling
  <2>4. outputWaiters # 0 => Len(delivered) = Due
    BY <1>2, <2>2, <2>3
  <2>5. Len(delivered)' = Len(delivered) /\ Len(delivered) <= Due + 1
    BY <1>1, <1>2, <2>2, <2>3
  <2>6. QED
    BY <1>1, <1>3, <2>2, <2>3, <2>4, <2>5 DEF Pulling
<1>9. SingleIsTruthful'
  BY <1>4 DEF SingleIsTruthful
<1>10. QED
  BY <1>6, <1>7, <1>8, <1>9 DEF SingleInv

\* A pull of single, which no other pull precedes.
LEMMA SinglePullKeeps ==
  ASSUME SingleInv, OutputInv, SinglePulls
  PROVE  SingleInv'
<1>1. /\ consumer \in {"first", "second"} /\ consumer' = consumer /\ state' = state
      /\ outputWaiters = 0 /\ outputSeen = "none" /\ Len(delivered) = Due /\ ReadNext
  BY DEF SinglePulls, outputSideRest, endVars
<1>2. Due' = Due /\ Due \in Nat
  BY <1>1 DEF Due
<1>3. SingleIsTruthful'
  BY <1>1 DEF SingleIsTruthful
<1>4. CASE TakeOutput
  <2>1. outputQueue # <<>> /\ delivered' = Append(delivered, Head(outputQueue)) /\ UNCHANGED <<outputWaiters, outputSeen>>
    BY <1>4 DEF TakeOutput
  <2>2. Len(delivered') = Len(delivered) + 1
    BY <2>1, HeadTailProperties, AppendProperties DEF OutputInv
  <2>3. Pulling'
    BY <1>1, <1>2, <2>1, <2>2 DEF Pulling
  <2>4. QED
    BY <1>1, <1>3, <2>1, <2>3 DEF SingleInv
<1>5. CASE outputQueue = <<>> /\ TellEnd
  <2>1. outputSeen' = state /\ UNCHANGED <<outputQueue, outputWaiters, delivered>>
    BY <1>5 DEF TellEnd
  <2>2. Pulling'
    BY <1>1, <1>2, <2>1 DEF Pulling
  <2>3. QED
    BY <1>1, <1>3, <1>5, <2>1, <2>2 DEF SingleInv
<1>6. CASE ParkPull
  <2>1. outputWaiters' = 1 /\ UNCHANGED <<outputQueue, outputSeen, delivered>>
    BY <1>1, <1>6 DEF ParkPull
  <2>2. Pulling'
    BY <1>1, <1>2, <2>1 DEF Pulling
  <2>3. QED
    BY <1>1, <1>3, <2>1, <2>2 DEF SingleInv
<1>7. QED
  BY <1>1, <1>4, <1>5, <1>6 DEF ReadNext

\* An output is handed to the pull that waits, and to no one else.
LEMMA SingleEmitKeeps ==
  ASSUME SingleInv, OutputInv, SeenTypeOK, NEW n \in Emits, EmitOutput(n)
  PROVE  SingleInv'
<1>1. consumer' = consumer /\ state' = state /\ outputSeen' = outputSeen
  BY DEF EmitOutput, outputSideRest, endVars
<1>2. CASE UNCHANGED <<outputQueue, outputWaiters, delivered>>
  BY <1>1, <1>2, SingleKept
<1>3. state = "open" => outputSeen = "none"
  BY DEF SingleInv, SeenTypeOK
<1>4. CASE state = "open" /\ outputWaiters > 0 /\ outputWaiters' = outputWaiters - 1 /\ delivered' = Append(delivered, n)
           /\ outputQueue' = outputQueue
  <2>1. Len(delivered') = Len(delivered) + 1 /\ Len(delivered) \in Nat /\ outputWaiters \in Nat
    BY <1>4, AppendProperties, BoundsAreNatural DEF OutputInv
  <2>2. consumer \notin {"none", "one", "fewer", "more", "failed"}
    BY <1>4, <2>1 DEF SingleInv, SingleIsTruthful
  <2>3. Pulling'
    <3>1. SUFFICES ASSUME consumer \in {"first", "second"} PROVE Pulling'
      BY <1>1 DEF Pulling
    <3>2. Due' = Due /\ Due \in Nat
      BY <1>1 DEF Due
    <3>3. Len(delivered) >= Due /\ Len(delivered) + outputWaiters <= Due + 1
      BY <3>1 DEF SingleInv, Pulling
    <3>4. Len(delivered') >= Due /\ Len(delivered') + outputWaiters' <= Due + 1
      BY <1>4, <2>1, <3>2, <3>3
    <3>5. QED
      BY <1>1, <1>3, <1>4, <3>2, <3>4 DEF Pulling
  <2>4. SingleIsTruthful'
    BY <1>1, <2>2 DEF SingleIsTruthful
  <2>5. QED
    BY <1>1, <1>3, <1>4, <2>2, <2>3, <2>4 DEF SingleInv
<1>5. CASE state = "open" /\ UNCHANGED <<outputWaiters, delivered>>
  <2>1. Pulling'
    BY <1>1, <1>5 DEF SingleInv, Pulling, Due
  <2>2. SingleIsTruthful'
    BY <1>1, <1>5 DEF SingleInv, SingleIsTruthful
  <2>3. QED
    BY <1>1, <1>3, <1>5, <2>1, <2>2 DEF SingleInv
<1>6. QED
  BY <1>2, <1>4, <1>5 DEF EmitOutput

LEMMA SingleStep == TerminalInv /\ OutputInv /\ SeenTypeOK /\ SingleInv /\ [Next]_vars => SingleInv'
<1> SUFFICES ASSUME TerminalInv, OutputInv, SeenTypeOK, SingleInv, [Next]_vars PROVE SingleInv'
  OBVIOUS
<1>0. EndTypeOK
  BY DEF TerminalInv
<1>1. ASSUME UNCHANGED <<outputVars, state, consumer>> PROVE SingleInv'
  BY <1>1, SingleKept DEF outputVars
<1>2. ASSUME NEW n \in Writes, Write(n) \/ Validated(n) PROVE SingleInv'
  BY <1>1, <1>2 DEF Write, Validated, inputSideRest, endVars
<1>3. ASSUME NEW n \in Writes, Invalid(n) PROVE SingleInv'
  BY <1>0, <1>1, <1>3, SingleEnds DEF Invalid
<1>4. ASSUME CloseInput \/ ReadInput \/ SetHeader \/ SetTrailer PROVE SingleInv'
  BY <1>1, <1>4 DEF CloseInput, ReadInput, SetHeader, SetTrailer, inputSideRest, endVars
<1>5. ASSUME Cancel \/ BindingFails \/ CloseOutput \/ (\E reason \in {"timeout", "cancel"} : ExternalAbort(reason))
      PROVE  SingleInv'
  BY <1>0, <1>5, SingleEnds DEF Cancel, BindingFails, CloseOutput, ExternalAbort, FireError
<1>6. ASSUME Leave PROVE SingleInv'
  <2>1. CASE FireError("CANCELLED")
    BY <1>0, <1>6, <2>1, SingleEnds DEF Leave, FireError
  <2>2. CASE UNCHANGED <<outputVars, outputSideRest, header>>
    <3>1. consumer' = "left" /\ UNCHANGED <<delivered, outputQueue, outputWaiters, outputSeen, state>>
      BY <1>6, <2>2 DEF Leave, outputVars, outputSideRest, endVars
    <3>2. QED
      BY <3>1 DEF SingleInv, Pulling, SingleIsTruthful
  <2>3. QED
    BY <1>6, <2>1, <2>2 DEF Leave
<1>7. ASSUME NEW by \in {"iterate", "first"}, Acquire(by) PROVE SingleInv'
  <2>1. /\ consumer = "none" /\ consumer' = by
        /\ UNCHANGED <<delivered, outputQueue, outputWaiters, outputSeen, state>>
    BY <1>7 DEF Acquire, outputVars, outputSideRest, endVars
  <2>2. Len(delivered) = 0 /\ outputWaiters = 0 /\ outputSeen = "none"
    BY <2>1 DEF SingleInv
  <2>3. Pulling'
    BY <2>1, <2>2 DEF Pulling, Due
  <2>4. QED
    BY <2>1, <2>2, <2>3 DEF SingleInv, SingleIsTruthful
<1>8. ASSUME Iterate PROVE SingleInv'
  <2>1. consumer = "iterate" /\ consumer' = "iterate" /\ state' = state /\ ReadNext
    BY <1>8 DEF Iterate, outputSideRest, endVars
  <2>2. outputSeen' # "none" => state' = outputSeen' /\ outputQueue' = <<>>
    <3>1. CASE TakeOutput
      BY <3>1 DEF TakeOutput, SingleInv
    <3>2. CASE outputQueue = <<>> /\ TellEnd
      BY <2>1, <3>2 DEF TellEnd
    <3>3. CASE ParkPull
      BY <2>1, <3>3 DEF ParkPull, SingleInv
    <3>4. QED
      BY <2>1, <3>1, <3>2, <3>3 DEF ReadNext
  <2>3. QED
    BY <2>1, <2>2 DEF SingleInv, Pulling, SingleIsTruthful
<1>9. ASSUME SinglePulled PROVE SingleInv'
  <2>1. UNCHANGED <<delivered, outputQueue, outputWaiters, outputSeen, state>>
    BY <1>9 DEF SinglePulled, outputVars, outputSideRest, endVars
  <2>2. outputWaiters \in Nat /\ Len(delivered) \in Nat /\ (Len(delivered) = 0 => delivered = <<>>)
    BY BoundsAreNatural, EmptySeq DEF OutputInv
  <2>3. CASE consumer = "first" /\ Len(delivered) > Due /\ consumer' = "second"
    <3>1. Len(delivered) = 1 /\ outputWaiters = 0 /\ outputSeen = "none"
      BY <2>2, <2>3 DEF SingleInv, Pulling, Due
    <3>2. Pulling'
      BY <2>1, <2>3, <3>1 DEF Pulling, Due
    <3>3. QED
      BY <2>1, <2>3, <3>1, <3>2 DEF SingleInv, SingleIsTruthful
  <2>4. CASE consumer = "first" /\ outputSeen = "closed" /\ consumer' = "fewer"
    <3>1. Len(delivered) = 0 /\ state = "closed"
      BY <2>4 DEF SingleInv, Pulling, Due
    <3>2. QED
      BY <2>1, <2>2, <2>4, <3>1 DEF SingleInv, SingleIsTruthful, Pulling
  <2>5. CASE consumer = "second" /\ outputSeen = "closed" /\ consumer' = "one"
    <3>1. Len(delivered) = 1 /\ state = "closed" /\ outputQueue = <<>>
      BY <2>5 DEF SingleInv, Pulling, Due
    <3>2. QED
      BY <2>1, <2>5, <3>1 DEF SingleInv, SingleIsTruthful, Pulling
  <2>6. CASE consumer \in {"first", "second"} /\ outputSeen = "errored" /\ consumer' = "failed"
    BY <2>1, <2>6 DEF SingleInv, SingleIsTruthful, Pulling
  <2>7. QED
    BY <1>9, <2>3, <2>4, <2>5, <2>6 DEF SinglePulled
<1>10. ASSUME SingleAbandons PROVE SingleInv'
  <2>1. consumer = "second" /\ Len(delivered) > Due /\ consumer' = "more"
    BY <1>10 DEF SingleAbandons
  <2>2. outputWaiters \in Nat /\ Len(delivered) \in Nat
    BY BoundsAreNatural DEF OutputInv
  <2>3. Len(delivered) = 2 /\ outputWaiters = 0 /\ outputSeen = "none"
    <3>1. Due = 1
      BY <2>1 DEF Due
    <3>2. Pulling /\ Len(delivered) > 1
      BY <2>1, <3>1 DEF SingleInv
    <3>3. Len(delivered) + outputWaiters <= 2 /\ (outputSeen # "none" => Len(delivered) = 1)
      BY <2>1, <3>1, <3>2 DEF Pulling
    <3>4. \A a, b \in Nat : a > 1 /\ a + b <= 2 => a = 2 /\ b = 0
      OBVIOUS
    <3>5. Len(delivered) = 2 /\ outputWaiters = 0
      BY <2>2, <3>2, <3>3, <3>4
    <3>6. QED
      BY <3>3, <3>5
  <2>4. state' # "open" /\ delivered' = delivered /\ outputSeen' = "none"
    <3>1. CASE FireError("CANCELLED")
      BY <2>3, <3>1 DEF FireError, Terminate
    <3>2. CASE state # "open" /\ UNCHANGED <<outputVars, outputSideRest, header>>
      BY <2>3, <3>2 DEF outputVars, outputSideRest, endVars
    <3>3. QED
      BY <1>10, <3>1, <3>2 DEF SingleAbandons
  <2>5. QED
    BY <2>1, <2>3, <2>4 DEF SingleInv, SingleIsTruthful, Pulling
<1>11. CASE UNCHANGED vars
  BY <1>1, <1>11 DEF vars, endVars
<1>12. QED
  <2>1. CASE CallerStep
    BY <1>2, <1>3, <1>4, <1>5, <1>6, <1>7, <1>8, <1>9, <1>10, <2>1, SinglePullKeeps DEF CallerStep, Writes
  <2>2. CASE BindingStep
    BY <1>4, <1>5, <2>2, SingleEmitKeeps DEF BindingStep, Emits
  <2>3. QED
    BY <1>11, <2>1, <2>2 DEF Next

\* The verdict of single is true of what the binding emitted: one value and a normal
\* end, and more only if a second value was handed over.
THEOREM SingleVerdicts == Spec => []SingleIsTruthful
<1>1. Init => SingleInv
  BY DEF Init, SingleInv, Pulling, SingleIsTruthful
<1>2. SingleInv => SingleIsTruthful
  BY DEF SingleInv
<1>3. QED
  BY <1>1, <1>2, SingleStep, TerminalInvariant, OutputInvariant, SeenInvariant, PTL DEF Spec
=============================================================================
