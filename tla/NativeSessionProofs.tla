------------------------- MODULE NativeSessionProofs -------------------------
(***************************************************************************)
(* What NativeSession guarantees for any number of callers and arrivals,   *)
(* any body sizes and any admitted limits, and what Budget, which it       *)
(* extends, guarantees by itself: the quota accounts exactly for the live  *)
(* leases and never exceeds its limits.                                    *)
(***************************************************************************)
EXTENDS NativeSession, FiniteSetTheorems, TLAPS

(***************************************************************************)
(* The quota.  BudgetInv strengthens Accounted with what its induction     *)
(* needs: the set of live leases is finite, and each one passed the        *)
(* per-message test, which is what makes HeldBytes cover the whole body.   *)
(***************************************************************************)

\* Every live lease passed the per-message test of reserve.
EachAdmitted == \A l \in live : Size[l] <= MaxMessageBytes

BudgetInv ==
  /\ BudgetTypeOK
  /\ IsFiniteSet(live)
  /\ EachAdmitted
  /\ Accounted
  /\ WithinLimits

\* The bytes of one body.
BodyBytes(l) == {l} \X (1 .. Size[l])

\* Limits::validate leaves every limit positive.
LEMMA LimitsPositive ==
  /\ MaxMessages \in Nat /\ MaxMessages # 0
  /\ MaxBufferedBytes \in Nat /\ MaxBufferedBytes # 0
  /\ MaxMessageBytes \in Nat /\ MaxMessageBytes # 0
<1>1. ProfileMessages \in Nat /\ ProfileBytes \in Nat
  BY DEF ProfileMessages, ProfileBytes
<1>2. QED
  BY <1>1, LimitsValid

\* A body accounts for as many byte elements as its length.
LEMMA BodyBytesCardinality ==
  ASSUME NEW l \in Lease
  PROVE  /\ IsFiniteSet(BodyBytes(l))
         /\ Cardinality(BodyBytes(l)) = Size[l]
<1>1. Size[l] \in Nat
  BY SizeIsLength
<1>2. /\ IsFiniteSet(1 .. Size[l])
      /\ Cardinality(1 .. Size[l]) = Size[l]
  BY <1>1, FS_Interval, SMTT(30)
<1>3. /\ IsFiniteSet({l})
      /\ Cardinality({l}) = 1
  BY FS_EmptySet, FS_AddElement, {l} = {} \cup {l}
<1>4. /\ IsFiniteSet({l} \X (1 .. Size[l]))
      /\ Cardinality({l} \X (1 .. Size[l])) = Cardinality({l}) * Cardinality(1 .. Size[l])
  BY <1>2, <1>3, FS_Product, Zenon
<1>5. QED
  BY <1>1, <1>2, <1>3, <1>4 DEF BodyBytes

\* The byte elements of admitted bodies: a finite set, made of the bytes of
\* one body and, disjoint from them, the bytes of the others.
LEMMA HeldBytesSplit ==
  ASSUME NEW S \in SUBSET Lease, IsFiniteSet(S), NEW l \in S,
         \A k \in S : Size[k] <= MaxMessageBytes
  PROVE  /\ IsFiniteSet(HeldBytes(S))
         /\ IsFiniteSet(HeldBytes(S \ {l}))
         /\ Cardinality(HeldBytes(S)) = Cardinality(HeldBytes(S \ {l})) + Size[l]
<1> DEFINE Others == HeldBytes(S \ {l})
<1>1. MaxMessageBytes \in Nat /\ Size[l] \in Nat
  BY LimitsPositive, SizeIsLength
<1>2. IsFiniteSet(S \X (1 .. MaxMessageBytes))
  <2>1. IsFiniteSet(1 .. MaxMessageBytes)
    BY <1>1, FS_Interval
  <2>2. QED
    BY <2>1, FS_Product, Zenon
<1>3. IsFiniteSet(HeldBytes(S))
  BY <1>2, FS_Subset DEF HeldBytes
<1>4. HeldBytes(S) = Others \cup BodyBytes(l)
  BY <1>1 DEF HeldBytes, BodyBytes
<1>5. Others \cap BodyBytes(l) = {}
  BY DEF HeldBytes, BodyBytes
<1>6. Others \subseteq HeldBytes(S)
  BY DEF HeldBytes
<1>7. IsFiniteSet(Others)
  BY <1>3, <1>6, FS_Subset
<1>8. Cardinality(HeldBytes(S))
        = Cardinality(Others) + Cardinality(BodyBytes(l)) - Cardinality({})
  <2>1. IsFiniteSet(BodyBytes(l))
    BY BodyBytesCardinality
  <2>2. Cardinality(Others \cup BodyBytes(l))
          = Cardinality(Others) + Cardinality(BodyBytes(l))
              - Cardinality(Others \cap BodyBytes(l))
    <3> HIDE DEF Others
    <3>1. QED
      BY <1>7, <2>1, FS_Union, Zenon
  <2>3. QED
    BY <1>4, <1>5, <2>2
<1>9. Cardinality(Others) \in Nat
  BY <1>7, FS_CardinalityType
<1>10. QED
  BY <1>1, <1>3, <1>7, <1>8, <1>9, BodyBytesCardinality, FS_EmptySet

LEMMA BudgetInitially == BudgetInit => BudgetInv
<1> SUFFICES ASSUME BudgetInit PROVE BudgetInv
  OBVIOUS
<1>1. HeldBytes(live) = {}
  BY DEF BudgetInit, HeldBytes
<1>2. IsFiniteSet(live) /\ Accounted
  BY <1>1, FS_EmptySet DEF BudgetInit, Accounted
<1>3. BudgetTypeOK /\ EachAdmitted
  BY DEF BudgetInit, BudgetTypeOK, Usage, EachAdmitted
<1>4. WithinLimits
  BY LimitsPositive DEF BudgetInit, WithinLimits
<1>5. QED
  BY <1>2, <1>3, <1>4 DEF BudgetInv

LEMMA ReservePreserves ==
  ASSUME BudgetInv, NEW l \in Lease, BudgetReserve(l)
  PROVE  BudgetInv'
<1>1. Size[l] \in Nat /\ MaxMessages \in Nat /\ MaxBufferedBytes \in Nat /\ MaxMessageBytes \in Nat
  BY LimitsPositive, SizeIsLength
<1>2. usage.messages \in Nat /\ usage.bytes \in Nat
  BY DEF BudgetInv, BudgetTypeOK, Usage
<1>3. live' = live \cup {l} /\ l \notin live /\ Size[l] <= MaxMessageBytes
  BY DEF BudgetReserve, Admits
<1>4. BudgetTypeOK'
  BY <1>1, <1>2 DEF BudgetInv, BudgetTypeOK, Usage, BudgetReserve, Charge
<1>5. /\ IsFiniteSet(live')
      /\ Cardinality(live') = Cardinality(live) + 1
  BY <1>3, FS_AddElement DEF BudgetInv
<1>6. EachAdmitted'
  BY <1>3 DEF BudgetInv, EachAdmitted
<1>7. Accounted'
  <2>1. live' \ {l} = live
    BY <1>3
  <2>2. live' \in SUBSET Lease /\ l \in live' /\ (\A k \in live' : Size[k] <= MaxMessageBytes)
    BY <1>3, <1>4, <1>6 DEF BudgetTypeOK, EachAdmitted
  <2>3. Cardinality(HeldBytes(live')) = Cardinality(HeldBytes(live' \ {l})) + Size[l]
    BY <1>5, <2>2, HeldBytesSplit
  <2>4. Cardinality(HeldBytes(live')) = Cardinality(HeldBytes(live)) + Size[l]
    BY <2>1, <2>3
  <2>5. QED
    BY <1>5, <2>4 DEF BudgetInv, Accounted, BudgetReserve, Charge, HeldBytes
<1>8. WithinLimits'
  BY <1>1, <1>2 DEF BudgetInv, WithinLimits, BudgetReserve, Admits, Charge
<1>9. QED
  BY <1>4, <1>5, <1>6, <1>7, <1>8 DEF BudgetInv

LEMMA ReleasePreserves ==
  ASSUME BudgetInv, NEW l \in Lease, LeaseDrop(l)
  PROVE  BudgetInv'
<1>1. Size[l] \in Nat /\ MaxMessages \in Nat /\ MaxBufferedBytes \in Nat /\ MaxMessageBytes \in Nat
  BY LimitsPositive, SizeIsLength
<1>2. /\ live' = live \ {l} /\ l \in live
      /\ usage' = [messages |-> usage.messages - 1, bytes |-> usage.bytes - Size[l]]
  BY DEF LeaseDrop, Refund
<1>3. /\ IsFiniteSet(live')
      /\ Cardinality(live') = Cardinality(live) - 1
  BY <1>2, FS_RemoveElement DEF BudgetInv
<1>4. Cardinality(HeldBytes(live)) = Cardinality(HeldBytes(live')) + Size[l]
  <2>1. live \in SUBSET Lease /\ l \in live /\ (\A k \in live : Size[k] <= MaxMessageBytes)
    BY <1>2 DEF BudgetInv, BudgetTypeOK, EachAdmitted
  <2>2. QED
    BY <1>2, <2>1, HeldBytesSplit DEF BudgetInv
<1>5. Cardinality(live') \in Nat /\ Cardinality(HeldBytes(live')) \in Nat
  <2>1. IsFiniteSet(HeldBytes(live'))
    <3>1. live \in SUBSET Lease /\ l \in live /\ (\A k \in live : Size[k] <= MaxMessageBytes)
      BY <1>2 DEF BudgetInv, BudgetTypeOK, EachAdmitted
    <3>2. QED
      BY <1>2, <3>1, HeldBytesSplit DEF BudgetInv
  <2>2. QED
    BY <1>3, <2>1, FS_CardinalityType
<1>6. /\ usage'.messages = Cardinality(live')
      /\ usage'.bytes = Cardinality(HeldBytes(live'))
  <2>1. usage.messages = Cardinality(live) /\ usage.bytes = Cardinality(HeldBytes(live))
    BY DEF BudgetInv, Accounted
  <2>2. usage.messages \in Nat /\ usage.bytes \in Nat
    BY DEF BudgetInv, BudgetTypeOK, Usage
  <2>3. QED
    BY <1>1, <1>2, <1>3, <1>4, <1>5, <2>1, <2>2
<1>7. Accounted'
  BY <1>6 DEF Accounted, HeldBytes
<1>8. BudgetTypeOK'
  BY <1>2, <1>5, <1>6 DEF BudgetInv, BudgetTypeOK, Usage
<1>9. EachAdmitted'
  BY <1>2 DEF BudgetInv, EachAdmitted
<1>10. WithinLimits'
  <2>1. usage.messages \in Nat /\ usage.bytes \in Nat
    BY DEF BudgetInv, BudgetTypeOK, Usage
  <2>2. QED
    BY <1>1, <1>2, <2>1 DEF BudgetInv, WithinLimits
<1>11. QED
  BY <1>3, <1>7, <1>8, <1>9, <1>10 DEF BudgetInv

LEMMA BudgetStep == BudgetInv /\ [BudgetNext]_budgetVars => BudgetInv'
<1> SUFFICES ASSUME BudgetInv, [BudgetNext]_budgetVars PROVE BudgetInv'
  OBVIOUS
<1>1. ASSUME NEW l \in Lease, BudgetReserve(l) PROVE BudgetInv'
  BY <1>1, ReservePreserves
<1>2. ASSUME NEW l \in Lease, LeaseDrop(l) PROVE BudgetInv'
  BY <1>2, ReleasePreserves
<1>3. CASE UNCHANGED budgetVars
  BY <1>3 DEF budgetVars, BudgetInv, BudgetTypeOK, EachAdmitted, Accounted, WithinLimits, HeldBytes
<1>4. QED
  BY <1>1, <1>2, <1>3 DEF BudgetNext

\* The inductive invariant, from which each of the theorems below follows.
THEOREM BudgetInvariant == BudgetSpec => []BudgetInv
<1>1. QED
  BY BudgetInitially, BudgetStep, PTL DEF BudgetSpec

\* The counters of Inner.usage are natural numbers: no Drop wraps them.
THEOREM BudgetTypeCorrect == BudgetSpec => []BudgetTypeOK
<1>1. BudgetInv => BudgetTypeOK
  BY DEF BudgetInv
<1>2. QED
  BY <1>1, BudgetInvariant, PTL

\* The message count is the number of live leases and the byte count the sum
\* of their sizes (Budget::reserve and Lease::drop).
THEOREM LeasesAccounted == BudgetSpec => []Accounted
<1>1. BudgetInv => Accounted
  BY DEF BudgetInv
<1>2. QED
  BY <1>1, BudgetInvariant, PTL

\* No history of reservations and drops exceeds the configured limits.
THEOREM QuotaHolds == BudgetSpec => []WithinLimits
<1>1. BudgetInv => WithinLimits
  BY DEF BudgetInv
<1>2. QED
  BY <1>1, BudgetInvariant, PTL

(***************************************************************************)
(* Queues without duplicates.                                              *)
(***************************************************************************)

LEMMA AppendRange ==
  ASSUME NEW S, NEW s \in Seq(S), NEW e \in S
  PROVE  Range(Append(s, e)) = Range(s) \cup {e}
<1>1. ASSUME NEW x \in Range(Append(s, e)) PROVE x \in Range(s) \cup {e}
  BY <1>1 DEF Range
<1>2. ASSUME NEW x \in Range(s) PROVE x \in Range(Append(s, e))
  <2>1. PICK i \in 1 .. Len(s) : s[i] = x
    BY <1>2 DEF Range
  <2>2. i \in DOMAIN Append(s, e) /\ Append(s, e)[i] = x
    BY <2>1
  <2>3. QED
    BY <2>2 DEF Range
<1>3. e \in Range(Append(s, e))
  <2>1. Len(s) + 1 \in DOMAIN Append(s, e) /\ Append(s, e)[Len(s) + 1] = e
    OBVIOUS
  <2>2. QED
    BY <2>1 DEF Range
<1>4. QED
  BY <1>1, <1>2, <1>3

LEMMA AppendInjective ==
  ASSUME NEW S, NEW s \in Seq(S), NEW e \in S, IsInjective(s), e \notin Range(s)
  PROVE  IsInjective(Append(s, e))
BY DEF Range, IsInjective

LEMMA TailInjective ==
  ASSUME NEW S, NEW s \in Seq(S), s # <<>>, IsInjective(s)
  PROVE  IsInjective(Tail(s))
BY DEF IsInjective

LEMMA TailRange ==
  ASSUME NEW S, NEW s \in Seq(S), s # <<>>, IsInjective(s)
  PROVE  /\ Head(s) \in Range(s)
         /\ Range(Tail(s)) = Range(s) \ {Head(s)}
<1>1. Head(s) \in Range(s)
  BY DEF Range
<1>2. ASSUME NEW x \in Range(Tail(s)) PROVE x \in Range(s) \ {Head(s)}
  BY <1>2 DEF Range, IsInjective
<1>3. ASSUME NEW x \in Range(s) \ {Head(s)} PROVE x \in Range(Tail(s))
  <2>1. PICK i \in 1 .. Len(s) : s[i] = x
    BY DEF Range
  <2>2. i # 1
    BY <2>1
  <2>3. i - 1 \in DOMAIN Tail(s) /\ Tail(s)[i - 1] = x
    BY <2>1, <2>2
  <2>4. QED
    BY <2>3 DEF Range
<1>4. QED
  BY <1>1, <1>2, <1>3

(***************************************************************************)
(* Types.                                                                  *)
(***************************************************************************)

LEMMA CallerTypes ==
  ASSUME SessionTypeOK, CallerStep
  PROVE  SessionTypeOK'
<1> USE DEF SessionTypeOK, callVars, commandVars, driverVars, eventVars,
            ownerVars, taskVars
<1>1. ASSUME NEW c \in Call, SendStep(c) PROVE SessionTypeOK'
  <2> USE DEF Goto, Phase, Settled
  <2>1. CASE Enter(c) \/ RefuseClosed(c) \/ RefuseInput(c)
    BY <2>1 DEF Enter, RefuseClosed, RefuseInput
  <2>2. CASE Reserve(c)
    BY <2>2 DEF Reserve
  <2>7. CASE RefuseAdmission(c)
    BY <2>7 DEF RefuseAdmission
  <2>3. CASE Enqueue(c)
    BY <2>3 DEF Enqueue
  <2>4. CASE RefuseCommand(c)
    BY <2>4 DEF RefuseCommand
  <2>5. CASE TakeResponse(c)
    <3>1. response[c] \in Phase
      BY <2>5 DEF TakeResponse
    <3>2. QED
      BY <2>5, <3>1 DEF TakeResponse
  <2>6. CASE LoseResponse(c)
    BY <2>6 DEF LoseResponse
  <2>8. CASE FailUnknown(c)
    BY <2>8 DEF FailUnknown
  <2>9. QED
    BY <1>1, <2>1, <2>2, <2>3, <2>4, <2>5, <2>6, <2>7, <2>8 DEF SendStep
<1>2. ASSUME NEW c \in Call, Cancel(c) PROVE SessionTypeOK'
  BY <1>2 DEF Cancel, Goto, Phase, Settled
<1>3. ASSUME NEW c \in Call, Expire(c) PROVE SessionTypeOK'
  BY <1>3 DEF Expire
<1>4. QED
  BY <1>1, <1>2, <1>3 DEF CallerStep

LEMMA DriverTypes ==
  ASSUME SessionTypeOK, DriverStep
  PROVE  SessionTypeOK'
<1> USE DEF SessionTypeOK, callVars, commandVars, driverVars, eventVars,
            ownerVars, taskVars
<1>1. ASSUME NEW c \in Call, TakeCommand(c) PROVE SessionTypeOK'
  <2>1. CASE SkipCancelled(c)
    BY <2>1 DEF SkipCancelled, Recv
  <2>2. CASE RejectExpired(c)
    BY <2>2 DEF RejectExpired, Recv
  <2>3. CASE Submit(c)
    BY <2>3 DEF Submit, Recv
  <2>4. CASE RefuseSubmit(c)
    BY <2>4 DEF RefuseSubmit, Recv, Response, Result
  <2>5. QED
    BY <1>1, <2>1, <2>2, <2>3, <2>4 DEF TakeCommand
<1>2. ASSUME NEW c \in Call, Complete(c) PROVE SessionTypeOK'
  BY <1>2 DEF Complete
<1>3. ASSUME NEW m \in Arrival, ReserveArrival(m) \/ RefuseArrival(m)
      PROVE  SessionTypeOK'
  BY <1>3 DEF ReserveArrival, RefuseArrival, Result
<1>4. ASSUME NEW r \in {"Closed", "Failed", "FailedUnknown", "abandoned"}, Stop(r)
      PROVE  SessionTypeOK'
  BY <1>4 DEF Stop, Result
<1>5. ASSUME NEW c \in Call, NEW r \in {"receipt", "error"}, Respond(c, r)
      PROVE  SessionTypeOK'
  BY <1>5 DEF Respond, Response
<1>6. ASSUME NEW m \in Arrival, EnqueueArrival(m) PROVE SessionTypeOK'
  BY <1>6 DEF EnqueueArrival
<1>7. ASSUME NEW m \in Arrival, LoseArrival(m) PROVE SessionTypeOK'
  BY <1>7 DEF LoseArrival, Result
<1>8. QED
  BY <1>1, <1>2, <1>3, <1>4, <1>5, <1>6, <1>7
     DEF DriverStep, Continue, TakeAbort, Abandon

LEMMA UnwindTypes ==
  ASSUME SessionTypeOK, Unwind
  PROVE  SessionTypeOK'
<1> USE DEF SessionTypeOK, callVars, commandVars, driverVars, eventVars,
            ownerVars, taskVars
<1>1. ASSUME NEW c \in Call, DropPending(c) PROVE SessionTypeOK'
  BY <1>1 DEF DropPending, Response
<1>2. ASSUME NEW c \in Call, DrainCommand(c) PROVE SessionTypeOK'
  BY <1>2 DEF DrainCommand, Response
<1>3. CASE CloseCommands \/ CloseEvents
  BY <1>3 DEF CloseCommands, CloseEvents
<1>4. CASE Publish
  BY <1>4 DEF Publish, Result, Terminal
<1>5. CASE Guard \/ GuardPublish
  BY <1>5 DEF Guard, GuardPublish, Terminal
<1>6. QED
  BY <1>1, <1>2, <1>3, <1>4, <1>5 DEF Unwind

LEMMA OwnerTypes ==
  ASSUME SessionTypeOK, OwnerStep
  PROVE  SessionTypeOK'
<1> USE DEF SessionTypeOK, callVars, commandVars, driverVars, eventVars,
            ownerVars, taskVars
<1>1. ASSUME NEW m \in Arrival, Next_Message(m) PROVE SessionTypeOK'
  BY <1>1 DEF Next_Message
<1>2. ASSUME NEW m \in Arrival, DiscardEvent(m) PROVE SessionTypeOK'
  BY <1>2 DEF DiscardEvent
<1>3. CASE Next_End
  BY <1>3 DEF Next_End, Terminal
<1>4. CASE Close
  BY <1>4 DEF Close, Owner
<1>5. CASE CloseJoined
  <2>1. owner' = "gone" /\ closeResult' \in {"receipt", "error"}
    BY <1>5 DEF CloseJoined
  <2>2. QED
    BY <1>5, <2>1 DEF CloseJoined, Owner
<1>6. CASE CloseTimeout
  BY <1>6 DEF CloseTimeout, Owner
<1>7. CASE CloseAbort
  BY <1>7 DEF CloseAbort, Owner, Terminal
<1>8. CASE Reap
  BY <1>8 DEF Reap, Owner
<1>9. CASE DropSession
  <2>1. CASE terminal = "Open"
    BY <1>9, <2>1 DEF DropSession, Owner
  <2>2. CASE terminal # "Open"
    <3>1. owner' = "gone" /\ aborting' = TRUE
      BY <1>9, <2>2 DEF DropSession
    <3>2. QED
      BY <1>9, <3>1 DEF DropSession, Owner
  <2>3. QED
    BY <2>1, <2>2
<1>10. CASE DropAbort
  BY <1>10 DEF DropAbort, Owner, Terminal
<1>11. CASE DropReaping
  BY <1>11 DEF DropReaping, Owner
<1>12. QED
  BY <1>1, <1>2, <1>3, <1>4, <1>5, <1>6, <1>7, <1>8, <1>9, <1>10, <1>11
     DEF OwnerStep

LEMMA Types ==
  ASSUME SessionTypeOK, [Next]_vars
  PROVE  SessionTypeOK'
<1>1. CASE UNCHANGED vars
  BY <1>1 DEF vars, SessionTypeOK, callVars, commandVars, driverVars, eventVars,
              ownerVars, taskVars
<1>2. QED
  BY <1>1, CallerTypes, DriverTypes, UnwindTypes, OwnerTypes DEF Next, Terminating

(***************************************************************************)
(* The quota.  A step of the session is a step of the quota or leaves it   *)
(* alone, so all that is proved of the quota holds in the session.         *)
(***************************************************************************)

LEMMA StepRefinesBudget ==
  ASSUME Next \/ UNCHANGED vars
  PROVE  [BudgetNext]_budgetVars
<1>1. CASE CallerStep
  BY <1>1, BodiesAreLeased
     DEF CallerStep, SendStep, Cancel, Expire, Enter, RefuseClosed, RefuseInput,
         Reserve, RefuseAdmission, Enqueue, RefuseCommand, TakeResponse,
         LoseResponse, FailUnknown, BudgetNext, budgetVars
<1>2. CASE DriverStep
  BY <1>2, BodiesAreLeased
     DEF DriverStep, TakeCommand, SkipCancelled, RejectExpired, Submit,
         RefuseSubmit, Complete, Continue, Respond, EnqueueArrival, LoseArrival,
         ReserveArrival, RefuseArrival, Stop, TakeAbort, Abandon,
         BudgetNext, budgetVars
<1>3. CASE Unwind
  BY <1>3, BodiesAreLeased
     DEF Unwind, DropPending, DrainCommand, CloseCommands, CloseEvents, Publish,
         Guard, GuardPublish, BudgetNext, budgetVars
<1>4. CASE OwnerStep
  BY <1>4, BodiesAreLeased
     DEF OwnerStep, Next_Message, DiscardEvent, Next_End, Close, CloseJoined,
         CloseTimeout, CloseAbort, Reap, DropSession, DropAbort, DropReaping,
         BudgetNext, budgetVars
<1>5. CASE Terminating \/ UNCHANGED vars
  BY <1>5 DEF Terminating, vars, budgetVars
<1>6. QED
  BY <1>1, <1>2, <1>3, <1>4, <1>5 DEF Next

\* The session uses its quota only as a quota is used: every charge and every
\* refund that a caller, the driver, a teardown or the owner makes is one
\* reserve or one drop of a lease.
THEOREM BudgetRefined == Spec => BudgetSpec
<1>1. Init => BudgetInit
  BY DEF Init
<1>2. [Next]_vars => [BudgetNext]_budgetVars
  BY StepRefinesBudget
<1>3. QED
  BY <1>1, <1>2, PTL DEF Spec, BudgetSpec

\* A new session has these types.
LEMMA InitTypes ==
  ASSUME Init
  PROVE  SessionTypeOK
<1>1. call \in [Call -> Phase] /\ response \in [Call -> Response]
  BY DEF Init, Phase, Response
<1>2. commands \in Seq(Call) /\ events \in Seq(Arrival)
      /\ arrived \in Seq(Arrival) /\ received \in Seq(Arrival)
  BY DEF Init
<1>3. /\ commandsOpen \in BOOLEAN /\ eventsOpen \in BOOLEAN
      /\ shutdown \in BOOLEAN /\ aborting \in BOOLEAN
  BY DEF Init
<1>4. /\ expired \subseteq Call /\ pending \subseteq Call
      /\ completing \subseteq Call \X {"receipt", "error"}
      /\ submitted \subseteq Call /\ arriving \subseteq Arrival
  BY DEF Init
<1>5. /\ ended \in {"no", "Closed", "Failed", "FailedUnknown"}
      /\ owner \in Owner
      /\ closeResult \in {"none", "receipt", "error"}
      /\ task \in {"running", "leaving", "guarding", "finished"}
      /\ result \in Result
      /\ result = "none" <=> task = "running"
      /\ terminal \in Terminal
  BY DEF Init, Owner, Result, Terminal
<1>6. QED
  BY <1>1, <1>2, <1>3, <1>4, <1>5 DEF SessionTypeOK

\* Every variable of a session keeps its type.
THEOREM TypeCorrect == Spec => []TypeOK
<1>1. Init => SessionTypeOK
  BY InitTypes
<1>2. SessionTypeOK /\ [Next]_vars => SessionTypeOK'
  BY Types
<1>3. Spec => []SessionTypeOK
  BY <1>1, <1>2, PTL DEF Spec
<1>4. Spec => []BudgetTypeOK
  BY BudgetRefined, BudgetTypeCorrect, PTL
<1>5. QED
  BY <1>3, <1>4, PTL DEF TypeOK

(***************************************************************************)
(* Outcomes.  What send may return about a command depends on where the    *)
(* command is, so the places of a command and the answers given for it are *)
(* proved together.                                                        *)
(***************************************************************************)

OutcomeInv == SessionTypeOK /\ CommandPlacement /\ OutcomeHonest

\* A command that is neither with its caller nor somewhere a driver could find
\* it is not affected by what happens to the places of the others.
LEMMA OutcomeFrame ==
  ASSUME OutcomeInv, SessionTypeOK',
         UNCHANGED <<call, response, commands, pending, completing, submitted>>
  PROVE  OutcomeInv'
BY DEF OutcomeInv, CommandPlacement, OutcomeHonest, Waiting, AtSender

\* Steps of send that only move the caller.
LEMMA OutcomeCaller ==
  ASSUME OutcomeInv, SessionTypeOK', NEW c \in Call,
         UNCHANGED <<response, commands, pending, completing, submitted>>,
         \/ Enter(c) \/ RefuseClosed(c) \/ RefuseInput(c) \/ Reserve(c)
         \/ RefuseAdmission(c) \/ RefuseCommand(c) \/ TakeResponse(c)
         \/ LoseResponse(c) \/ FailUnknown(c) \/ Cancel(c)
  PROVE  OutcomeInv'
<1> USE DEF OutcomeInv
<1>1. PICK p \in Phase :
        /\ call' = [call EXCEPT ![c] = p]
        /\ \/ AtSender(c) /\ p \in {"admitted", "reserved", "error"}
           \/ response[c] \in {"receipt", "error"} /\ p = response[c]
           \/ response[c] = "dropped" /\ p \in {"lost", "unknown"}
           \/ p = "cancelled" /\ ~AtSender(c)
  BY DEF Enter, RefuseClosed, RefuseInput, Reserve, RefuseAdmission,
         RefuseCommand, TakeResponse, LoseResponse, FailUnknown, Cancel, Goto,
         Phase, Settled, AtSender, CommandPlacement, SessionTypeOK
<1>2. call \in [Call -> Phase]
  BY DEF SessionTypeOK
<1>3. \A d \in Call : d # c => call'[d] = call[d]
  BY <1>1, <1>2
<1>4. call'[c] = p
  BY <1>1, <1>2
<1>5. CommandPlacement'
  BY <1>1, <1>3, <1>4
     DEF CommandPlacement, Waiting, AtSender, SessionTypeOK
<1>6. OutcomeHonest'
  BY <1>1, <1>3, <1>4
     DEF CommandPlacement, OutcomeHonest, Waiting, AtSender
<1>7. QED
  BY <1>5, <1>6
LEMMA OutcomeEnqueue ==
  ASSUME OutcomeInv, SessionTypeOK', NEW c \in Call, Enqueue(c)
  PROVE  OutcomeInv'
<1> USE DEF OutcomeInv
<1>1. /\ call' = [call EXCEPT ![c] = "awaiting"] /\ call[c] = "reserved"
      /\ commands' = Append(commands, c)
      /\ UNCHANGED <<response, pending, completing, submitted>>
  BY DEF Enqueue, Goto, callVars, driverVars
<1>2. c \notin Range(commands) /\ response[c] = "none" /\ c \notin submitted
  BY <1>1 DEF CommandPlacement, Waiting, AtSender
<1>3. /\ IsInjective(commands')
      /\ Range(commands') = Range(commands) \cup {c}
  BY <1>1, <1>2, AppendRange, AppendInjective DEF CommandPlacement, SessionTypeOK
<1>4. /\ call'[c] = "awaiting"
      /\ \A d \in Call : d # c => call'[d] = call[d]
  BY <1>1 DEF SessionTypeOK
<1>5. CommandPlacement'
  BY <1>1, <1>2, <1>3, <1>4
     DEF CommandPlacement, Waiting, AtSender, SessionTypeOK
<1>6. OutcomeHonest'
  BY <1>1, <1>2, <1>3, <1>4
     DEF CommandPlacement, OutcomeHonest, Waiting, AtSender
<1>7. QED
  BY <1>5, <1>6

\* A command leaves the queue.
LEMMA OutcomeRecv ==
  ASSUME OutcomeInv, SessionTypeOK', NEW c \in Call, TakeCommand(c)
  PROVE  OutcomeInv'
<1> USE DEF OutcomeInv
<1>1. /\ commands # <<>> /\ c = Head(commands) /\ commands' = Tail(commands)
      /\ pending = {} /\ completing = {}
  BY DEF TakeCommand, SkipCancelled, RejectExpired, Submit, RefuseSubmit, Recv,
         Looping
<1>2. /\ c \in Range(commands)
      /\ Range(commands') = Range(commands) \ {c}
      /\ IsInjective(commands')
  BY <1>1, TailRange, TailInjective DEF CommandPlacement, SessionTypeOK
<1>3. Waiting(c) /\ c \notin submitted
  BY <1>2 DEF CommandPlacement
<1>4. call' = call
  BY DEF TakeCommand, SkipCancelled, RejectExpired, Submit, RefuseSubmit, callVars
<1>5. CASE SkipCancelled(c)
  <2>1. UNCHANGED <<response, pending, completing, submitted>>
    BY <1>5 DEF SkipCancelled, callVars, driverVars
  <2>2. QED
    BY <1>2, <1>4, <2>1
       DEF CommandPlacement, OutcomeHonest, Waiting, AtSender
<1>6. CASE RejectExpired(c)
  <2>1. completing' = {<<c, "error">>} /\ UNCHANGED <<response, pending, submitted>>
    BY <1>6 DEF RejectExpired, callVars
  <2>2. QED
    BY <1>1, <1>2, <1>3, <1>4, <2>1
       DEF CommandPlacement, OutcomeHonest, Waiting, AtSender
<1>7. CASE Submit(c)
  <2>1. /\ pending' = {c} /\ submitted' = submitted \cup {c}
        /\ UNCHANGED <<response, completing>>
    BY <1>7 DEF Submit, callVars
  <2>2. QED
    BY <1>1, <1>2, <1>3, <1>4, <2>1
       DEF CommandPlacement, OutcomeHonest, Waiting, AtSender
<1>8. CASE RefuseSubmit(c)
  <2>1. /\ response' = [response EXCEPT ![c] = "dropped"]
        /\ UNCHANGED <<pending, completing, submitted>>
    BY <1>8 DEF RefuseSubmit, driverVars
  <2>2. /\ response'[c] = "dropped"
        /\ \A d \in Call : d # c => response'[d] = response[d]
    BY <2>1 DEF SessionTypeOK
  <2>3. QED
    BY <1>1, <1>2, <1>3, <1>4, <2>1, <2>2
       DEF CommandPlacement, OutcomeHonest, Waiting, AtSender
<1>9. QED
  BY <1>5, <1>6, <1>7, <1>8 DEF TakeCommand

\* The submitted command is completed and its caller answered.
LEMMA OutcomeComplete ==
  ASSUME OutcomeInv, SessionTypeOK', NEW c \in Call, Complete(c)
  PROVE  OutcomeInv'
<1>1. /\ c \in pending /\ pending' = {} /\ completing' = {<<c, "receipt">>}
      /\ UNCHANGED <<call, response, commands, submitted>>
  BY DEF Complete, callVars, commandVars
<1>2. Waiting(c) /\ c \in submitted /\ c \notin Range(commands)
  BY <1>1 DEF OutcomeInv, CommandPlacement
<1>3. QED
  BY <1>1, <1>2
     DEF OutcomeInv, CommandPlacement, OutcomeHonest, Waiting, AtSender

LEMMA OutcomeRespond ==
  ASSUME OutcomeInv, SessionTypeOK',
         NEW c \in Call, NEW r \in {"receipt", "error"}, Respond(c, r)
  PROVE  OutcomeInv'
<1>1. /\ <<c, r>> \in completing /\ completing' = {}
      /\ response' = [response EXCEPT ![c] = r]
      /\ UNCHANGED <<call, commands, pending, submitted>>
  BY DEF Respond, commandVars
<1>2. /\ Waiting(c) /\ c \notin Range(commands) \cup pending
      /\ r = "receipt" <=> c \in submitted
  BY <1>1 DEF OutcomeInv, CommandPlacement
<1>3. response'[c] = r /\ \A d \in Call : d # c => response'[d] = response[d]
  BY <1>1 DEF OutcomeInv, SessionTypeOK
<1>4. Range(commands) \subseteq Call /\ pending \subseteq Call
  BY DEF OutcomeInv, SessionTypeOK, Range
<1>5. QED
  BY <1>1, <1>2, <1>3, <1>4
     DEF OutcomeInv, CommandPlacement, OutcomeHonest, Waiting, AtSender

\* A command is dropped with the driver.
LEMMA OutcomeDrop ==
  ASSUME OutcomeInv, SessionTypeOK', NEW c \in Call,
         DropPending(c) \/ DrainCommand(c)
  PROVE  OutcomeInv'
<1> USE DEF OutcomeInv
<1>1. /\ response' = [response EXCEPT ![c] = "dropped"]
      /\ UNCHANGED <<call, completing, submitted>>
  BY DEF DropPending, DrainCommand, driverVars
<1>2. response'[c] = "dropped" /\ \A d \in Call : d # c => response'[d] = response[d]
  BY <1>1 DEF SessionTypeOK
<1>3. Range(commands) \subseteq Call /\ pending \subseteq Call
  BY DEF SessionTypeOK, Range
<1>4. CASE DropPending(c)
  <2>1. c \in pending /\ pending' = {} /\ commands' = commands
    BY <1>4 DEF DropPending, commandVars
  <2>2. Waiting(c) /\ c \in submitted /\ c \notin Range(commands)
    BY <2>1 DEF CommandPlacement
  <2>3. QED
    BY <1>1, <1>2, <1>3, <2>1, <2>2
       DEF CommandPlacement, OutcomeHonest, Waiting, AtSender
<1>5. CASE DrainCommand(c)
  <2>1. /\ commands # <<>> /\ c = Head(commands) /\ commands' = Tail(commands)
        /\ pending' = pending
    BY <1>5 DEF DrainCommand, driverVars
  <2>2. /\ c \in Range(commands)
        /\ Range(commands') = Range(commands) \ {c}
        /\ IsInjective(commands')
    BY <2>1, TailRange, TailInjective DEF CommandPlacement, SessionTypeOK
  <2>3. Waiting(c) /\ c \notin submitted
    BY <2>2 DEF CommandPlacement
  <2>4. QED
    BY <1>1, <1>2, <1>3, <2>1, <2>2, <2>3
       DEF CommandPlacement, OutcomeHonest, Waiting, AtSender
<1>6. QED
  BY <1>4, <1>5
LEMMA OutcomeStep == OutcomeInv /\ [Next]_vars => OutcomeInv'
<1> SUFFICES ASSUME OutcomeInv, [Next]_vars PROVE OutcomeInv'
  OBVIOUS
<1>1. SessionTypeOK'
  BY Types DEF OutcomeInv
<1>2. ASSUME UNCHANGED <<callVars, commandVars, driverVars>> PROVE OutcomeInv'
  BY <1>1, <1>2, OutcomeFrame DEF callVars, commandVars, driverVars
<1>3. CASE CallerStep
  <2>1. PICK c \in Call : SendStep(c) \/ Cancel(c) \/ Expire(c)
    BY <1>3 DEF CallerStep
  <2>2. CASE Enqueue(c)
    BY <1>1, <2>2, OutcomeEnqueue
  <2>3. CASE Expire(c)
    BY <1>1, <2>3, OutcomeFrame DEF Expire, commandVars, driverVars
  <2>4. CASE \/ Enter(c) \/ RefuseClosed(c) \/ RefuseInput(c) \/ Reserve(c)
             \/ RefuseAdmission(c) \/ RefuseCommand(c) \/ TakeResponse(c)
             \/ LoseResponse(c) \/ FailUnknown(c) \/ Cancel(c)
    <3>1. UNCHANGED <<response, commands, pending, completing, submitted>>
      BY <2>4 DEF Enter, RefuseClosed, RefuseInput, Reserve, RefuseAdmission,
                  RefuseCommand, TakeResponse, LoseResponse, FailUnknown, Cancel,
                  commandVars, driverVars
    <3>2. QED
      BY <1>1, <2>4, <3>1, OutcomeCaller
  <2>5. QED
    BY <2>1, <2>2, <2>3, <2>4 DEF SendStep
<1>4. CASE DriverStep
  <2>1. ASSUME NEW c \in Call, TakeCommand(c) \/ Complete(c) PROVE OutcomeInv'
    BY <1>1, <2>1, OutcomeRecv, OutcomeComplete
  <2>2. ASSUME NEW c \in Call, NEW r \in {"receipt", "error"}, Respond(c, r)
        PROVE  OutcomeInv'
    BY <1>1, <2>2, OutcomeRespond
  <2>3. ASSUME NEW m \in Arrival,
               \/ ReserveArrival(m) \/ RefuseArrival(m)
               \/ EnqueueArrival(m) \/ LoseArrival(m)
        PROVE  OutcomeInv'
    BY <1>2, <2>3 DEF ReserveArrival, RefuseArrival, EnqueueArrival, LoseArrival
  <2>4. ASSUME NEW r, Stop(r) PROVE OutcomeInv'
    BY <1>2, <2>4 DEF Stop
  <2>5. QED
    BY <1>4, <2>1, <2>2, <2>3, <2>4 DEF DriverStep, Continue, TakeAbort, Abandon
<1>5. CASE Unwind
  <2>1. ASSUME NEW c \in Call, DropPending(c) \/ DrainCommand(c) PROVE OutcomeInv'
    BY <1>1, <2>1, OutcomeDrop
  <2>2. CASE CloseCommands
    BY <1>1, <2>2, OutcomeFrame DEF CloseCommands, callVars, driverVars
  <2>3. CASE CloseEvents \/ Publish \/ Guard \/ GuardPublish
    BY <1>2, <2>3 DEF CloseEvents, Publish, Guard, GuardPublish
  <2>4. QED
    BY <1>5, <2>1, <2>2, <2>3 DEF Unwind
<1>6. CASE OwnerStep
  <2>1. UNCHANGED <<callVars, commandVars, driverVars>>
    BY <1>6 DEF OwnerStep, Next_Message, DiscardEvent, Next_End, Close,
         CloseJoined, CloseTimeout, CloseAbort, Reap, DropSession, DropAbort,
         DropReaping
  <2>2. QED
    BY <1>2, <2>1
<1>7. CASE Terminating \/ UNCHANGED vars
  BY <1>2, <1>7 DEF Terminating, vars
<1>8. QED
  BY <1>3, <1>4, <1>5, <1>6, <1>7 DEF Next

\* The inductive invariant of what becomes of a command.
THEOREM OutcomeInvariant == Spec => []OutcomeInv
<1>1. Init => CommandPlacement /\ OutcomeHonest
  BY DEF Init, CommandPlacement, OutcomeHonest, Waiting, AtSender, Range,
         IsInjective
<1>2. Init /\ TypeOK => OutcomeInv
  BY <1>1 DEF OutcomeInv, TypeOK
<1>3. OutcomeInv /\ [Next]_vars => OutcomeInv'
  BY OutcomeStep
<1>4. QED
  BY <1>2, <1>3, TypeCorrect, PTL DEF Spec

\* A command is with its caller, queued, pending, being completed or answered,
\* and in one of these places only, whatever is cancelled, refused, expired or
\* torn down.
THEOREM CommandsPlaced == Spec => []CommandPlacement
<1>1. OutcomeInv => CommandPlacement
  BY DEF OutcomeInv
<1>2. QED
  BY <1>1, OutcomeInvariant, PTL

\* What Sender::send returns is true of the wire: a receipt only for a command
\* that was submitted, an error that is not delivery_unknown only for one that
\* never was and never will be.
THEOREM OutcomesHonest == Spec => []OutcomeHonest
<1>1. OutcomeInv => OutcomeHonest
  BY DEF OutcomeInv
<1>2. QED
  BY <1>1, OutcomeInvariant, PTL

(***************************************************************************)
(* Leases.  A body is followed from the reservation to the drop of its     *)
(* lease; what is left out of the queues has none.                         *)
(***************************************************************************)

LeaseInv ==
  SessionTypeOK /\ CommandPlacement /\ ArrivalPlacement /\ LeaseFollowsBody

LEMMA LeaseFrame ==
  ASSUME LeaseInv, UNCHANGED <<commands, pending, eventVars, live>>,
         {c \in Call : call'[c] = "reserved"} = {c \in Call : call[c] = "reserved"}
  PROVE  (ArrivalPlacement /\ LeaseFollowsBody)'
BY DEF LeaseInv, ArrivalPlacement, LeaseFollowsBody, Held, eventVars

LEMMA LeaseCaller ==
  ASSUME LeaseInv, NEW c \in Call, SendStep(c) \/ Cancel(c) \/ Expire(c)
  PROVE  (ArrivalPlacement /\ LeaseFollowsBody)'
<1> USE DEF LeaseInv
<1>1. call \in [Call -> Phase] /\ UNCHANGED <<pending, eventVars>>
  BY DEF SessionTypeOK, SendStep, Enter, RefuseClosed, RefuseInput, Reserve,
         RefuseAdmission, Enqueue, RefuseCommand, TakeResponse, LoseResponse,
         FailUnknown, Cancel, Expire, driverVars
<1>2. CASE Reserve(c)
  <2>1. /\ call' = [call EXCEPT ![c] = "reserved"]
        /\ live' = live \cup {c} /\ commands' = commands
    BY <1>2 DEF Reserve, Goto, BudgetReserve, commandVars
  <2>2. {d \in Call : call'[d] = "reserved"}
          = {d \in Call : call[d] = "reserved"} \cup {c}
    BY <1>1, <2>1
  <2>3. QED
    BY <1>1, <2>1, <2>2 DEF ArrivalPlacement, LeaseFollowsBody, Held, eventVars
<1>3. CASE Enqueue(c)
  <2>1. /\ call[c] = "reserved" /\ call' = [call EXCEPT ![c] = "awaiting"]
        /\ commands' = Append(commands, c) /\ live' = live
    BY <1>3 DEF Enqueue, Goto, budgetVars
  <2>2. {d \in Call : call'[d] = "reserved"}
          = {d \in Call : call[d] = "reserved"} \ {c}
    BY <1>1, <2>1
  <2>3. Range(commands') = Range(commands) \cup {c}
    BY <2>1, AppendRange DEF SessionTypeOK
  <2>4. QED
    BY <1>1, <2>1, <2>2, <2>3
       DEF ArrivalPlacement, LeaseFollowsBody, Held, eventVars
<1>4. CASE RefuseCommand(c)
  <2>1. /\ call[c] = "reserved" /\ call' = [call EXCEPT ![c] = "error"]
        /\ commands' = commands /\ live' = live \ {c}
    BY <1>4 DEF RefuseCommand, Goto, LeaseDrop, commandVars
  <2>2. {d \in Call : call'[d] = "reserved"}
          = {d \in Call : call[d] = "reserved"} \ {c}
    BY <1>1, <2>1
  <2>3. c \notin Range(commands) \cup pending
    BY <2>1 DEF CommandPlacement, Waiting
  <2>4. c \notin arriving \cup Range(events)
    BY CallsAreNotArrivals DEF SessionTypeOK, Range
  <2>5. QED
    BY <1>1, <2>1, <2>2, <2>3, <2>4
       DEF ArrivalPlacement, LeaseFollowsBody, Held, eventVars
<1>5. CASE \/ Enter(c) \/ RefuseClosed(c) \/ RefuseInput(c) \/ RefuseAdmission(c)
           \/ TakeResponse(c) \/ LoseResponse(c) \/ FailUnknown(c) \/ Cancel(c)
  <2>1. /\ UNCHANGED <<commands, live>>
        /\ call[c] # "reserved"
        /\ \E p : p # "reserved" /\ call' = [call EXCEPT ![c] = p]
    BY <1>5 DEF Enter, RefuseClosed, RefuseInput, RefuseAdmission, TakeResponse,
         LoseResponse, FailUnknown, Cancel, Goto, commandVars, budgetVars
  <2>2. {d \in Call : call'[d] = "reserved"} = {d \in Call : call[d] = "reserved"}
    BY <1>1, <2>1
  <2>3. QED
    BY <1>1, <2>1, <2>2, LeaseFrame
<1>6. CASE Expire(c)
  <2>1. UNCHANGED <<call, commands, live>>
    BY <1>6 DEF Expire, commandVars, budgetVars
  <2>2. QED
    BY <1>1, <2>1, LeaseFrame
<1>7. QED
  BY <1>2, <1>3, <1>4, <1>5, <1>6 DEF SendStep

\* A lease leaves with the command that leaves the queue, or follows it.
LEMMA LeaseRecv ==
  ASSUME LeaseInv, NEW c \in Call, TakeCommand(c) \/ DrainCommand(c)
  PROVE  (ArrivalPlacement /\ LeaseFollowsBody)'
<1> USE DEF LeaseInv
<1>1. /\ commands # <<>> /\ c = Head(commands) /\ commands' = Tail(commands)
      /\ UNCHANGED <<call, eventVars>>
      /\ \/ live' = live \ {c} /\ pending' = pending
         \/ live' = live /\ pending' = {c} /\ pending = {}
  BY DEF TakeCommand, SkipCancelled, RejectExpired, Submit, RefuseSubmit, Recv,
         DrainCommand, LeaseDrop, callVars, driverVars, budgetVars
<1>2. /\ c \in Range(commands) /\ Range(commands') = Range(commands) \ {c}
  BY <1>1, TailRange DEF CommandPlacement, SessionTypeOK
<1>3. call[c] # "reserved"
  BY <1>2 DEF CommandPlacement, Waiting
<1>4. c \notin arriving \cup Range(events)
  BY CallsAreNotArrivals DEF SessionTypeOK, Range
<1>5. ArrivalPlacement'
  BY <1>1 DEF ArrivalPlacement, eventVars
<1>6. CASE live' = live \ {c} /\ pending' = pending
  <2>1. c \notin pending
    BY <1>2 DEF CommandPlacement
  <2>2. QED
    BY <1>1, <1>2, <1>3, <1>4, <1>5, <1>6, <2>1
       DEF LeaseFollowsBody, Held, eventVars
<1>7. CASE live' = live /\ pending' = {c} /\ pending = {}
  BY <1>1, <1>2, <1>5, <1>7 DEF LeaseFollowsBody, Held, eventVars
<1>8. QED
  BY <1>1, <1>6, <1>7

LEMMA LeasePending ==
  ASSUME LeaseInv, NEW c \in Call, Complete(c) \/ DropPending(c)
  PROVE  (ArrivalPlacement /\ LeaseFollowsBody)'
<1> USE DEF LeaseInv
<1>1. /\ c \in pending /\ pending' = {} /\ live' = live \ {c}
      /\ UNCHANGED <<call, commands, eventVars>>
  BY DEF Complete, DropPending, LeaseDrop, callVars, commandVars
<1>2. /\ pending = {c} /\ call[c] # "reserved" /\ c \notin Range(commands)
  BY <1>1 DEF CommandPlacement, SessionTypeOK, Waiting
<1>3. c \notin arriving \cup Range(events)
  BY CallsAreNotArrivals DEF SessionTypeOK, Range
<1>4. QED
  BY <1>1, <1>2, <1>3 DEF ArrivalPlacement, LeaseFollowsBody, Held, eventVars

LEMMA LeaseArrival ==
  ASSUME LeaseInv, NEW m \in Arrival,
         \/ ReserveArrival(m) \/ EnqueueArrival(m) \/ LoseArrival(m)
         \/ Next_Message(m) \/ DiscardEvent(m)
  PROVE  (ArrivalPlacement /\ LeaseFollowsBody)'
<1> USE DEF LeaseInv
<1>1. UNCHANGED <<call, commands, pending>>
  BY DEF ReserveArrival, EnqueueArrival, LoseArrival, Next_Message, DiscardEvent,
         callVars, commandVars, driverVars
<1>2. m \notin {c \in Call : call[c] = "reserved"} \cup Range(commands) \cup pending
  BY CallsAreNotArrivals DEF SessionTypeOK, Range
<1>3. CASE ReserveArrival(m)
  <2>1. /\ arriving = {} /\ arriving' = {m} /\ m \notin Range(arrived)
        /\ live' = live \cup {m} /\ UNCHANGED <<events, arrived>>
    BY <1>3 DEF ReserveArrival, Looping, BudgetReserve
  <2>2. QED
    BY <1>1, <2>1 DEF ArrivalPlacement, LeaseFollowsBody, Held
<1>4. CASE EnqueueArrival(m)
  <2>1. /\ m \in arriving /\ arriving' = {} /\ events' = Append(events, m)
        /\ arrived' = Append(arrived, m) /\ live' = live
    BY <1>4 DEF EnqueueArrival, budgetVars
  <2>2. arriving = {m} /\ m \notin Range(events)
    BY <2>1 DEF ArrivalPlacement
  <2>3. /\ IsInjective(events') /\ Range(events') = Range(events) \cup {m}
        /\ Range(arrived') = Range(arrived) \cup {m}
    BY <2>1, <2>2, AppendRange, AppendInjective
       DEF ArrivalPlacement, SessionTypeOK
  <2>4. QED
    BY <1>1, <2>1, <2>2, <2>3 DEF ArrivalPlacement, LeaseFollowsBody, Held
<1>5. CASE LoseArrival(m)
  <2>1. /\ m \in arriving /\ arriving' = {} /\ live' = live \ {m}
        /\ UNCHANGED <<events, arrived>>
    BY <1>5 DEF LoseArrival, LeaseDrop
  <2>2. arriving = {m} /\ m \notin Range(events)
    BY <2>1 DEF ArrivalPlacement
  <2>3. QED
    BY <1>1, <1>2, <2>1, <2>2 DEF ArrivalPlacement, LeaseFollowsBody, Held
<1>6. CASE Next_Message(m) \/ DiscardEvent(m)
  <2>1. /\ events # <<>> /\ m = Head(events) /\ events' = Tail(events)
        /\ live' = live \ {m} /\ UNCHANGED <<arriving, arrived>>
    BY <1>6 DEF Next_Message, DiscardEvent, LeaseDrop
  <2>2. /\ m \in Range(events) /\ Range(events') = Range(events) \ {m}
        /\ IsInjective(events')
    BY <2>1, TailRange, TailInjective DEF ArrivalPlacement, SessionTypeOK
  <2>3. m \notin arriving
    BY <2>2 DEF ArrivalPlacement
  <2>4. QED
    BY <1>1, <1>2, <2>1, <2>2, <2>3 DEF ArrivalPlacement, LeaseFollowsBody, Held
<1>7. QED
  BY <1>3, <1>4, <1>5, <1>6

LEMMA LeaseStep ==
  ASSUME LeaseInv, [Next]_vars
  PROVE  (ArrivalPlacement /\ LeaseFollowsBody)'
<1>1. ASSUME UNCHANGED <<call, commands, pending, eventVars, live>>
      PROVE  (ArrivalPlacement /\ LeaseFollowsBody)'
  BY <1>1, LeaseFrame
<1>2. CASE CallerStep
  BY <1>2, LeaseCaller DEF CallerStep
<1>3. CASE DriverStep
  <2>1. ASSUME NEW c \in Call, TakeCommand(c) \/ Complete(c)
        PROVE  (ArrivalPlacement /\ LeaseFollowsBody)'
    BY <2>1, LeaseRecv, LeasePending
  <2>2. ASSUME NEW c \in Call, NEW r \in {"receipt", "error"}, Respond(c, r)
        PROVE  (ArrivalPlacement /\ LeaseFollowsBody)'
    BY <1>1, <2>2 DEF Respond, commandVars, budgetVars
  <2>3. ASSUME NEW m \in Arrival,
               ReserveArrival(m) \/ EnqueueArrival(m) \/ LoseArrival(m)
        PROVE  (ArrivalPlacement /\ LeaseFollowsBody)'
    BY <2>3, LeaseArrival
  <2>4. ASSUME NEW m \in Arrival, RefuseArrival(m)
        PROVE  (ArrivalPlacement /\ LeaseFollowsBody)'
    BY <1>1, <2>4
       DEF RefuseArrival, callVars, commandVars, driverVars, budgetVars
  <2>5. ASSUME NEW r, Stop(r) PROVE (ArrivalPlacement /\ LeaseFollowsBody)'
    BY <1>1, <2>5 DEF Stop, callVars, commandVars, driverVars, budgetVars
  <2>6. QED
    BY <1>3, <2>1, <2>2, <2>3, <2>4, <2>5
       DEF DriverStep, Continue, TakeAbort, Abandon
<1>4. CASE Unwind
  <2>1. ASSUME NEW c \in Call, DropPending(c) \/ DrainCommand(c)
        PROVE  (ArrivalPlacement /\ LeaseFollowsBody)'
    BY <2>1, LeaseRecv, LeasePending
  <2>2. CASE CloseCommands \/ Publish \/ Guard \/ GuardPublish
    BY <1>1, <2>2 DEF CloseCommands, Publish, Guard, GuardPublish,
         callVars, commandVars, driverVars, budgetVars
  <2>3. CASE CloseEvents
    <3>1. UNCHANGED <<call, commands, pending, arriving, events, arrived, live>>
      BY <2>3 DEF CloseEvents, callVars, commandVars, driverVars, budgetVars
    <3>2. QED
      BY <3>1 DEF LeaseInv, ArrivalPlacement, LeaseFollowsBody, Held
  <2>4. QED
    BY <1>4, <2>1, <2>2, <2>3 DEF Unwind
<1>5. CASE OwnerStep
  <2>1. ASSUME NEW m \in Arrival, Next_Message(m) \/ DiscardEvent(m)
        PROVE  (ArrivalPlacement /\ LeaseFollowsBody)'
    BY <2>1, LeaseArrival
  <2>2. CASE \/ Next_End \/ Close \/ CloseJoined \/ CloseTimeout \/ CloseAbort
             \/ Reap \/ DropSession \/ DropAbort \/ DropReaping
    BY <1>1, <2>2 DEF Next_End, Close, CloseJoined, CloseTimeout, CloseAbort,
         Reap, DropSession, DropAbort, DropReaping, callVars, commandVars,
         driverVars, budgetVars
  <2>3. QED
    BY <1>5, <2>1, <2>2 DEF OwnerStep
<1>6. CASE Terminating \/ UNCHANGED vars
  BY <1>1, <1>6
     DEF Terminating, vars, callVars, commandVars, driverVars, budgetVars
<1>7. QED
  BY <1>2, <1>3, <1>4, <1>5, <1>6 DEF Next

\* The inductive invariant of the leases.
THEOREM LeaseInvariant == Spec => []LeaseInv
<1>1. Init => ArrivalPlacement /\ LeaseFollowsBody
  BY DEF Init, BudgetInit, ArrivalPlacement, LeaseFollowsBody, Held, Range,
         IsInjective
<1>2. LeaseInv /\ [Next]_vars => (ArrivalPlacement /\ LeaseFollowsBody)'
  BY LeaseStep
<1>3. Spec => [](SessionTypeOK /\ CommandPlacement)
  BY TypeCorrect, CommandsPlaced, PTL DEF TypeOK
<1>4. SessionTypeOK /\ CommandPlacement /\ ArrivalPlacement /\ LeaseFollowsBody
        <=> LeaseInv
  BY DEF LeaseInv
<1>5. QED
  BY <1>1, <1>2, <1>3, <1>4, PTL DEF Spec

\* No path through a session leaks a lease, or drops one whose body is still
\* queued, pending or being delivered.
THEOREM LeasesFollowBodies == Spec => []LeaseFollowsBody
<1>1. LeaseInv => LeaseFollowsBody
  BY DEF LeaseInv
<1>2. QED
  BY <1>1, LeaseInvariant, PTL

\* The capacity of a send is reusable by whoever sees its outcome.
THEOREM CapacityPrecedesResponse == Spec => []CapacityBeforeResponse
<1>1. LeaseInv => CapacityBeforeResponse
  <2> SUFFICES ASSUME LeaseInv, NEW c \in Call, response[c] \in {"receipt", "error"}
               PROVE  c \notin Held
    BY DEF CapacityBeforeResponse, LeaseInv, LeaseFollowsBody
  <2>1. call[c] # "reserved" /\ c \notin Range(commands) \cup pending
    BY DEF LeaseInv, CommandPlacement, Waiting, AtSender
  <2>2. c \notin arriving \cup Range(events)
    BY CallsAreNotArrivals DEF LeaseInv, SessionTypeOK, Range
  <2>3. QED
    BY <2>1, <2>2 DEF Held
<1>2. QED
  BY <1>1, LeaseInvariant, PTL
\* Neither a leak nor a quota that disagrees with what is held: the counters of the
\* Budget are those of the bodies in the session, within the limits.
THEOREM LeasesExact == Spec => []LeasesAreExact
<1>1. LeaseFollowsBody /\ Accounted /\ WithinLimits => LeasesAreExact
  BY DEF LeasesAreExact
<1>2. QED
  BY <1>1, LeasesFollowBodies, BudgetRefined, LeasesAccounted, QuotaHolds, PTL

(***************************************************************************)
(* The queues are as long as the quota is wide.                            *)
(***************************************************************************)

\* A queue without duplicates is as long as the set of what it holds.
LEMMA LengthIsCardinality ==
  ASSUME NEW S, NEW s \in Seq(S), IsInjective(s)
  PROVE  IsFiniteSet(Range(s)) /\ Cardinality(Range(s)) = Len(s)
<1>1. s \in Bijection(1 .. Len(s), Range(s))
  <2>1. s \in [1 .. Len(s) -> Range(s)]
    BY DEF Range
  <2>2. \A t \in Range(s) : \E i \in 1 .. Len(s) : s[i] = t
    BY DEF Range
  <2>3. s \in Injection(1 .. Len(s), Range(s))
    BY <2>1 DEF Injection
  <2>4. s \in Surjection(1 .. Len(s), Range(s))
    BY <2>1, <2>2 DEF Surjection
  <2>5. QED
    BY <2>3, <2>4 DEF Bijection
<1>2. ExistsBijection(1 .. Len(s), Range(s))
  BY <1>1 DEF ExistsBijection
<1>3. IsFiniteSet(1 .. Len(s)) /\ Cardinality(1 .. Len(s)) = Len(s)
  <2>1. Len(s) \in Nat
    OBVIOUS
  <2>2. ASSUME NEW n \in Nat
        PROVE  IsFiniteSet(1 .. n) /\ Cardinality(1 .. n) = n
    BY FS_Interval
  <2>3. QED
    BY <2>1, <2>2
<1>4. QED
  BY <1>2, <1>3, FS_Bijection

\* A body with a lease that is not in the queue leaves room for itself.
LEMMA RoomForOneMore ==
  ASSUME NEW S, NEW s \in Seq(S), IsInjective(s), NEW e, e \notin Range(s),
         e \in live, Range(s) \subseteq live,
         IsFiniteSet(live), Accounted, WithinLimits
  PROVE  Len(s) < MaxMessages
<1>1. IsFiniteSet(Range(s)) /\ Cardinality(Range(s)) = Len(s)
  BY LengthIsCardinality
<1>2. Cardinality(Range(s) \cup {e}) = Len(s) + 1
  BY <1>1, FS_AddElement
<1>3. Cardinality(Range(s) \cup {e}) <= Cardinality(live)
  BY FS_Subset
<1>4. Cardinality(live) <= MaxMessages
  BY DEF Accounted, WithinLimits
<1>5. Cardinality(live) \in Nat /\ MaxMessages \in Nat /\ Len(s) \in Nat
  BY FS_CardinalityType, LimitsPositive
<1>6. QED
  BY <1>2, <1>3, <1>4, <1>5

\* `queue is full' never refuses a body that was admitted, in either direction
\* (Sender::send_inner, Context::enqueue).
THEOREM SlotsFollowLeases == Spec => []SlotFollowsLease
<1>1. LeaseInv /\ BudgetInv => SlotFollowsLease
  <2> SUFFICES ASSUME LeaseInv, BudgetInv PROVE SlotFollowsLease
    OBVIOUS
  <2>1. IsFiniteSet(live) /\ Accounted /\ WithinLimits /\ live = Held
    BY DEF BudgetInv, LeaseInv, LeaseFollowsBody
  <2>2. ASSUME NEW c \in Call, call[c] = "reserved" PROVE Len(commands) < MaxMessages
    <3>1. commands \in Seq(Call) /\ IsInjective(commands)
      BY DEF LeaseInv, SessionTypeOK, CommandPlacement
    <3>2. c \notin Range(commands)
      BY <2>2 DEF LeaseInv, CommandPlacement, Waiting
    <3>3. c \in live /\ Range(commands) \subseteq live
      BY <2>1, <2>2 DEF Held
    <3>4. QED
      BY <2>1, <3>1, <3>2, <3>3, RoomForOneMore
  <2>3. ASSUME NEW m \in arriving PROVE Len(events) < MaxMessages
    <3>1. events \in Seq(Arrival) /\ IsInjective(events)
      BY DEF LeaseInv, SessionTypeOK, ArrivalPlacement
    <3>2. m \notin Range(events)
      BY DEF LeaseInv, ArrivalPlacement
    <3>3. m \in live /\ Range(events) \subseteq live
      BY <2>1 DEF Held
    <3>4. QED
      BY <2>1, <3>1, <3>2, <3>3, RoomForOneMore
  <2>4. QED
    BY <2>2, <2>3 DEF SlotFollowsLease
<1>2. QED
  BY <1>1, LeaseInvariant, BudgetRefined, BudgetInvariant, PTL

(***************************************************************************)
(* What the owner is told of the end.                                      *)
(***************************************************************************)

\* The event sender is dropped after the loop, and nothing is put in the queue from
\* then on; until the owner is gone, what arrived is what it took and what is queued.
DrainInv ==
  /\ owner # "gone" => arrived = received \o events
  /\ task # "running" => arriving = {}
  /\ ~eventsOpen => task # "running"
  /\ ended # "no" => ~eventsOpen /\ events = <<>> /\ received = arrived
  /\ terminal = "Closed" => result = "Closed" /\ task = "finished"
  /\ closeResult = "receipt" => result = "Closed" /\ task = "finished"

\* A step that touches neither the events nor the end of the session.
LEMMA DrainFrame ==
  ASSUME DrainInv, UNCHANGED <<eventVars, ended, owner, closeResult, task, result, terminal>>
  PROVE  DrainInv'
BY DEF DrainInv, eventVars

\* The loop of the driver stops, or is stopped.
LEMMA DrainStop ==
  ASSUME DrainInv, task = "running", task' = "leaving", arriving' = {},
         UNCHANGED <<events, eventsOpen, arrived, received, ownerVars, terminal>>
  PROVE  DrainInv'
BY DEF DrainInv, ownerVars

LEMMA DrainDriver ==
  ASSUME SessionTypeOK, DrainInv, DriverStep
  PROVE  DrainInv'
<1>1. ASSUME NEW c \in Call, TakeCommand(c) \/ Complete(c) PROVE DrainInv'
  <2>1. CASE RefuseSubmit(c)
    BY <2>1, DrainStop DEF RefuseSubmit, Recv, Looping, eventVars
  <2>2. CASE SkipCancelled(c) \/ RejectExpired(c) \/ Submit(c) \/ Complete(c)
    BY <2>2, DrainFrame DEF SkipCancelled, RejectExpired, Submit, Complete, ownerVars, taskVars
  <2>3. QED
    BY <1>1, <2>1, <2>2 DEF TakeCommand
<1>2. ASSUME NEW m \in Arrival, ReserveArrival(m) PROVE DrainInv'
  BY <1>2 DEF ReserveArrival, Looping, DrainInv, ownerVars, taskVars
<1>3. ASSUME NEW m \in Arrival, RefuseArrival(m) PROVE DrainInv'
  BY <1>3, DrainStop DEF RefuseArrival, Looping, eventVars
<1>4. ASSUME NEW r \in Result, Stop(r) PROVE DrainInv'
  BY <1>4, DrainStop DEF Stop, Looping, eventVars
<1>5. ASSUME NEW c \in Call, NEW r \in {"receipt", "error"}, Respond(c, r) PROVE DrainInv'
  BY <1>5, DrainFrame DEF Respond, ownerVars, taskVars
<1>6. ASSUME NEW m \in Arrival, EnqueueArrival(m) PROVE DrainInv'
  <2>1. /\ task = "running" /\ eventsOpen /\ owner # "gone" /\ ended = "no"
        /\ UNCHANGED <<eventsOpen, received, ownerVars, taskVars, terminal>>
        /\ events' = Append(events, m) /\ arrived' = Append(arrived, m) /\ arriving' = {}
    BY <1>6 DEF EnqueueArrival, DrainInv
  <2>2. arrived' = received' \o events'
    <3>1. Append(received \o events, m) = received \o Append(events, m)
      <4>1. events \in Seq(Arrival) /\ received \in Seq(Arrival)
        BY DEF SessionTypeOK
      <4>2. QED
        BY <4>1
    <3>2. QED
      BY <2>1, <3>1 DEF DrainInv
  <2>3. QED
    BY <2>1, <2>2 DEF DrainInv, ownerVars, taskVars
<1>7. ASSUME NEW m \in Arrival, LoseArrival(m) PROVE DrainInv'
  <2>1. task = "running"
    BY <1>7 DEF LoseArrival, DrainInv
  <2>2. QED
    BY <1>7, <2>1, DrainStop DEF LoseArrival
<1>8. QED
  BY <1>1, <1>2, <1>3, <1>4, <1>5, <1>6, <1>7
  DEF DriverStep, Continue, TakeAbort, Abandon, Result

LEMMA DrainUnwind ==
  ASSUME SessionTypeOK, DrainInv, Unwind
  PROVE  DrainInv'
<1>1. ASSUME NEW c \in Call, DropPending(c) \/ DrainCommand(c) PROVE DrainInv'
  BY <1>1, DrainFrame DEF DropPending, DrainCommand, ownerVars, taskVars
<1>2. CASE CloseCommands
  BY <1>2, DrainFrame DEF CloseCommands, ownerVars, taskVars
<1>3. CASE CloseEvents
  BY <1>3 DEF CloseEvents, DrainInv, ownerVars, taskVars
<1>4. CASE Publish \/ Guard \/ GuardPublish
  BY <1>4 DEF Publish, Guard, GuardPublish, DrainInv, ownerVars, eventVars
<1>5. QED
  BY <1>1, <1>2, <1>3, <1>4 DEF Unwind

LEMMA DrainOwner ==
  ASSUME SessionTypeOK, DrainInv, OwnerStep
  PROVE  DrainInv'
<1>1. ASSUME NEW m \in Arrival, Next_Message(m) PROVE DrainInv'
  <2>1. /\ owner = "using" /\ events # <<>> /\ m = Head(events) /\ ended = "no"
        /\ received' = Append(received, m) /\ events' = Tail(events)
        /\ UNCHANGED <<arriving, eventsOpen, arrived, ownerVars, taskVars, terminal>>
    BY <1>1 DEF Next_Message, DrainInv
  <2>2. received \o events = Append(received, Head(events)) \o Tail(events)
    <3>1. events \in Seq(Arrival) /\ received \in Seq(Arrival)
      BY DEF SessionTypeOK
    <3>2. QED
      BY <2>1, <3>1
  <2>3. arrived' = received' \o events'
    BY <2>1, <2>2 DEF DrainInv
  <2>4. QED
    BY <2>1, <2>3 DEF DrainInv, ownerVars, taskVars
<1>2. ASSUME NEW m \in Arrival, DiscardEvent(m) PROVE DrainInv'
  BY <1>2 DEF DiscardEvent, DrainInv, ownerVars, taskVars
<1>3. CASE Next_End
  <2>1. /\ owner = "using" /\ ~eventsOpen /\ events = <<>>
        /\ UNCHANGED <<eventVars, owner, closeResult, taskVars, terminal>>
    BY <1>3 DEF Next_End
  <2>2. received = arrived
    <3>1. received \in Seq(Arrival) /\ arrived = received \o <<>>
      BY <2>1 DEF SessionTypeOK, DrainInv
    <3>2. QED
      BY <3>1
  <2>3. QED
    BY <2>1, <2>2 DEF DrainInv, eventVars, taskVars
<1>4. CASE Close \/ CloseTimeout \/ CloseAbort \/ Reap \/ DropSession \/ DropAbort \/ DropReaping
  BY <1>4 DEF Close, CloseTimeout, CloseAbort, Reap, DropSession, DropAbort, DropReaping,
              DrainInv, eventVars, taskVars
<1>5. CASE CloseJoined
  BY <1>5 DEF CloseJoined, DrainInv, eventVars, taskVars
<1>6. QED
  BY <1>1, <1>2, <1>3, <1>4, <1>5 DEF OwnerStep

\* Whoever owns the session hears of its end after every message that arrived, in
\* order, and a graceful receipt of close is what the driver returned.
THEOREM EndsTrue == Spec => []EndsAreTrue
<1>1. Init => DrainInv
  BY DEF Init, DrainInv
<1>2. SessionTypeOK /\ DrainInv /\ [Next]_vars => DrainInv'
  <2>1. CASE CallerStep
    BY <2>1, DrainFrame DEF CallerStep, SendStep, Enter, RefuseClosed, RefuseInput, Reserve,
       RefuseAdmission, Enqueue, RefuseCommand, TakeResponse, LoseResponse, FailUnknown,
       Cancel, Expire, ownerVars, taskVars
  <2>2. CASE UNCHANGED vars
    BY <2>2, DrainFrame DEF vars, ownerVars, taskVars
  <2>3. QED
    BY <2>1, <2>2, DrainDriver, DrainUnwind, DrainOwner DEF Next, Terminating
<1>3. DrainInv => EndsAreTrue
  BY DEF DrainInv, EndsAreTrue, EndAfterDrain, CloseReceiptIsTheDrivers
<1>4. TypeOK => SessionTypeOK
  BY DEF TypeOK
<1>5. QED
  BY <1>1, <1>2, <1>3, <1>4, TypeCorrect, PTL DEF Spec
=============================================================================
