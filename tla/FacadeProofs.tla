---------------------------- MODULE FacadeProofs ----------------------------
(***************************************************************************)
(* What Facade guarantees for any number of cursors, callers and frames    *)
(* and any capacity of the session.                                        *)
(***************************************************************************)
EXTENDS Facade, FiniteSetTheorems, TLAPS

(***************************************************************************)
(* Types.                                                                  *)
(***************************************************************************)

\* A frame that a read came to is one that the peer sent.
FramesAreReal == \A r \in Readers : read[r].outcome.is = "frame" => read[r].outcome.frame \in 1 .. MaxFrames

FacadeTypeInv == FacadeTypeOK /\ FramesAreReal

\* The ends of a sequence that is not empty.
LEMMA HeadAndTail ==
  ASSUME NEW S, NEW s \in Seq(S), s # <<>>
  PROVE  Head(s) \in S /\ Tail(s) \in Seq(S)
OBVIOUS

LEMMA ElementType ==
  ASSUME NEW S, NEW s \in Seq(S), NEW e \in ToSet(s)
  PROVE  e \in S
<1>1. PICK i \in 1 .. Len(s) : s[i] = e
  BY DEF ToSet
<1>2. QED
  BY <1>1

\* What a poll comes to is an outcome, and a frame only if one is queued.
LEMMA ArrivesType ==
  ASSUME FacadeTypeOK, NEW r \in Readers
  PROVE  /\ Arrives(r) \in Outcomes
         /\ Arrives(r).is = "frame" => queue # <<>> /\ Arrives(r).frame \in 1 .. MaxFrames
<1>1. queue # <<>> => Head(queue) \in 1 .. MaxFrames
  <2>1. queue \in Seq(1 .. MaxFrames)
    BY DEF FacadeTypeOK
  <2>2. QED
    BY <2>1, HeadAndTail
<1>2. MaxFrames \in Nat
  BY FacadeAssumption
<1>3. QED
  BY <1>1, <1>2 DEF Arrives, Outcome, Value, None, Outcomes

\* A reader's call changes as a whole.
LEMMA CallType ==
  ASSUME FacadeTypeInv, NEW r \in Readers, NEW p \in {"none", "called", "waiting", "settled"}, NEW o \in Outcomes,
         o.is = "frame" => o.frame \in 1 .. MaxFrames,
         read' = [read EXCEPT ![r] = Call(p, o)]
  PROVE  /\ read' \in [Readers -> [phase : {"none", "called", "waiting", "settled"}, outcome : Outcomes]]
         /\ FramesAreReal'
         /\ read'[r].phase = p /\ read'[r].outcome = o
         /\ \A s \in Readers \ {r} : read'[s] = read[s]
<1>1. Call(p, o) \in [phase : {"none", "called", "waiting", "settled"}, outcome : Outcomes]
  BY DEF Call
<1>2. read \in [Readers -> [phase : {"none", "called", "waiting", "settled"}, outcome : Outcomes]]
  BY DEF FacadeTypeInv, FacadeTypeOK
<1>3. read'[r] = Call(p, o) /\ \A s \in Readers \ {r} : read'[s] = read[s]
  BY <1>2
<1>4. read' \in [Readers -> [phase : {"none", "called", "waiting", "settled"}, outcome : Outcomes]]
  BY <1>1, <1>2
<1>5. FramesAreReal'
  BY <1>3 DEF FacadeTypeInv, FramesAreReal, Call
<1>6. QED
  BY <1>3, <1>4, <1>5 DEF Call

\* The outcomes that carry no frame.
LEMMA NamedOutcomes ==
  /\ None \in Outcomes /\ None.is = "none"
  /\ \A o \in {"end", "failed", "cancelled", "refused", "gone"} : Outcome(o) \in Outcomes /\ Outcome(o).is = o
BY FacadeAssumption DEF None, Outcome, Outcomes

\* One more frame.
LEMMA AppendType ==
  ASSUME NEW S, NEW s \in Seq(S), NEW e \in S
  PROVE  Append(s, e) \in Seq(S)
OBVIOUS

LEMMA TypeStep == FacadeTypeInv /\ [Next]_vars => FacadeTypeInv'
<1> SUFFICES ASSUME FacadeTypeInv, [Next]_vars PROVE FacadeTypeInv'
  OBVIOUS
<1>0. FacadeTypeOK /\ FramesAreReal
  BY DEF FacadeTypeInv
<1>1. ASSUME NEW r \in Readers, Begin(r),
             UNCHANGED <<sessionVars, callVars, cursorVars, cancelled, receiving, delivered, ended>>
      PROVE  FacadeTypeInv'
  <2>1. PICK p \in {"called", "settled"}, o \in {None, Outcome("gone")} : read' = [read EXCEPT ![r] = Call(p, o)]
    BY <1>1 DEF Begin
  <2>2. o \in Outcomes /\ o.is # "frame"
    BY NamedOutcomes
  <2>3. /\ read' \in [Readers -> [phase : {"none", "called", "waiting", "settled"}, outcome : Outcomes]]
        /\ FramesAreReal'
    BY <2>1, <2>2, CallType
  <2>4. QED
    BY <1>0, <1>1, <2>3 DEF FacadeTypeInv, FacadeTypeOK, sessionVars, callVars, cursorVars
<1>2. ASSUME NEW r \in Readers, DirectNext(r) PROVE FacadeTypeInv'
  BY <1>1, <1>2 DEF DirectNext
<1>3. ASSUME NEW c \in Cursors, CursorNext(c) PROVE FacadeTypeInv'
  BY <1>1, <1>3 DEF CursorNext, Readers
<1>4. ASSUME NEW r \in Readers, Refused(r) PROVE FacadeTypeInv'
  <2>1. Outcome("refused") \in Outcomes /\ Outcome("refused").is # "frame"
    BY NamedOutcomes
  <2>2. /\ read' \in [Readers -> [phase : {"none", "called", "waiting", "settled"}, outcome : Outcomes]]
        /\ FramesAreReal'
    BY <1>4, <2>1, CallType DEF Refused
  <2>3. QED
    BY <1>0, <1>4, <2>2 DEF FacadeTypeInv, FacadeTypeOK, Refused, sessionVars, callVars, cursorVars
<1>5. ASSUME NEW r \in Readers, Poll(r) PROVE FacadeTypeInv'
  <2>1. PICK p \in {"waiting", "settled"}, o \in {None, Arrives(r)} : read' = [read EXCEPT ![r] = Call(p, o)]
    BY <1>5 DEF Poll
  <2>2. o \in Outcomes /\ (o.is = "frame" => o.frame \in 1 .. MaxFrames)
    BY <1>0, NamedOutcomes, ArrivesType
  <2>3. /\ read' \in [Readers -> [phase : {"none", "called", "waiting", "settled"}, outcome : Outcomes]]
        /\ FramesAreReal'
    BY <2>1, <2>2, CallType
  <2>4. queue' \in Seq(1 .. MaxFrames)
    <3>1. queue \in Seq(1 .. MaxFrames)
      BY <1>0 DEF FacadeTypeOK
    <3>2. CASE Arrives(r).is = "frame"
      BY <1>0, <1>5, <3>1, <3>2, ArrivesType, HeadAndTail DEF Poll
    <3>3. CASE Arrives(r).is # "frame"
      BY <1>5, <3>1, <3>3 DEF Poll
    <3>4. QED
      BY <3>2, <3>3
  <2>5. receiving' \in BOOLEAN
    BY <1>5 DEF Poll
  <2>6. QED
    BY <1>0, <1>5, <2>3, <2>4, <2>5 DEF FacadeTypeInv, FacadeTypeOK, Poll, callVars, cursorVars
<1>6. ASSUME NEW r \in Readers, Settle(r) PROVE FacadeTypeInv'
  <2>1. /\ read' \in [Readers -> [phase : {"none", "called", "waiting", "settled"}, outcome : Outcomes]]
        /\ FramesAreReal'
    BY <1>6, NamedOutcomes, CallType DEF Settle, Rest
  <2>2. delivered' \in Seq(1 .. MaxFrames)
    <3>1. delivered \in Seq(1 .. MaxFrames)
      BY <1>0 DEF FacadeTypeOK
    <3>2. CASE read[r].outcome.is = "frame"
      <4>1. read[r].outcome.frame \in 1 .. MaxFrames
        BY <1>0, <3>2 DEF FramesAreReal
      <4>2. delivered' = Append(delivered, read[r].outcome.frame)
        BY <1>6, <3>2 DEF Settle
      <4>3. QED
        BY <3>1, <4>1, <4>2, AppendType
    <3>3. CASE read[r].outcome.is # "frame"
      BY <1>6, <3>1, <3>3 DEF Settle
    <3>4. QED
      BY <3>2, <3>3
  <2>3. open' \subseteq Cursors /\ ended' \in BOOLEAN /\ cancelled' \subseteq Readers
    BY <1>0, <1>6 DEF Settle, FacadeTypeOK
  <2>4. QED
    BY <1>0, <1>6, <2>1, <2>2, <2>3 DEF FacadeTypeInv, FacadeTypeOK, Settle, sessionVars, callVars
<1>7. ASSUME NEW who \in {"close", "owner"}, Disposed(who)
      PROVE  /\ state' \in {"open", "closing", "closed", "failed"} /\ arrived' = arrived
             /\ queue' \in Seq(1 .. MaxFrames) /\ discarded' \subseteq 1 .. MaxFrames
             /\ disposer' \in {"nobody", "close", "owner"}
  <2>1. queue \in Seq(1 .. MaxFrames) /\ discarded \subseteq 1 .. MaxFrames
    BY <1>0 DEF FacadeTypeOK
  <2>2. ASSUME NEW f \in ToSet(queue) PROVE f \in 1 .. MaxFrames
    BY <2>1, <2>2, ElementType
  <2>3. queue' \in Seq(1 .. MaxFrames)
    <3>1. queue' = <<>>
      BY <1>7 DEF Disposed
    <3>2. QED
      BY <3>1
  <2>5. discarded' \subseteq 1 .. MaxFrames
    BY <1>7, <2>1, <2>2 DEF Disposed
  <2>4. QED
    BY <1>0, <1>7, <2>3, <2>5 DEF Disposed, FacadeTypeOK
<1>8. ASSUME read' = read, cancelled' \subseteq Readers, UNCHANGED <<receiving, delivered, ended>>,
             UNCHANGED callVars \/ (handle' \in {"taken", "disposed"} /\ closing' \in {"no", "called", "waiting", "done"}),
             UNCHANGED cursorVars \/ (open' \subseteq Cursors /\ returning' \subseteq Cursors),
             UNCHANGED sessionVars \/ \E who \in {"close", "owner"} : Disposed(who)
      PROVE  FacadeTypeInv'
  <2>1. FramesAreReal'
    BY <1>0, <1>8 DEF FramesAreReal
  <2>2. /\ state' \in {"open", "closing", "closed", "failed"} /\ arrived' = arrived
        /\ queue' \in Seq(1 .. MaxFrames) /\ discarded' \subseteq 1 .. MaxFrames
        /\ disposer' \in {"nobody", "close", "owner"}
    BY <1>0, <1>7, <1>8 DEF sessionVars, FacadeTypeOK
  <2>3. /\ handle' \in {"live", "taken", "disposed"} /\ closing' \in {"no", "called", "waiting", "done"}
        /\ open' \subseteq Cursors /\ returning' \subseteq Cursors
    BY <1>0, <1>8 DEF callVars, cursorVars, FacadeTypeOK
  <2>4. QED
    BY <1>0, <1>8, <2>1, <2>2, <2>3 DEF FacadeTypeInv, FacadeTypeOK
<1>9. ASSUME NEW r \in Readers, Abort(r) PROVE FacadeTypeInv'
  BY <1>0, <1>8, <1>9 DEF Abort, FacadeTypeOK
<1>10. ASSUME NEW c \in Cursors, CursorReturn(c) \/ ReturnSettles(c) PROVE FacadeTypeInv'
  <2>1. cancelled' \subseteq Readers /\ open' \subseteq Cursors /\ returning' \subseteq Cursors
    BY <1>0, <1>10 DEF CursorReturn, ReturnSettles, FacadeTypeOK, Readers
  <2>2. QED
    BY <1>8, <1>10, <2>1 DEF CursorReturn, ReturnSettles
<1>11. ASSUME Dispose \/ Close PROVE FacadeTypeInv'
  BY <1>0, <1>8, <1>11 DEF Dispose, Close, FacadeTypeOK, callVars
<1>12. ASSUME CloseEnds PROVE FacadeTypeInv'
  BY <1>0, <1>8, <1>12 DEF CloseEnds, FacadeTypeOK
<1>13. ASSUME ClosePolled \/ SocketEnds PROVE FacadeTypeInv'
  <2>1. FramesAreReal'
    BY <1>0, <1>13 DEF FramesAreReal, ClosePolled, SocketEnds
  <2>2. QED
    BY <1>0, <1>13, <2>1 DEF FacadeTypeInv, FacadeTypeOK, ClosePolled, SocketEnds, callVars, cursorVars
<1>14. ASSUME FrameArrives PROVE FacadeTypeInv'
  <2>1. FramesAreReal'
    BY <1>0, <1>14 DEF FramesAreReal, FrameArrives
  <2>2. queue \in Seq(1 .. MaxFrames) /\ arrived \in 0 .. MaxFrames /\ arrived < MaxFrames /\ MaxFrames \in Nat
    BY <1>0, <1>14, FacadeAssumption DEF FrameArrives, FacadeTypeOK
  <2>3. arrived + 1 \in 1 .. MaxFrames /\ arrived + 1 \in 0 .. MaxFrames
    BY <2>2
  <2>4. queue' \in Seq(1 .. MaxFrames) /\ arrived' \in 0 .. MaxFrames
    BY <1>14, <2>2, <2>3, AppendType DEF FrameArrives
  <2>5. state' \in {"open", "closing", "closed", "failed"}
    BY <1>0, <1>14 DEF FrameArrives, FacadeTypeOK
  <2>6. QED
    BY <1>0, <1>14, <2>1, <2>4, <2>5 DEF FacadeTypeInv, FacadeTypeOK, FrameArrives, callVars, cursorVars
<1>15. CASE UNCHANGED vars
  <2>1. FramesAreReal'
    BY <1>0, <1>15 DEF FramesAreReal, vars
  <2>2. QED
    BY <1>0, <1>15, <2>1 DEF FacadeTypeInv, FacadeTypeOK, vars
<1>16. QED
  BY <1>2, <1>3, <1>4, <1>5, <1>6, <1>9, <1>10, <1>11, <1>12, <1>13, <1>14, <1>15 DEF Next

LEMMA TypeInit == Init => FacadeTypeInv
<1>1. Rest \in [phase : {"none", "called", "waiting", "settled"}, outcome : Outcomes] /\ Rest.outcome.is = "none"
  BY NamedOutcomes DEF Rest, Call
<1>2. ASSUME Init PROVE FramesAreReal
  BY <1>1, <1>2 DEF Init, FramesAreReal
<1>3. ASSUME Init PROVE FacadeTypeOK
  <2>1. queue \in Seq(1 .. MaxFrames) /\ delivered \in Seq(1 .. MaxFrames)
    <3>1. queue = <<>> /\ delivered = <<>>
      BY <1>3 DEF Init
    <3>2. QED
      BY <3>1
  <2>2. read \in [Readers -> [phase : {"none", "called", "waiting", "settled"}, outcome : Outcomes]]
    BY <1>1, <1>3 DEF Init
  <2>3. arrived \in 0 .. MaxFrames
    BY <1>3, FacadeAssumption DEF Init
  <2>4. QED
    BY <1>3, <2>1, <2>2, <2>3 DEF Init, FacadeTypeOK
<1>4. QED
  BY <1>2, <1>3 DEF FacadeTypeInv

LEMMA TypeInvariant == Spec => []FacadeTypeInv
BY TypeInit, TypeStep, PTL DEF Spec

\* Every variable of the facade keeps its type.
THEOREM TypeCorrect == Spec => []FacadeTypeOK
<1>1. FacadeTypeInv => FacadeTypeOK
  BY DEF FacadeTypeInv
<1>2. QED
  BY <1>1, TypeInvariant, PTL

(***************************************************************************)
(* The single slot for a read that waits.                                  *)
(***************************************************************************)

\* The slot changes with the call of one reader only: what the two parts of
\* SlotIsReleased need of a step that changes no call.
LEMMA SlotKept ==
  ASSUME SlotIsReleased, UNCHANGED <<receiving, read>>,
         \A c \in Cursors : c \notin open' /\ c \notin returning'
           => (c \notin open /\ c \notin returning) \/ read[c].phase = "none"
  PROVE  SlotIsReleased'
<1>1. SlotHasOneWaiter'
  BY DEF SlotIsReleased, SlotHasOneWaiter
<1>2. ReturnReleases'
  BY DEF SlotIsReleased, ReturnReleases
<1>3. QED
  BY <1>1, <1>2 DEF SlotIsReleased

LEMMA SlotStep == FacadeTypeInv /\ SlotIsReleased /\ [Next]_vars => SlotIsReleased'
<1> SUFFICES ASSUME FacadeTypeInv, SlotIsReleased, [Next]_vars PROVE SlotIsReleased'
  OBVIOUS
<1>0. FacadeTypeOK /\ SlotHasOneWaiter /\ ReturnReleases
  BY DEF SlotIsReleased, FacadeTypeInv
<1>a. read \in [Readers -> [phase : {"none", "called", "waiting", "settled"}, outcome : Outcomes]]
  BY <1>0 DEF FacadeTypeOK
<1>b. Cursors \subseteq Readers
  BY DEF Readers
<1>1. ASSUME NEW r \in Readers, NEW p \in {"called", "settled", "none"}, NEW o,
             read' = [read EXCEPT ![r] = Call(p, o)], read[r].phase # "waiting", UNCHANGED receiving
      PROVE  SlotHasOneWaiter'
  <2>1. read'[r].phase = p /\ \A s \in Readers \ {r} : read'[s] = read[s]
    BY <1>1, <1>a DEF Call
  <2>2. \A s \in Readers : read'[s].phase = "waiting" <=> read[s].phase = "waiting"
    BY <1>1, <2>1
  <2>3. QED
    BY <1>0, <1>1, <2>2 DEF SlotHasOneWaiter
<1>2. ASSUME NEW r \in Readers, DirectNext(r) \/ CursorNext(r) PROVE SlotIsReleased'
  <2>1. PICK p \in {"called", "settled"}, o \in {None, Outcome("gone")} : read' = [read EXCEPT ![r] = Call(p, o)]
    BY <1>2 DEF Begin, DirectNext, CursorNext
  <2>2. read[r].phase = "none" /\ UNCHANGED receiving
    BY <1>2 DEF DirectNext, CursorNext, Begin
  <2>3. SlotHasOneWaiter'
    BY <1>1, <2>1, <2>2
  <2>4. r \in Direct \/ r \in open
    BY <1>2 DEF DirectNext, CursorNext
  <2>5. open' = open /\ returning' = returning
    BY <1>2 DEF DirectNext, CursorNext, cursorVars
  <2>6. \A s \in Readers \ {r} : read'[s] = read[s]
    BY <1>a, <2>1
  <2>7. ReturnReleases'
    BY <1>0, <1>b, <2>4, <2>5, <2>6, FacadeAssumption DEF ReturnReleases
  <2>8. QED
    BY <2>3, <2>7 DEF SlotIsReleased
<1>3. ASSUME NEW r \in Readers, Refused(r) PROVE SlotIsReleased'
  <2>1. SlotHasOneWaiter'
    BY <1>1, <1>3 DEF Refused
  <2>2. read[r].phase = "called" /\ (\A s \in Readers \ {r} : read'[s] = read[s]) /\ open' = open /\ returning' = returning
    BY <1>3, <1>a DEF Refused, cursorVars
  <2>3. ReturnReleases'
    BY <1>0, <1>b, <2>2 DEF ReturnReleases
  <2>4. QED
    BY <2>1, <2>3 DEF SlotIsReleased
<1>4. ASSUME NEW r \in Readers, Poll(r) PROVE SlotIsReleased'
  <2>1. PICK p \in {"waiting", "settled"}, o \in {None, Arrives(r)} :
          /\ read' = [read EXCEPT ![r] = Call(p, o)]
          /\ receiving' = (p = "waiting")
    BY <1>4 DEF Poll
  <2>2. read'[r].phase = p /\ \A s \in Readers \ {r} : read'[s] = read[s]
    BY <1>a, <2>1 DEF Call
  <2>3. \A s \in Readers \ {r} : read[s].phase # "waiting"
    <3>1. CASE ~receiving
      BY <1>0, <3>1 DEF SlotHasOneWaiter
    <3>2. CASE read[r].phase = "waiting"
      BY <1>0, <3>2 DEF SlotHasOneWaiter
    <3>3. QED
      BY <1>4, <3>1, <3>2 DEF Poll
  <2>4. SlotHasOneWaiter'
    BY <2>1, <2>2, <2>3 DEF SlotHasOneWaiter
  <2>5. read[r].phase \in {"called", "waiting"} /\ open' = open /\ returning' = returning
    BY <1>4 DEF Poll, cursorVars
  <2>6. ReturnReleases'
    BY <1>0, <1>b, <2>2, <2>5 DEF ReturnReleases
  <2>7. QED
    BY <2>4, <2>6 DEF SlotIsReleased
<1>5. ASSUME NEW r \in Readers, Settle(r) PROVE SlotIsReleased'
  <2>1. SlotHasOneWaiter'
    BY <1>1, <1>5 DEF Settle, Rest
  <2>2. read'[r].phase = "none" /\ \A s \in Readers \ {r} : read'[s] = read[s]
    BY <1>5, <1>a DEF Settle, Rest, Call
  <2>3. returning' = returning /\ \A c \in Cursors \ {r} : c \in open' <=> c \in open
    BY <1>5 DEF Settle
  <2>4. ReturnReleases'
    BY <1>0, <1>b, <2>2, <2>3 DEF ReturnReleases
  <2>5. QED
    BY <2>1, <2>4 DEF SlotIsReleased
<1>6. ASSUME NEW c \in Cursors, CursorReturn(c) PROVE SlotIsReleased'
  BY <1>6, SlotKept DEF CursorReturn
<1>7. ASSUME NEW c \in Cursors, ReturnSettles(c) PROVE SlotIsReleased'
  BY <1>7, SlotKept DEF ReturnSettles
<1>8. ASSUME NEW r \in Readers, Abort(r) PROVE SlotIsReleased'
  BY <1>8, SlotKept DEF Abort, cursorVars
<1>9. ASSUME Dispose \/ Close \/ ClosePolled \/ CloseEnds \/ FrameArrives \/ SocketEnds PROVE SlotIsReleased'
  BY <1>9, SlotKept DEF Dispose, Close, ClosePolled, CloseEnds, FrameArrives, SocketEnds, cursorVars
<1>10. CASE UNCHANGED vars
  BY <1>10, SlotKept DEF vars
<1>11. QED
  BY <1>b, <1>2, <1>3, <1>4, <1>5, <1>6, <1>7, <1>8, <1>9, <1>10 DEF Next

\* The one slot for a waiting read is taken by a read that waits and by nothing
\* that a cursor left behind (receiving in rust/host/src/lib.rs, return in
\* index.ts), however many cursors compete for it.
THEOREM SlotReleased == Spec => []SlotIsReleased
<1>1. Init => SlotIsReleased
  BY DEF Init, SlotIsReleased, SlotHasOneWaiter, ReturnReleases, Rest, Call, Readers
<1>2. QED
  BY <1>1, SlotStep, TypeInvariant, PTL DEF Spec

(***************************************************************************)
(* The end of the stream.                                                  *)
(***************************************************************************)

\* Who was told the end, or will be by the outcome of its read.
SaysEnd == ended \/ \E r \in Readers : read[r].outcome.is = "end"

\* The handle, close and disposal keep step: the session is disposed of once, by
\* its owner or by the close that took it.
OneDisposer ==
  /\ \/ disposer = "nobody" /\ closing # "done" /\ discarded = {}
     \/ disposer = "owner" /\ closing = "no" /\ handle = "disposed"
     \/ disposer = "close" /\ closing = "done" /\ handle = "disposed"
  /\ handle = "live" => closing = "no" /\ disposer = "nobody"
  /\ disposer # "nobody" => state \in {"closed", "failed"}

\* A close that drops frames leaves no reader that could be told an end.
DroppedUnheard ==
  discarded # {} /\ disposer = "close" =>
    \A r \in Readers : read[r].phase \in {"none", "settled"}

EndInv ==
  /\ OneDisposer
  /\ DroppedUnheard
  /\ SaysEnd => state = "closed" /\ queue = <<>> /\ (discarded = {} \/ disposer = "owner")

LEMMA EndStep == FacadeTypeInv /\ EndInv /\ [Next]_vars => EndInv'
<1> SUFFICES ASSUME FacadeTypeInv, EndInv, [Next]_vars PROVE EndInv'
  OBVIOUS
<1>0. /\ OneDisposer /\ DroppedUnheard
      /\ SaysEnd => state = "closed" /\ queue = <<>> /\ (discarded = {} \/ disposer = "owner")
  BY DEF EndInv
<1>a. read \in [Readers -> [phase : {"none", "called", "waiting", "settled"}, outcome : Outcomes]]
  BY DEF FacadeTypeInv, FacadeTypeOK
<1>1. ASSUME UNCHANGED <<read, ended, sessionVars, callVars>> PROVE EndInv'
  BY <1>0, <1>1 DEF EndInv, OneDisposer, DroppedUnheard, SaysEnd, sessionVars, callVars
<1>2. ASSUME NEW r \in Readers, DirectNext(r) \/ CursorNext(r) PROVE EndInv'
  <2>1. PICK p \in {"called", "settled"}, o \in {None, Outcome("gone")} :
          /\ read' = [read EXCEPT ![r] = Call(p, o)]
          /\ p = "called" => handle = "live"
    BY <1>2 DEF Begin, DirectNext, CursorNext
  <2>2. UNCHANGED <<state, arrived, queue, discarded, disposer, handle, closing, ended>>
    BY <1>2 DEF DirectNext, CursorNext, sessionVars, callVars
  <2>3. read'[r].phase = p /\ read'[r].outcome.is # "end" /\ \A s \in Readers \ {r} : read'[s] = read[s]
    BY <1>a, <2>1, NamedOutcomes DEF Call
  <2>4. OneDisposer'
    BY <1>0, <2>2 DEF OneDisposer
  <2>5. DroppedUnheard'
    BY <1>0, <2>1, <2>2, <2>3 DEF DroppedUnheard, OneDisposer
  <2>6. SaysEnd' => SaysEnd
    BY <2>2, <2>3 DEF SaysEnd
  <2>7. QED
    BY <1>0, <2>2, <2>4, <2>5, <2>6 DEF EndInv
<1>3. ASSUME NEW r \in Readers, Refused(r) PROVE EndInv'
  <2>1. UNCHANGED <<state, arrived, queue, discarded, disposer, handle, closing, ended>>
    BY <1>3 DEF Refused, sessionVars, callVars
  <2>2. read'[r].phase = "settled" /\ read'[r].outcome.is # "end" /\ \A s \in Readers \ {r} : read'[s] = read[s]
    BY <1>3, <1>a, NamedOutcomes DEF Refused, Call
  <2>3. OneDisposer' /\ DroppedUnheard'
    BY <1>0, <2>1, <2>2 DEF OneDisposer, DroppedUnheard
  <2>4. SaysEnd' => SaysEnd
    BY <2>1, <2>2 DEF SaysEnd
  <2>5. QED
    BY <1>0, <2>1, <2>3, <2>4 DEF EndInv
<1>4. ASSUME NEW r \in Readers, Poll(r) PROVE EndInv'
  <2>1. UNCHANGED <<state, arrived, discarded, disposer, handle, closing, ended>>
    BY <1>4 DEF Poll, callVars
  <2>2. read[r].phase \in {"called", "waiting"}
    BY <1>4 DEF Poll
  <2>3. discarded = {} \/ disposer # "close"
    BY <1>0, <2>2 DEF DroppedUnheard
  <2>4. OneDisposer' /\ DroppedUnheard'
    BY <1>0, <2>1, <2>3 DEF OneDisposer, DroppedUnheard
  <2>5. PICK p \in {"waiting", "settled"}, o \in {None, Arrives(r)} : read' = [read EXCEPT ![r] = Call(p, o)]
    BY <1>4 DEF Poll
  <2>6. read'[r].outcome = o /\ \A s \in Readers \ {r} : read'[s] = read[s]
    BY <1>a, <2>5 DEF Call
  <2>7. queue = <<>> => queue' = <<>>
    <3>1. queue = <<>> => Arrives(r).is # "frame"
      BY ArrivesType DEF FacadeTypeInv
    <3>2. QED
      BY <1>4, <3>1 DEF Poll
  <2>8. CASE SaysEnd
    BY <1>0, <2>1, <2>4, <2>7, <2>8 DEF EndInv
  <2>9. CASE ~SaysEnd /\ SaysEnd'
    <3>1. Arrives(r).is = "end"
      BY <2>1, <2>6, <2>9, NamedOutcomes DEF SaysEnd
    <3>2. queue = <<>> /\ state = "closed"
      BY <3>1 DEF Arrives, Outcome, Value, None
    <3>3. QED
      BY <1>0, <2>1, <2>3, <2>4, <2>7, <3>2 DEF EndInv, OneDisposer
  <2>10. QED
    BY <2>4, <2>8, <2>9 DEF EndInv
<1>5. ASSUME NEW r \in Readers, Settle(r) PROVE EndInv'
  <2>1. UNCHANGED <<state, arrived, queue, discarded, disposer, handle, closing>>
    BY <1>5 DEF Settle, sessionVars, callVars
  <2>2. read'[r].phase = "none" /\ read'[r].outcome.is = "none" /\ \A s \in Readers \ {r} : read'[s] = read[s]
    BY <1>5, <1>a, NamedOutcomes DEF Settle, Rest, Call
  <2>3. OneDisposer' /\ DroppedUnheard'
    BY <1>0, <2>1, <2>2 DEF OneDisposer, DroppedUnheard
  <2>4. SaysEnd' => SaysEnd
    <3>1. ended' => SaysEnd
      BY <1>5 DEF Settle, SaysEnd
    <3>2. QED
      BY <2>2, <3>1 DEF SaysEnd
  <2>5. QED
    BY <1>0, <2>1, <2>3, <2>4 DEF EndInv
<1>6. ASSUME Dispose PROVE EndInv'
  <2>1. UNCHANGED <<read, ended, closing>> /\ handle' = "disposed"
    BY <1>6 DEF Dispose
  <2>2. CASE handle = "live"
    <3>1. Disposed("owner") /\ closing = "no"
      BY <1>0, <1>6, <2>2 DEF Dispose, OneDisposer
    <3>2. disposer' = "owner" /\ state' \in {"closed", "failed"} /\ queue' = <<>> /\ (state = "closed" => state' = "closed")
      BY <3>1 DEF Disposed, Terminal
    <3>3. OneDisposer' /\ DroppedUnheard'
      BY <2>1, <3>1, <3>2 DEF OneDisposer, DroppedUnheard
    <3>4. SaysEnd' => SaysEnd
      BY <2>1 DEF SaysEnd
    <3>5. QED
      BY <1>0, <3>2, <3>3, <3>4 DEF EndInv
  <2>3. CASE handle # "live"
    <3>1. UNCHANGED <<state, queue, discarded, disposer>>
      BY <1>6, <2>3 DEF Dispose, sessionVars
    <3>2. OneDisposer' /\ DroppedUnheard'
      BY <1>0, <2>1, <2>3, <3>1 DEF OneDisposer, DroppedUnheard
    <3>3. SaysEnd' => SaysEnd
      BY <2>1 DEF SaysEnd
    <3>4. QED
      BY <1>0, <3>1, <3>2, <3>3 DEF EndInv
  <2>4. QED
    BY <2>2, <2>3
<1>7. ASSUME Close PROVE EndInv'
  BY <1>0, <1>7 DEF EndInv, OneDisposer, DroppedUnheard, SaysEnd, Close, sessionVars
<1>8. ASSUME ClosePolled PROVE EndInv'
  BY <1>0, <1>8 DEF EndInv, OneDisposer, DroppedUnheard, SaysEnd, ClosePolled
<1>9. ASSUME CloseEnds PROVE EndInv'
  <2>1. /\ closing = "waiting" /\ closing' = "done" /\ handle' = "disposed"
        /\ ReadsPolled /\ Disposed("close") /\ UNCHANGED <<read, ended>>
    BY <1>9 DEF CloseEnds
  <2>2. disposer = "nobody" /\ discarded = {}
    BY <1>0, <2>1 DEF OneDisposer
  <2>3. disposer' = "close" /\ state' \in {"closed", "failed"} /\ queue' = <<>>
        /\ (state = "closed" => state' = "closed") /\ discarded' = discarded \cup ToSet(queue)
    BY <2>1 DEF Disposed, Terminal
  <2>4. queue = <<>> => discarded' = {}
    BY <2>2, <2>3 DEF ToSet
  <2>5. OneDisposer'
    BY <2>1, <2>3 DEF OneDisposer
  <2>6. DroppedUnheard'
    <3>1. SUFFICES ASSUME discarded' # {} PROVE \A r \in Readers : read'[r].phase \in {"none", "settled"}
      BY DEF DroppedUnheard
    <3>2. \A r \in Readers : read[r].phase # "called" /\ read[r].phase # "waiting"
      BY <2>1, <2>4, <3>1 DEF ReadsPolled
    <3>3. QED
      BY <1>a, <2>1, <3>2
  <2>7. SaysEnd' => SaysEnd
    BY <2>1 DEF SaysEnd
  <2>8. QED
    BY <1>0, <2>3, <2>4, <2>5, <2>6, <2>7 DEF EndInv
<1>10. ASSUME FrameArrives \/ SocketEnds PROVE EndInv'
  <2>1. /\ state \notin {"closed", "failed"}
        /\ UNCHANGED <<discarded, disposer, handle, closing, read, ended>>
    BY <1>10 DEF FrameArrives, SocketEnds, Terminal, callVars
  <2>2. ~SaysEnd /\ disposer = "nobody"
    BY <1>0, <2>1 DEF OneDisposer
  <2>3. ~SaysEnd'
    BY <2>1, <2>2 DEF SaysEnd
  <2>4. OneDisposer' /\ DroppedUnheard'
    BY <1>0, <2>1, <2>2 DEF OneDisposer, DroppedUnheard
  <2>5. QED
    BY <2>3, <2>4 DEF EndInv
<1>11. ASSUME NEW c \in Cursors, CursorReturn(c) \/ ReturnSettles(c) PROVE EndInv'
  BY <1>1, <1>11 DEF CursorReturn, ReturnSettles, sessionVars, callVars
<1>12. ASSUME NEW r \in Readers, Abort(r) PROVE EndInv'
  BY <1>1, <1>12 DEF Abort
<1>13. CASE UNCHANGED vars
  BY <1>1, <1>13 DEF vars, sessionVars, callVars
<1>14. QED
  BY <1>2, <1>3, <1>4, <1>5, <1>6, <1>7, <1>8, <1>9, <1>10, <1>11, <1>12, <1>13 DEF Next, Readers

LEMMA EndInitially == Init => EndInv
<1>1. ASSUME Init PROVE ~SaysEnd
  BY <1>1, NamedOutcomes DEF Init, SaysEnd, Rest, Call
<1>2. QED
  BY <1>1 DEF Init, EndInv, OneDisposer, DroppedUnheard

\* A reader that is told the stream ended was not cut short (Session::next and
\* Driver::dispose, in every order with close and its deadline): no frame is
\* queued or was dropped, unless the owner itself disposed of the session.
THEOREM EndsAreTrueForReaders == Spec => []EndIsTrue
<1>1. EndInv => EndIsTrue
  BY DEF EndInv, SaysEnd, EndIsTrue
<1>2. QED
  BY <1>1, EndInitially, EndStep, TypeInvariant, PTL DEF Spec

(***************************************************************************)
(* Every frame is somewhere, and in one place.                             *)
(***************************************************************************)

\* The frames that a settled read holds until its promise runs.
Held == {read[r].outcome.frame : r \in InFlight}

\* FramesAccounted counts; what is inductive is where a frame can be. Neither
\* sequence repeats a frame, no two reads hold one, and the four places do not
\* overlap. Only a read that settled holds a frame, so that no poll loses one.
FrameInv ==
  /\ IsInjective(delivered) /\ IsInjective(queue)
  /\ \A r, s \in InFlight : read[r].outcome.frame = read[s].outcome.frame => r = s
  /\ \A r \in Readers : read[r].phase # "settled" => r \notin InFlight
  /\ ToSet(delivered) \cup ToSet(queue) \cup Held \cup discarded = 1 .. arrived
  /\ ToSet(delivered) \cap (ToSet(queue) \cup Held \cup discarded) = {}
  /\ ToSet(queue) \cap (Held \cup discarded) = {}
  /\ Held \cap discarded = {}

\* A frame joins the end of a sequence that does not have it.
LEMMA JoinsOnce ==
  ASSUME NEW S, NEW s \in Seq(S), NEW e \in S, IsInjective(s), e \notin ToSet(s)
  PROVE  IsInjective(Append(s, e)) /\ ToSet(Append(s, e)) = ToSet(s) \cup {e}
<1>1. /\ Len(Append(s, e)) = Len(s) + 1 /\ DOMAIN Append(s, e) = 1 .. Len(s) + 1
      /\ DOMAIN s = 1 .. Len(s) /\ Len(s) \in Nat
      /\ Append(s, e)[Len(s) + 1] = e /\ \A i \in 1 .. Len(s) : Append(s, e)[i] = s[i]
  OBVIOUS
<1>2. \A i \in 1 .. Len(s) : s[i] # e
  BY <1>1 DEF ToSet
<1>3. IsInjective(Append(s, e))
  BY <1>1, <1>2 DEF IsInjective
<1>4. ToSet(Append(s, e)) = ToSet(s) \cup {e}
  <2>1. ASSUME NEW x \in ToSet(Append(s, e)) PROVE x \in ToSet(s) \cup {e}
    BY <1>1, <2>1 DEF ToSet
  <2>2. ASSUME NEW x \in ToSet(s) PROVE x \in ToSet(Append(s, e))
    <3>1. PICK i \in 1 .. Len(s) : s[i] = x
      BY <1>1, <2>2 DEF ToSet
    <3>2. i \in DOMAIN Append(s, e) /\ Append(s, e)[i] = x
      BY <1>1, <3>1
    <3>3. QED
      BY <3>2 DEF ToSet
  <2>3. e \in ToSet(Append(s, e))
    BY <1>1 DEF ToSet
  <2>4. QED
    BY <2>1, <2>2, <2>3
<1>5. QED
  BY <1>3, <1>4

\* The frame at the head leaves it.
LEMMA LeavesOnce ==
  ASSUME NEW S, NEW s \in Seq(S), IsInjective(s), s # <<>>
  PROVE  /\ IsInjective(Tail(s)) /\ Head(s) \in ToSet(s)
         /\ ToSet(Tail(s)) = ToSet(s) \ {Head(s)}
<1>1. /\ Len(s) \in Nat \ {0} /\ DOMAIN s = 1 .. Len(s) /\ Head(s) = s[1]
      /\ DOMAIN Tail(s) = 1 .. (Len(s) - 1)
      /\ \A i \in 1 .. (Len(s) - 1) : Tail(s)[i] = s[i + 1]
  OBVIOUS
<1>2. IsInjective(Tail(s))
  BY <1>1 DEF IsInjective
<1>3. Head(s) \in ToSet(s)
  BY <1>1 DEF ToSet
<1>4. ASSUME NEW x \in ToSet(Tail(s)) PROVE x \in ToSet(s) \ {Head(s)}
  <2>1. PICK i \in 1 .. (Len(s) - 1) : s[i + 1] = x
    BY <1>1, <1>4 DEF ToSet
  <2>2. i + 1 \in 1 .. Len(s) /\ 1 \in 1 .. Len(s) /\ i + 1 # 1
    BY <1>1, <2>1
  <2>3. x \in ToSet(s) /\ x # s[1]
    BY <1>1, <2>1, <2>2 DEF ToSet, IsInjective
  <2>4. QED
    BY <1>1, <2>3
<1>5. ASSUME NEW x \in ToSet(s), x # Head(s) PROVE x \in ToSet(Tail(s))
  <2>1. PICK i \in 1 .. Len(s) : s[i] = x
    BY <1>1, <1>5 DEF ToSet
  <2>2. i # 1
    BY <1>1, <1>5, <2>1
  <2>3. i - 1 \in 1 .. (Len(s) - 1) /\ (i - 1) + 1 = i
    BY <1>1, <2>2
  <2>4. Tail(s)[i - 1] = x
    BY <1>1, <2>1, <2>3
  <2>5. QED
    BY <1>1, <2>3, <2>4 DEF ToSet
<1>6. QED
  BY <1>2, <1>3, <1>4, <1>5

\* A call that holds no frame comes to an outcome.
LEMMA HeldAfter ==
  ASSUME FacadeTypeInv, FrameInv, NEW r \in Readers, r \notin InFlight,
         NEW p \in {"none", "called", "waiting", "settled"}, NEW o \in Outcomes,
         o.is = "frame" => p = "settled" /\ o.frame \notin Held,
         read' = [read EXCEPT ![r] = Call(p, o)]
  PROVE  /\ Held' = IF o.is = "frame" THEN Held \cup {o.frame} ELSE Held
         /\ \A a, b \in InFlight' : read'[a].outcome.frame = read'[b].outcome.frame => a = b
         /\ \A a \in Readers : read'[a].phase # "settled" => a \notin InFlight'
<1>1. /\ read'[r].phase = p /\ read'[r].outcome = o
      /\ \A s \in Readers \ {r} : read'[s] = read[s]
  BY DEF FacadeTypeInv, FacadeTypeOK, Call
<1>2. InFlight' = IF o.is = "frame" THEN InFlight \cup {r} ELSE InFlight
  BY <1>1 DEF InFlight
<1>3. \A a \in InFlight : a \in Readers /\ read'[a] = read[a] /\ read[a].outcome.frame \in Held
  BY <1>1 DEF InFlight, Held
<1>4. Held' = IF o.is = "frame" THEN Held \cup {o.frame} ELSE Held
  BY <1>1, <1>2, <1>3 DEF Held
<1>5. \A a, b \in InFlight' : read'[a].outcome.frame = read'[b].outcome.frame => a = b
  BY <1>1, <1>2, <1>3 DEF FrameInv
<1>6. \A a \in Readers : read'[a].phase # "settled" => a \notin InFlight'
  BY <1>1, <1>2 DEF FrameInv
<1>7. QED
  BY <1>4, <1>5, <1>6

\* A step that moves no frame and changes no call keeps the invariant.
LEMMA FramesStay ==
  ASSUME FrameInv, UNCHANGED <<read, delivered, queue, discarded, arrived>>
  PROVE  FrameInv'
BY DEF FrameInv, Held, InFlight

LEMMA FrameStep == FacadeTypeInv /\ FrameInv /\ [Next]_vars => FrameInv'
<1> SUFFICES ASSUME FacadeTypeInv, FrameInv, [Next]_vars PROVE FrameInv'
  OBVIOUS
<1>0. /\ queue \in Seq(1 .. MaxFrames) /\ delivered \in Seq(1 .. MaxFrames)
      /\ arrived \in 0 .. MaxFrames /\ MaxFrames \in Nat
      /\ \A r \in InFlight : read[r].outcome.frame \in 1 .. MaxFrames
  BY FacadeAssumption DEF FacadeTypeInv, FacadeTypeOK, FramesAreReal, InFlight
<1>1. ASSUME NEW r \in Readers, NEW p \in {"called", "waiting", "settled"}, NEW o \in Outcomes, o.is # "frame",
             read[r].phase # "settled", read' = [read EXCEPT ![r] = Call(p, o)],
             UNCHANGED <<delivered, queue, discarded, arrived>>
      PROVE  FrameInv'
  <2>1. r \notin InFlight
    BY <1>1 DEF FrameInv
  <2>2. /\ Held' = Held
        /\ \A a, b \in InFlight' : read'[a].outcome.frame = read'[b].outcome.frame => a = b
        /\ \A a \in Readers : read'[a].phase # "settled" => a \notin InFlight'
    BY <1>1, <2>1, HeldAfter
  <2>3. QED
    BY <1>1, <2>2 DEF FrameInv
<1>2. ASSUME NEW r \in Readers, DirectNext(r) \/ CursorNext(r) PROVE FrameInv'
  <2>1. PICK p \in {"called", "settled"}, o \in {None, Outcome("gone")} : read' = [read EXCEPT ![r] = Call(p, o)]
    BY <1>2 DEF Begin, DirectNext, CursorNext
  <2>2. o \in Outcomes /\ o.is # "frame"
    BY NamedOutcomes
  <2>3. read[r].phase # "settled" /\ UNCHANGED <<delivered, queue, discarded, arrived>>
    BY <1>2 DEF Begin, DirectNext, CursorNext, sessionVars
  <2>4. QED
    BY <1>1, <2>1, <2>2, <2>3
<1>3. ASSUME NEW r \in Readers, Refused(r) PROVE FrameInv'
  BY <1>1, <1>3, NamedOutcomes DEF Refused, sessionVars
<1>4. ASSUME NEW r \in Readers, Poll(r) PROVE FrameInv'
  <2>1. read[r].phase # "settled" /\ UNCHANGED <<delivered, discarded, arrived>>
    BY <1>4 DEF Poll
  <2>2. r \notin InFlight
    BY <2>1 DEF FrameInv
  <2>3. CASE Arrives(r).is = "frame"
    <3>1. queue # <<>> /\ Arrives(r) \in Outcomes /\ Arrives(r).frame = Head(queue)
      <4>1. queue # <<>> /\ Arrives(r) \in Outcomes
        BY <2>3, ArrivesType DEF FacadeTypeInv
      <4>2. Arrives(r).frame = Head(queue)
        BY <2>3 DEF Arrives, Outcome, Value, None
      <4>3. QED
        BY <4>1, <4>2
    <3>2. queue' = Tail(queue) /\ read' = [read EXCEPT ![r] = Call("settled", Arrives(r))]
      <4>1. Arrives(r) # None
        BY <2>3, NamedOutcomes
      <4>2. QED
        BY <1>4, <2>3, <4>1 DEF Poll
    <3>3. /\ IsInjective(queue') /\ Head(queue) \in ToSet(queue)
          /\ ToSet(queue') = ToSet(queue) \ {Head(queue)}
      BY <1>0, <3>1, <3>2, LeavesOnce DEF FrameInv
    <3>4. Head(queue) \notin Held
      BY <3>3 DEF FrameInv
    <3>5. /\ Held' = Held \cup {Head(queue)}
          /\ \A a, b \in InFlight' : read'[a].outcome.frame = read'[b].outcome.frame => a = b
          /\ \A a \in Readers : read'[a].phase # "settled" => a \notin InFlight'
      BY <2>2, <2>3, <3>1, <3>2, <3>4, HeldAfter
    <3>6. QED
      BY <2>1, <3>3, <3>5 DEF FrameInv
  <2>4. CASE Arrives(r).is # "frame"
    <3>1. PICK p \in {"waiting", "settled"}, o \in {None, Arrives(r)} : read' = [read EXCEPT ![r] = Call(p, o)]
      BY <1>4 DEF Poll
    <3>2. o \in Outcomes /\ o.is # "frame"
      BY <2>4, NamedOutcomes, ArrivesType DEF FacadeTypeInv
    <3>3. queue' = queue
      BY <1>4, <2>4 DEF Poll
    <3>4. QED
      BY <1>1, <2>1, <3>1, <3>2, <3>3
  <2>5. QED
    BY <2>3, <2>4
<1>5. ASSUME NEW r \in Readers, Settle(r) PROVE FrameInv'
  <2>1. /\ read' = [read EXCEPT ![r] = Rest] /\ UNCHANGED <<queue, discarded, arrived>>
    BY <1>5 DEF Settle, sessionVars
  <2>2. read'[r] = Rest /\ \A s \in Readers \ {r} : read'[s] = read[s]
    BY <2>1 DEF FacadeTypeInv, FacadeTypeOK
  <2>3. InFlight' = InFlight \ {r}
    BY <2>2, NamedOutcomes DEF InFlight, Rest, Call
  <2>4. /\ \A a, b \in InFlight' : read'[a].outcome.frame = read'[b].outcome.frame => a = b
        /\ \A a \in Readers : read'[a].phase # "settled" => a \notin InFlight'
    BY <2>2, <2>3 DEF FrameInv, InFlight
  <2>5. Held' = {read[a].outcome.frame : a \in InFlight \ {r}}
    BY <2>2, <2>3 DEF Held, InFlight
  <2>6. CASE r \in InFlight
    <3>1. delivered' = Append(delivered, read[r].outcome.frame) /\ read[r].outcome.frame \in Held
      BY <1>5, <2>6 DEF Settle, InFlight, Held
    <3>2. Held' = Held \ {read[r].outcome.frame}
      BY <2>5, <2>6, ZenonT(30) DEF FrameInv, Held
    <3>3. read[r].outcome.frame \in 1 .. MaxFrames /\ read[r].outcome.frame \notin ToSet(delivered)
      BY <1>0, <2>6, <3>1 DEF FrameInv
    <3>4. IsInjective(delivered') /\ ToSet(delivered') = ToSet(delivered) \cup {read[r].outcome.frame}
      <4>1. IsInjective(delivered) /\ delivered \in Seq(1 .. MaxFrames)
        BY <1>0 DEF FrameInv
      <4> DEFINE f == read[r].outcome.frame
      <4> DEFINE S == 1 .. MaxFrames
      <4>2. f \in S /\ f \notin ToSet(delivered) /\ delivered \in Seq(S)
        BY <3>3, <4>1
      <4> HIDE DEF f, S
      <4>3. IsInjective(Append(delivered, f)) /\ ToSet(Append(delivered, f)) = ToSet(delivered) \cup {f}
        BY <4>1, <4>2, JoinsOnce
      <4>4. QED
        BY <3>1, <4>3 DEF f
    <3>5. QED
      BY <2>1, <2>4, <3>1, <3>2, <3>4 DEF FrameInv
  <2>7. CASE r \notin InFlight
    <3>1. delivered' = delivered /\ Held' = Held
      BY <1>5, <2>5, <2>7 DEF Settle, InFlight, Held
    <3>2. QED
      BY <2>1, <2>4, <3>1 DEF FrameInv
  <2>8. QED
    BY <2>6, <2>7
<1>6. ASSUME NEW who, Disposed(who), UNCHANGED <<read, delivered>> PROVE FrameInv'
  <2>1. queue' = <<>> /\ discarded' = discarded \cup ToSet(queue) /\ arrived' = arrived
    BY <1>6 DEF Disposed
  <2>2. ToSet(queue') = {} /\ IsInjective(queue')
    BY <2>1 DEF ToSet, IsInjective
  <2>3. Held' = Held /\ InFlight' = InFlight
    BY <1>6 DEF Held, InFlight
  <2>4. QED
    BY <1>6, <2>1, <2>2, <2>3 DEF FrameInv
<1>7. ASSUME Dispose PROVE FrameInv'
  BY <1>6, <1>7, FramesStay DEF Dispose, sessionVars
<1>8. ASSUME CloseEnds PROVE FrameInv'
  BY <1>6, <1>8 DEF CloseEnds
<1>9. ASSUME FrameArrives PROVE FrameInv'
  <2>1. UNCHANGED <<read, delivered, discarded>>
    BY <1>9 DEF FrameArrives
  <2>2. CASE arrived' = arrived + 1 /\ queue' = Append(queue, arrived + 1)
    <3>1. arrived + 1 \in 1 .. MaxFrames /\ arrived + 1 \notin 1 .. arrived
          /\ 1 .. (arrived + 1) = (1 .. arrived) \cup {arrived + 1}
      BY <1>0, <1>9 DEF FrameArrives
    <3>2. IsInjective(queue') /\ ToSet(queue') = ToSet(queue) \cup {arrived + 1}
      <4>1. arrived + 1 \notin ToSet(queue)
        BY <3>1 DEF FrameInv
      <4>2. QED
        BY <1>0, <2>2, <3>1, <4>1, JoinsOnce DEF FrameInv
    <3>3. Held' = Held /\ InFlight' = InFlight
      BY <2>1 DEF Held, InFlight
    <3>4. QED
      BY <2>1, <2>2, <3>1, <3>2, <3>3 DEF FrameInv
  <2>3. CASE UNCHANGED <<arrived, queue>>
    BY <2>1, <2>3, FramesStay
  <2>4. QED
    BY <1>9, <2>2, <2>3 DEF FrameArrives
<1>10. ASSUME Close \/ ClosePolled \/ SocketEnds PROVE FrameInv'
  BY <1>10, FramesStay DEF Close, ClosePolled, SocketEnds, sessionVars
<1>11. ASSUME NEW c \in Cursors, CursorReturn(c) \/ ReturnSettles(c) PROVE FrameInv'
  BY <1>11, FramesStay DEF CursorReturn, ReturnSettles, sessionVars
<1>12. ASSUME NEW r \in Readers, Abort(r) PROVE FrameInv'
  BY <1>12, FramesStay DEF Abort, sessionVars
<1>13. CASE UNCHANGED vars
  BY <1>13, FramesStay DEF vars
<1>14. QED
  BY <1>2, <1>3, <1>4, <1>5, <1>7, <1>8, <1>9, <1>10, <1>11, <1>12, <1>13 DEF Next, Readers

\* A frame is once in a sequence that has it and does not repeat it.
LEMMA TimesOfMember ==
  ASSUME NEW S, NEW s \in Seq(S), IsInjective(s), NEW f
  PROVE  Times(s, f) = IF f \in ToSet(s) THEN 1 ELSE 0
<1>1. CASE f \in ToSet(s)
  <2>1. PICK i \in DOMAIN s : s[i] = f
    BY <1>1 DEF ToSet
  <2>2. {j \in DOMAIN s : s[j] = f} = {i}
    BY <2>1 DEF IsInjective
  <2>3. QED
    BY <1>1, <2>2, FS_Singleton DEF Times
<1>2. CASE f \notin ToSet(s)
  <2>1. {j \in DOMAIN s : s[j] = f} = {}
    BY <1>2 DEF ToSet
  <2>2. QED
    BY <1>2, <2>1, FS_EmptySet DEF Times
<1>3. QED
  BY <1>1, <1>2

\* A frame that the session accepted is with one reader, once, or on its way to
\* one, or queued, or was dropped by disposal (Session::next, Driver::dispose,
\* return in index.ts), however many readers there are and whichever of them
\* return, are cancelled or are refused meanwhile.
THEOREM FramesOnce == Spec => []FramesAccounted
<1>1. Init => FrameInv
  <2> SUFFICES ASSUME Init PROVE FrameInv
    OBVIOUS
  <2>1. InFlight = {}
    BY NamedOutcomes DEF Init, InFlight, Rest, Call
  <2>2. Held = {}
    BY <2>1 DEF Held
  <2>3. ToSet(queue) = {} /\ ToSet(delivered) = {} /\ IsInjective(queue) /\ IsInjective(delivered)
    BY DEF Init, ToSet, IsInjective
  <2>4. 1 .. arrived = {}
    BY DEF Init
  <2>5. QED
    BY <2>1, <2>2, <2>3, <2>4 DEF Init, FrameInv
<1>2. FacadeTypeInv /\ EndInv /\ FrameInv => FramesAccounted
  <2> SUFFICES ASSUME FacadeTypeInv, EndInv, FrameInv PROVE FramesAccounted
    OBVIOUS
  <2>1. discarded # {} => disposer # "nobody"
    BY DEF EndInv, OneDisposer
  <2>2. ASSUME NEW f \in 1 .. arrived PROVE Occurrences(f) = 1
    <3>1. /\ Times(delivered, f) = IF f \in ToSet(delivered) THEN 1 ELSE 0
          /\ Times(queue, f) = IF f \in ToSet(queue) THEN 1 ELSE 0
      BY TimesOfMember DEF FacadeTypeInv, FacadeTypeOK, FrameInv
    <3> DEFINE holders == {r \in InFlight : read[r].outcome.frame = f}
    <3>2. Cardinality(holders) = IF f \in Held THEN 1 ELSE 0
      <4>1. CASE f \in Held
        <5>1. PICK r \in InFlight : read[r].outcome.frame = f
          BY <4>1 DEF Held
        <5>2. holders = {r}
          BY <5>1 DEF FrameInv
        <5>3. QED
          BY <4>1, <5>2, FS_Singleton
      <4>2. CASE f \notin Held
        <5>1. holders = {}
          BY <4>2 DEF Held
        <5>2. QED
          BY <4>2, <5>1, FS_EmptySet
      <4>3. QED
        BY <4>1, <4>2
    <3>3. /\ f \in ToSet(delivered) \/ f \in ToSet(queue) \/ f \in Held \/ f \in discarded
          /\ f \in ToSet(delivered) => f \notin ToSet(queue) /\ f \notin Held /\ f \notin discarded
          /\ f \in ToSet(queue) => f \notin Held /\ f \notin discarded
          /\ f \in Held => f \notin discarded
      BY <2>2 DEF FrameInv
    <3>4. QED
      BY <3>1, <3>2, <3>3 DEF Occurrences
  <2>3. QED
    BY <2>1, <2>2 DEF FramesAccounted
<1>3. Init => EndInv
  BY EndInitially
<1>4. QED
  BY <1>1, <1>2, <1>3, EndStep, FrameStep, TypeInvariant, PTL DEF Spec
=============================================================================
