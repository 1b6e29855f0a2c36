------------------------------- MODULE Facade -------------------------------
(***************************************************************************)
(* Receiving through the browser client: the cursors and the direct next() *)
(* of packages/client/src/index.ts over the host session they all borrow   *)
(* (rust/host/src/lib.rs, reached through rust/wasm-bridge/src/session.rs).*)
(*                                                                         *)
(* Everything runs in one thread.  A call's Rust future is polled first in *)
(* a task of its own, and its promise settles in a later one; the socket's *)
(* events come in between, when no such task is left to run.  A future is  *)
(* woken by every change it waits for, so it is polled whenever it has an  *)
(* outcome.  Frames are numbered in the order in which they arrive.        *)
(***************************************************************************)
EXTENDS Naturals, Sequences, FiniteSets, SequencesExt

CONSTANTS
  Cursors,   \* the cursors of incoming(), each one iterator
  Direct,    \* the callers of next()
  MaxFrames, \* frames the peer sends (bound)
  Capacity   \* messages the session's budget admits

Readers == Cursors \cup Direct

ASSUME FacadeAssumption ==
  /\ MaxFrames \in Nat /\ Capacity \in Nat \ {0}
  /\ Cursors \cap Direct = {}

VARIABLES
  state,     \* SessionState, once it is open
  arrived,   \* frames that enqueue accepted
  queue,     \* Shared.queue
  receiving, \* Shared.receiving
  read,      \* each reader's call: phase, and what it came to
  cancelled, \* readers whose token is cancelled
  open,      \* cursors that have #session
  returning, \* cursors whose return() awaits the pending read
  handle,    \* the session's handle: "live", "taken" by close, "disposed"
  closing,   \* close(): "no", "called", "waiting", "done"
  delivered, \* history: the frames that readers were given
  discarded, \* history: the frames that disposal dropped
  ended,     \* history: whether a reader was told that the stream ended
  disposer   \* history: who disposed of the session, if anyone

vars == <<state, arrived, queue, receiving, read, cancelled, open, returning,
          handle, closing, delivered, discarded, ended, disposer>>
sessionVars == <<state, arrived, queue, discarded, disposer>>
callVars == <<handle, closing>>
cursorVars == <<open, returning>>

None == [is |-> "none", frame |-> 0]
Value(f) == [is |-> "frame", frame |-> f]
Outcome(o) == [is |-> o, frame |-> 0]
Call(phase, outcome) == [phase |-> phase, outcome |-> outcome]
Rest == Call("none", None)

Outcomes == [is : {"none", "frame", "end", "failed", "cancelled", "refused", "gone"}, frame : 0 .. MaxFrames]

Terminal == state \in {"closed", "failed"}

FacadeTypeOK ==
  /\ state \in {"open", "closing", "closed", "failed"}
  /\ arrived \in 0 .. MaxFrames
  /\ queue \in Seq(1 .. MaxFrames)
  /\ receiving \in BOOLEAN
  /\ read \in [Readers -> [phase : {"none", "called", "waiting", "settled"}, outcome : Outcomes]]
  /\ cancelled \subseteq Readers
  /\ open \subseteq Cursors /\ returning \subseteq Cursors
  /\ handle \in {"live", "taken", "disposed"}
  /\ closing \in {"no", "called", "waiting", "done"}
  /\ delivered \in Seq(1 .. MaxFrames)
  /\ discarded \subseteq 1 .. MaxFrames
  /\ ended \in BOOLEAN
  /\ disposer \in {"nobody", "close", "owner"}

Init ==
  /\ state = "open" /\ arrived = 0 /\ queue = <<>> /\ receiving = FALSE
  /\ read = [r \in Readers |-> Rest]
  /\ cancelled = {} /\ open = Cursors /\ returning = {}
  /\ handle = "live" /\ closing = "no"
  /\ delivered = <<>> /\ discarded = {} /\ ended = FALSE
  /\ disposer = "nobody"
-----------------------------------------------------------------------------
(* The application.                                                        *)

\* A read of the session: its handle refuses at once when it is gone.
Begin(r) ==
  /\ read[r].phase = "none"
  /\ read' = [read EXCEPT ![r] = IF handle = "live" THEN Call("called", None)
                                 ELSE Call("settled", Outcome("gone"))]

DirectNext(r) ==
  /\ r \in Direct /\ Begin(r)
  /\ UNCHANGED <<sessionVars, callVars, cursorVars, cancelled, receiving, delivered, ended>>

\* A cursor that ended yields done, and one that is reading refuses: neither
\* changes anything.
CursorNext(c) ==
  /\ c \in open /\ Begin(c)
  /\ UNCHANGED <<sessionVars, callVars, cursorVars, cancelled, receiving, delivered, ended>>

\* The caller's signal aborts a read that is pending.
Abort(r) ==
  /\ read[r].phase \in {"called", "waiting"}
  /\ cancelled' = cancelled \cup {r}
  /\ UNCHANGED <<sessionVars, callVars, cursorVars, receiving, read, delivered, ended>>

\* Mutant of CursorReturn: as a generator's, which waits behind the read.
ReturnQueued(c) ==
  /\ c \notin returning
  /\ open' = open \ {c}
  /\ returning' = IF read[c].phase # "none" THEN returning \cup {c} ELSE returning
  /\ UNCHANGED <<sessionVars, callVars, cancelled, receiving, read, delivered, ended>>

\* return(): a pending read is cancelled and awaited.
CursorReturn(c) ==
  /\ c \notin returning
  /\ open' = open \ {c}
  /\ returning' = IF read[c].phase # "none" THEN returning \cup {c} ELSE returning
  /\ cancelled' = IF read[c].phase # "none" THEN cancelled \cup {c} ELSE cancelled
  /\ UNCHANGED <<sessionVars, callVars, receiving, read, delivered, ended>>

ReturnSettles(c) ==
  /\ c \in returning /\ read[c].phase = "none"
  /\ returning' = returning \ {c}
  /\ UNCHANGED <<sessionVars, callVars, open, cancelled, receiving, read, delivered, ended>>

\* Driver::dispose, when the session is dropped.
Disposed(who) ==
  /\ state' = IF Terminal THEN state ELSE "failed"
  /\ discarded' = discarded \cup ToSet(queue)
  /\ queue' = <<>>
  /\ disposer' = who
  /\ UNCHANGED arrived

\* Owner.dispose: the session goes with its handle, unless close has it.
Dispose ==
  /\ handle # "disposed"
  /\ handle' = "disposed"
  /\ IF handle = "live" THEN Disposed("owner") ELSE UNCHANGED sessionVars
  /\ UNCHANGED <<closing, cursorVars, receiving, read, cancelled, delivered, ended>>

Close ==
  /\ handle = "live" /\ closing = "no"
  /\ handle' = "taken" /\ closing' = "called"
  /\ UNCHANGED <<sessionVars, cursorVars, receiving, read, cancelled, delivered, ended>>
-----------------------------------------------------------------------------
(* Session::next.                                                          *)

\* Mutant of Arrives: a state that ended comes before what is queued.
ArrivesStateFirst(r) ==
  IF r \in cancelled THEN Outcome("cancelled")
  ELSE IF state = "closed" THEN Outcome("end")
  ELSE IF queue # <<>> THEN Value(Head(queue))
  ELSE IF state = "failed" THEN Outcome("failed")
  ELSE None

\* What a poll comes to: cancellation, a queued frame, the session's end.
Arrives(r) ==
  IF r \in cancelled THEN Outcome("cancelled")
  ELSE IF queue # <<>> THEN Value(Head(queue))
  ELSE IF state = "closed" THEN Outcome("end")
  ELSE IF state = "failed" THEN Outcome("failed")
  ELSE None

\* Mutant of Refused: its guard frees the slot of the other.
RefusedFreeing(r) ==
  /\ read[r].phase = "called" /\ receiving
  /\ read' = [read EXCEPT ![r] = Call("settled", Outcome("refused"))]
  /\ receiving' = FALSE
  /\ UNCHANGED <<sessionVars, callVars, cursorVars, cancelled, delivered, ended>>

\* The slot is taken: this read never held it.
Refused(r) ==
  /\ read[r].phase = "called" /\ receiving
  /\ read' = [read EXCEPT ![r] = Call("settled", Outcome("refused"))]
  /\ UNCHANGED <<sessionVars, callVars, cursorVars, receiving, cancelled, delivered, ended>>

\* The slot is claimed at the first poll and held until there is an outcome.
Poll(r) ==
  /\ \/ read[r].phase = "called" /\ ~receiving
     \/ read[r].phase = "waiting" /\ Arrives(r) # None
  /\ receiving' = (Arrives(r) = None)
  /\ read' = [read EXCEPT ![r] = IF Arrives(r) = None THEN Call("waiting", None)
                                 ELSE Call("settled", Arrives(r))]
  /\ queue' = IF Arrives(r).is = "frame" THEN Tail(queue) ELSE queue
  /\ UNCHANGED <<state, arrived, discarded, disposer, callVars, cursorVars, cancelled, delivered, ended>>

\* Mutant of Settle: a frame that comes after return is dropped.
SettleReturned(r) ==
  /\ read[r].phase = "settled"
  /\ LET o == read[r].outcome
         kept == o.is = "frame" /\ r \notin returning
     IN /\ delivered' = IF kept THEN Append(delivered, o.frame) ELSE delivered
        /\ open' = IF o.is = "frame" THEN open ELSE open \ {r}
        /\ ended' = (ended \/ o.is = "end")
  /\ read' = [read EXCEPT ![r] = Rest]
  /\ cancelled' = cancelled \ {r}
  /\ UNCHANGED <<sessionVars, callVars, returning, receiving>>

\* HostSession.next and HostIncomingStream.#read: a frame is the reader's even
\* after return(), anything else ends its cursor; a read that its own cursor's
\* return() cancelled comes to done instead of an error.
Settle(r) ==
  /\ read[r].phase = "settled"
  /\ LET o == read[r].outcome
     IN /\ delivered' = IF o.is = "frame" THEN Append(delivered, o.frame) ELSE delivered
        /\ open' = IF o.is = "frame" THEN open ELSE open \ {r}
        /\ ended' = (ended \/ o.is = "end")
  /\ read' = [read EXCEPT ![r] = Rest]
  /\ cancelled' = cancelled \ {r}
  /\ UNCHANGED <<sessionVars, callVars, returning, receiving>>
-----------------------------------------------------------------------------
(* Session::close.                                                         *)

\* Tasks run in the order in which they were woken: a read that began before
\* close, or that a frame woke, is polled before it.
ReadsPolled ==
  \A r \in Readers : read[r].phase # "called" /\ (read[r].phase = "waiting" => queue = <<>>)

ClosePolled ==
  /\ closing = "called" /\ ReadsPolled
  /\ closing' = "waiting"
  /\ state' = IF state = "open" THEN "closing" ELSE state
  /\ UNCHANGED <<arrived, queue, discarded, disposer, handle, cursorVars, receiving, read,
                 cancelled, delivered, ended>>

\* The handshake, the deadline or the caller's signal ends it, and the session
\* goes with it; the facade disposes of its handle.
CloseEnds ==
  /\ closing = "waiting" /\ ReadsPolled
  /\ closing' = "done" /\ handle' = "disposed"
  /\ Disposed("close")
  /\ UNCHANGED <<cursorVars, receiving, read, cancelled, delivered, ended>>
-----------------------------------------------------------------------------
(* The socket, whose callbacks run when no task is left.                   *)

Quiet == \A r \in Readers : ~(\/ read[r].phase \in {"called", "settled"}
                              \/ read[r].phase = "waiting" /\ Arrives(r) # None)

\* enqueue; the budget's refusal fails the session.
FrameArrives ==
  /\ Quiet /\ ~Terminal /\ arrived < MaxFrames
  /\ IF Len(queue) < Capacity
     THEN /\ arrived' = arrived + 1
          /\ queue' = Append(queue, arrived + 1)
          /\ UNCHANGED state
     ELSE /\ state' = "failed"
          /\ UNCHANGED <<arrived, queue>>
  /\ UNCHANGED <<discarded, disposer, callVars, cursorVars, receiving, read, cancelled, delivered, ended>>

SocketEnds ==
  /\ Quiet /\ ~Terminal
  /\ state' \in {"closed", "failed"}
  /\ UNCHANGED <<arrived, queue, discarded, disposer, callVars, cursorVars, receiving, read,
                 cancelled, delivered, ended>>

Next ==
  \/ \E r \in Readers : \/ DirectNext(r) \/ Abort(r)
                        \/ Refused(r) \/ Poll(r) \/ Settle(r)
  \/ \E c \in Cursors : CursorNext(c) \/ CursorReturn(c) \/ ReturnSettles(c)
  \/ Dispose \/ Close \/ ClosePolled \/ CloseEnds
  \/ FrameArrives \/ SocketEnds

Spec == Init /\ [][Next]_vars

\* Tasks that are ready run, and a close has its deadline; neither the peer nor
\* the application need do anything.
Fairness ==
  /\ \A r \in Readers : WF_vars(Refused(r) \/ Poll(r) \/ Settle(r))
  /\ \A c \in Cursors : WF_vars(ReturnSettles(c))
  /\ WF_vars(ClosePolled \/ CloseEnds)

FairSpec == Spec /\ Fairness
-----------------------------------------------------------------------------
\* A frame the session accepted is given to one reader, once, or is on its way
\* to one, or queued; a cursor that returns, a signal or a refused call loses
\* none ("Discarding it here could silently lose data", index.ts:454-455).  What
\* is dropped, disposal drops.
InFlight == {r \in Readers : read[r].outcome.is = "frame"}
Times(frames, f) == Cardinality({i \in DOMAIN frames : frames[i] = f})
Occurrences(f) ==
  Times(delivered, f) + Times(queue, f)
    + Cardinality({r \in InFlight : read[r].outcome.frame = f})
    + (IF f \in discarded THEN 1 ELSE 0)
FramesAccounted ==
  /\ \A f \in 1 .. arrived : Occurrences(f) = 1
  /\ discarded # {} => disposer # "nobody"

\* "One pending receive across all cursors/direct next calls": the slot is taken
\* exactly while one reader waits, whoever was refused, cancelled or returned
\* meanwhile; else a later read is refused for nothing, or two readers wait.
SlotHasOneWaiter ==
  /\ receiving <=> \E r \in Readers : read[r].phase = "waiting"
  /\ \A r, s \in Readers : read[r].phase = "waiting" /\ read[s].phase = "waiting" => r = s

\* A reader that was told the stream ended has not been cut short: no frame is
\* queued or was dropped, unless the owner itself disposed of the session.
EndIsTrue ==
  ended \/ (\E r \in Readers : read[r].outcome.is = "end")
    => queue = <<>> /\ (discarded = {} \/ disposer = "owner")

\* return() "waits for Rust to release its waiter" (index.ts:427-428): a cursor
\* whose return resolved holds nothing that could refuse the next cursor.
ReturnReleases == \A c \in Cursors : c \notin open /\ c \notin returning => read[c].phase = "none"

\* The one slot for a waiting read is taken by a read that waits, and by nothing
\* that a cursor left behind.
SlotIsReleased == SlotHasOneWaiter /\ ReturnReleases

\* return() resolves though no frame ever comes: it does not wait behind the
\* read as a generator's would.
ReturnResolves == \A c \in Cursors : c \in returning ~> c \notin returning

\* Closing or disposing of the session ends each read that waits for it.
ReadersAreTold == handle = "disposed" ~> \A r \in Readers : read[r].phase # "waiting"

\* Neither a return nor a read waits for ever.
NobodyWaitsForEver == ReturnResolves /\ ReadersAreTold
=============================================================================
