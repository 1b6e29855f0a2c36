---------------------------- MODULE NativeSession ----------------------------
(***************************************************************************)
(* One native session (rust/native/src/lib.rs): callers of Sender::send, a *)
(* bounded command queue, the driver task that owns the connection, a      *)
(* bounded event queue, and the Session value of its owner.                *)
(*                                                                         *)
(* The driver is abstract here: a running one submits the command at the   *)
(* head of the queue, completes the command it has submitted, delivers     *)
(* what arrives, or stops, whenever it likes.  The modules of the MQTT and *)
(* WebSocket drivers say when; they extend this one.  What a session does  *)
(* around its driver (admission, receipts, teardown, closing and dropping) *)
(* is all here.                                                            *)
(*                                                                         *)
(* Every caller and the owner run concurrently with the task.  A step is   *)
(* what one of them does between two points where another could observe or *)
(* change something it uses.                                               *)
(***************************************************************************)
EXTENDS Budget, Sequences, Functions

CONSTANTS Call,   \* invocations of Sender::send, each with a body of its own
          Arrival \* messages the peer sends

\* The senders and the driver's Context share one Budget.
ASSUME BodiesAreLeased == Lease = Call \cup Arrival

ASSUME CallsAreNotArrivals == Call \cap Arrival = {}

VARIABLES
  call,         \* what each caller is doing, or what send returned to it
  response,     \* the oneshot channel of each command
  expired,      \* the commands whose deadline has passed
  commands,     \* the command queue
  commandsOpen, \* its receiver exists
  pending,      \* the command the driver has submitted and not completed
  completing,   \* <<c, r>>: c's lease is dropped and its response r not yet sent
  submitted,    \* history: the commands ever handed to the transport
  arriving,     \* the message with a lease that is not yet in the event queue
  events,       \* the event queue
  eventsOpen,   \* its sender exists
  arrived,      \* history: everything ever put in the event queue
  received,     \* history: everything Session::next returned
  ended,        \* what Session::next returned once no message was left
  owner,        \* what the owner of the Session is doing
  shutdown,     \* the shutdown watch
  closeResult,  \* what Session::close returned
  task,         \* the driver task
  result,       \* what its driver returned
  aborting,     \* JoinHandle::abort was called
  terminal      \* the terminal watch

callVars == <<call, response, expired>>
commandVars == <<commands, commandsOpen>>
driverVars == <<pending, completing, submitted>>
eventVars == <<arriving, events, eventsOpen, arrived, received>>
ownerVars == <<ended, owner, shutdown, closeResult>>
taskVars == <<task, result, aborting>>
vars == <<callVars, commandVars, driverVars, eventVars, ownerVars, taskVars,
          terminal, budgetVars>>

\* "FailedUnknown" is a failure whose error says delivery_unknown.
Terminal == {"Open", "Closed", "Failed", "FailedUnknown"}
Result == {"none", "Closed", "Failed", "FailedUnknown", "abandoned"}
\* "receipt", "error" and "unknown" are what send returned: "error" is certain
\* that nothing was sent, "unknown" says delivery_unknown.
Settled == {"receipt", "error", "unknown", "cancelled"}
Phase == {"idle", "admitted", "reserved", "awaiting", "lost"} \cup Settled
Response == {"none", "receipt", "error", "dropped"}
Owner == {"using", "closing", "expiring", "reaping", "dropping", "gone"}

SessionTypeOK ==
  /\ call \in [Call -> Phase]
  /\ response \in [Call -> Response]
  /\ expired \subseteq Call
  /\ commands \in Seq(Call)
  /\ commandsOpen \in BOOLEAN
  /\ pending \subseteq Call
  /\ completing \subseteq Call \X {"receipt", "error"}
  /\ submitted \subseteq Call
  /\ arriving \subseteq Arrival
  /\ events \in Seq(Arrival)
  /\ eventsOpen \in BOOLEAN
  /\ arrived \in Seq(Arrival)
  /\ received \in Seq(Arrival)
  /\ ended \in {"no", "Closed", "Failed", "FailedUnknown"}
  /\ owner \in Owner
  /\ shutdown \in BOOLEAN
  /\ closeResult \in {"none", "receipt", "error"}
  /\ task \in {"running", "leaving", "guarding", "finished"}
  /\ result \in Result
  /\ result = "none" <=> task = "running"
  /\ aborting \in BOOLEAN
  /\ terminal \in Terminal

TypeOK == SessionTypeOK /\ BudgetTypeOK

Init ==
  /\ call = [c \in Call |-> "idle"]
  /\ response = [c \in Call |-> "none"]
  /\ expired = {} /\ submitted = {} /\ pending = {}
  /\ completing = {} /\ arriving = {}
  /\ commands = <<>> /\ events = <<>>
  /\ arrived = <<>> /\ received = <<>>
  /\ commandsOpen = TRUE /\ eventsOpen = TRUE
  /\ ended = "no" /\ closeResult = "none" /\ result = "none"
  /\ owner = "using" /\ shutdown = FALSE
  /\ task = "running" /\ aborting = FALSE
  /\ terminal = "Open"
  /\ BudgetInit
-----------------------------------------------------------------------------
(* Sender::send_inner.  It first awaits once its command is queued, so a    *)
(* caller can only be cancelled from then on.                               *)

Goto(c, phase) == call' = [call EXCEPT ![c] = phase]

\* It reads shutdown before terminal.  Neither ever returns to its first
\* value, so reading both at once loses no behaviour.
Enter(c) ==
  /\ call[c] = "idle"
  /\ ~shutdown /\ terminal = "Open"
  /\ Goto(c, "admitted")
  /\ UNCHANGED <<response, expired, commandVars, driverVars, eventVars,
                 ownerVars, taskVars, terminal, budgetVars>>

\* Mutant of RefuseClosed: the terminal error is returned as it was published.
RefuseWithTerminalError(c) ==
  /\ call[c] = "idle"
  /\ shutdown \/ terminal # "Open"
  /\ Goto(c, IF ~shutdown /\ terminal = "FailedUnknown" THEN "unknown" ELSE "error")
  /\ UNCHANGED <<response, expired, commandVars, driverVars, eventVars,
                 ownerVars, taskVars, terminal, budgetVars>>

\* Whatever the session failed with, this call sent nothing.
RefuseClosed(c) ==
  /\ call[c] = "idle"
  /\ shutdown \/ terminal # "Open"
  /\ Goto(c, "error")
  /\ UNCHANGED <<response, expired, commandVars, driverVars, eventVars,
                 ownerVars, taskVars, terminal, budgetVars>>

\* send_payload validates the value before anything else.
RefuseInput(c) ==
  /\ call[c] = "idle"
  /\ Goto(c, "error")
  /\ UNCHANGED <<response, expired, commandVars, driverVars, eventVars,
                 ownerVars, taskVars, terminal, budgetVars>>

Reserve(c) ==
  /\ call[c] = "admitted"
  /\ BudgetReserve(c)
  /\ Goto(c, "reserved")
  /\ UNCHANGED <<response, expired, commandVars, driverVars, eventVars,
                 ownerVars, taskVars, terminal>>

\* The operation is not a send (SessionPlan::send_plan), or the quota has no
\* room for the body.
RefuseAdmission(c) ==
  /\ call[c] = "admitted"
  /\ Goto(c, "error")
  /\ UNCHANGED <<response, expired, commandVars, driverVars, eventVars,
                 ownerVars, taskVars, terminal, budgetVars>>

\* try_send.
Enqueue(c) ==
  /\ call[c] = "reserved"
  /\ commandsOpen /\ Len(commands) < MaxMessages
  /\ commands' = Append(commands, c)
  /\ Goto(c, "awaiting")
  /\ UNCHANGED <<response, expired, commandsOpen, driverVars, eventVars,
                 ownerVars, taskVars, terminal, budgetVars>>

\* Mutant of RefuseCommand: the lease outlives the refused command.
RefuseKeepingLease(c) ==
  /\ call[c] = "reserved"
  /\ Goto(c, "error")
  /\ UNCHANGED <<response, expired, commandVars, driverVars, eventVars,
                 ownerVars, taskVars, terminal, budgetVars>>

\* prepare_bytes rejects the payload, or try_send fails: the lease is dropped.
RefuseCommand(c) ==
  /\ call[c] = "reserved"
  /\ Goto(c, "error")
  /\ LeaseDrop(c)
  /\ UNCHANGED <<response, expired, commandVars, driverVars, eventVars,
                 ownerVars, taskVars, terminal>>

\* receipt.await returns what the driver sent.
TakeResponse(c) ==
  /\ call[c] = "awaiting"
  /\ response[c] \in {"receipt", "error"}
  /\ Goto(c, response[c])
  /\ UNCHANGED <<response, expired, commandVars, driverVars, eventVars,
                 ownerVars, taskVars, terminal, budgetVars>>

\* The command was dropped without a response.
LoseResponse(c) ==
  /\ call[c] = "awaiting"
  /\ response[c] = "dropped"
  /\ Goto(c, "lost")
  /\ UNCHANGED <<response, expired, commandVars, driverVars, eventVars,
                 ownerVars, taskVars, terminal, budgetVars>>

\* Mutant of FailUnknown: the terminal error without .uncertain().
FailAsPublished(c) ==
  /\ call[c] = "lost"
  /\ terminal # "Open"
  /\ Goto(c, IF terminal = "FailedUnknown" THEN "unknown" ELSE "error")
  /\ UNCHANGED <<response, expired, commandVars, driverVars, eventVars,
                 ownerVars, taskVars, terminal, budgetVars>>

\* A dropped command may have been sent: the caller waits for the reason and
\* returns it as uncertain.
FailUnknown(c) ==
  /\ call[c] = "lost"
  /\ terminal # "Open"
  /\ Goto(c, "unknown")
  /\ UNCHANGED <<response, expired, commandVars, driverVars, eventVars,
                 ownerVars, taskVars, terminal, budgetVars>>

\* The future of send is dropped, which closes the response channel.
Cancel(c) ==
  /\ call[c] \in {"awaiting", "lost"}
  /\ Goto(c, "cancelled")
  /\ UNCHANGED <<response, expired, commandVars, driverVars, eventVars,
                 ownerVars, taskVars, terminal, budgetVars>>

SendStep(c) ==
  \/ Enter(c) \/ RefuseClosed(c) \/ RefuseInput(c)
  \/ Reserve(c) \/ RefuseAdmission(c) \/ Enqueue(c) \/ RefuseCommand(c)
  \/ TakeResponse(c) \/ LoseResponse(c) \/ FailUnknown(c)

\* The clock reaches SendCommand.deadline.
Expire(c) ==
  /\ c \in (Range(commands) \cup pending) \ expired
  /\ expired' = expired \cup {c}
  /\ UNCHANGED <<call, response, commandVars, driverVars, eventVars, ownerVars,
                 taskVars, terminal, budgetVars>>
-----------------------------------------------------------------------------
(* The driver task while its loop runs.                                     *)

Looping == task = "running" /\ completing = {} /\ arriving = {}

\* commands.recv() with no command pending.
Recv(c) ==
  /\ Looping
  /\ pending = {}
  /\ commands # <<>> /\ c = Head(commands)
  /\ commands' = Tail(commands)

\* response.is_closed(): nobody waits for this command any more.
SkipCancelled(c) ==
  /\ Recv(c)
  /\ call[c] = "cancelled"
  /\ LeaseDrop(c)
  /\ UNCHANGED <<callVars, commandsOpen, driverVars, eventVars, ownerVars,
                 taskVars, terminal>>

\* The deadline passed while the command was queued.
RejectExpired(c) ==
  /\ Recv(c)
  /\ call[c] # "cancelled"
  /\ c \in expired
  /\ LeaseDrop(c)
  /\ completing' = {<<c, "error">>}
  /\ UNCHANGED <<callVars, commandsOpen, pending, submitted, eventVars,
                 ownerVars, taskVars, terminal>>

Submit(c) ==
  /\ Recv(c)
  /\ call[c] # "cancelled"
  /\ c \notin expired
  /\ pending' = {c}
  /\ submitted' = submitted \cup {c}
  /\ UNCHANGED <<callVars, commandsOpen, completing, eventVars, ownerVars,
                 taskVars, terminal, budgetVars>>

\* The transport refuses the command: run returns and drops it.
RefuseSubmit(c) ==
  /\ Recv(c)
  /\ call[c] # "cancelled"
  /\ c \notin expired
  /\ response' = [response EXCEPT ![c] = "dropped"]
  /\ LeaseDrop(c)
  /\ task' = "leaving" /\ result' = "Failed"
  /\ UNCHANGED <<call, expired, commandsOpen, driverVars, eventVars, ownerVars,
                 aborting, terminal>>

\* SendCommand::complete up to the drop of the lease.
Complete(c) ==
  /\ Looping
  /\ c \in pending
  /\ pending' = {}
  /\ LeaseDrop(c)
  /\ completing' = {<<c, "receipt">>}
  /\ UNCHANGED <<callVars, commandVars, submitted, eventVars, ownerVars,
                 taskVars, terminal>>

\* SendCommand::complete, the rest: a caller that was cancelled gets nothing.
Respond(c, r) ==
  /\ <<c, r>> \in completing
  /\ response' = [response EXCEPT ![c] = r]
  /\ completing' = {}
  /\ UNCHANGED <<call, expired, commandVars, pending, submitted, eventVars,
                 ownerVars, taskVars, terminal, budgetVars>>

\* Context::deliver and deliver_payload reserve before they enqueue.
ReserveArrival(m) ==
  /\ Looping
  /\ m \notin Range(arrived)
  /\ BudgetReserve(m)
  /\ arriving' = {m}
  /\ UNCHANGED <<callVars, commandVars, driverVars, events, eventsOpen, arrived,
                 received, ownerVars, taskVars, terminal>>

\* Capacity exhausted: the session ends rather than lose the message silently.
RefuseArrival(m) ==
  /\ Looping
  /\ m \notin Range(arrived)
  /\ ~Admits(Size[m])
  /\ task' = "leaving" /\ result' = "Failed"
  /\ UNCHANGED <<callVars, commandVars, driverVars, eventVars, ownerVars,
                 aborting, terminal, budgetVars>>

\* Context::enqueue.
EnqueueArrival(m) ==
  /\ m \in arriving
  /\ owner # "gone" /\ Len(events) < MaxMessages
  /\ events' = Append(events, m)
  /\ arrived' = Append(arrived, m)
  /\ arriving' = {}
  /\ UNCHANGED <<callVars, commandVars, driverVars, eventsOpen, received,
                 ownerVars, taskVars, terminal, budgetVars>>

\* The queue is full or its receiver gone: run returns the error.
LoseArrival(m) ==
  /\ m \in arriving
  /\ owner = "gone" \/ Len(events) >= MaxMessages
  /\ LeaseDrop(m)
  /\ arriving' = {}
  /\ task' = "leaving" /\ result' = "Failed"
  /\ UNCHANGED <<callVars, commandVars, driverVars, events, eventsOpen, arrived,
                 received, ownerVars, aborting, terminal>>

\* run returns r: a graceful close, or one of its errors.
Stop(r) ==
  /\ Looping
  /\ task' = "leaving" /\ result' = r
  /\ UNCHANGED <<callVars, commandVars, driverVars, eventVars, ownerVars,
                 aborting, terminal, budgetVars>>

\* Mutant of StopExpired: the deadline is looked at only while closing.
StopExpiredIfClosing == shutdown /\ pending \cap expired # {} /\ Stop("FailedUnknown")

\* The pending command's deadline passes: run returns an uncertain error.
StopExpired == pending \cap expired # {} /\ Stop("FailedUnknown")

\* The task is cancelled where it awaits, after an abort.
TakeAbort == aborting /\ Stop("abandoned")

\* The task panics, or its runtime shuts down.
Abandon == ~aborting /\ Stop("abandoned")
-----------------------------------------------------------------------------
(* The driver task on its way out: the locals and parameters of run are     *)
(* dropped (the pending command, the command receiver, the Context with the *)
(* event sender), then the spawned block publishes the result.              *)

DropPending(c) ==
  /\ task = "leaving"
  /\ c \in pending
  /\ pending' = {}
  /\ response' = [response EXCEPT ![c] = "dropped"]
  /\ LeaseDrop(c)
  /\ UNCHANGED <<call, expired, commandVars, completing, submitted, eventVars,
                 ownerVars, taskVars, terminal>>

CloseCommands ==
  /\ task = "leaving"
  /\ pending = {}
  /\ commandsOpen
  /\ commandsOpen' = FALSE
  /\ UNCHANGED <<callVars, commands, driverVars, eventVars, ownerVars, taskVars,
                 terminal, budgetVars>>

\* Dropping the receiver drops what is still queued.
DrainCommand(c) ==
  /\ task = "leaving"
  /\ ~commandsOpen
  /\ commands # <<>> /\ c = Head(commands)
  /\ commands' = Tail(commands)
  /\ response' = [response EXCEPT ![c] = "dropped"]
  /\ LeaseDrop(c)
  /\ UNCHANGED <<call, expired, commandsOpen, driverVars, eventVars, ownerVars,
                 taskVars, terminal>>

CloseEvents ==
  /\ task = "leaving"
  /\ ~commandsOpen /\ commands = <<>>
  /\ eventsOpen
  /\ eventsOpen' = FALSE
  /\ UNCHANGED <<callVars, commandVars, driverVars, arriving, events, arrived,
                 received, ownerVars, taskVars, terminal, budgetVars>>

\* guard.0.send_replace: the result replaces whatever terminal was.
Publish ==
  /\ task = "leaving"
  /\ ~eventsOpen
  /\ result # "abandoned"
  /\ terminal' = result
  /\ task' = "finished"
  /\ UNCHANGED <<callVars, commandVars, driverVars, eventVars, ownerVars, result,
                 aborting, budgetVars>>

\* TerminalGuard's drop reads terminal, and later replaces an Open one.
Guard ==
  /\ task = "leaving"
  /\ ~eventsOpen
  /\ result = "abandoned"
  /\ task' = IF terminal = "Open" THEN "guarding" ELSE "finished"
  /\ UNCHANGED <<callVars, commandVars, driverVars, eventVars, ownerVars, result,
                 aborting, terminal, budgetVars>>

GuardPublish ==
  /\ task = "guarding"
  /\ terminal' = "Failed"
  /\ task' = "finished"
  /\ UNCHANGED <<callVars, commandVars, driverVars, eventVars, ownerVars, result,
                 aborting, budgetVars>>

Unwind ==
  \/ \E c \in Call : DropPending(c) \/ DrainCommand(c)
  \/ CloseCommands \/ CloseEvents \/ Publish \/ Guard \/ GuardPublish
-----------------------------------------------------------------------------
(* The owner of the Session.                                                *)

\* Session::next with a message queued; its lease is dropped on return.
Next_Message(m) ==
  /\ owner = "using"
  /\ events # <<>> /\ m = Head(events)
  /\ received' = Append(received, m)
  /\ events' = Tail(events)
  /\ LeaseDrop(m)
  /\ UNCHANGED <<callVars, commandVars, driverVars, arriving, eventsOpen, arrived,
                 ownerVars, taskVars, terminal>>

\* Mutant of Next_End: next looks at terminal before the event queue.
EndBeforeDrain ==
  /\ owner = "using" /\ ended = "no"
  /\ terminal # "Open"
  /\ ended' = terminal
  /\ UNCHANGED <<callVars, commandVars, driverVars, eventVars, owner, shutdown,
                 closeResult, taskVars, terminal, budgetVars>>

\* Session::next once the event sender is gone and the queue empty.
Next_End ==
  /\ owner = "using" /\ ended = "no"
  /\ ~eventsOpen /\ events = <<>>
  /\ terminal # "Open"
  /\ ended' = terminal
  /\ UNCHANGED <<callVars, commandVars, driverVars, eventVars, owner, shutdown,
                 closeResult, taskVars, terminal, budgetVars>>

\* Session::close consumes the Session; its event receiver lives until the
\* future of close ends.
Close ==
  /\ owner = "using"
  /\ owner' = "closing" /\ shutdown' = TRUE
  /\ UNCHANGED <<callVars, commandVars, driverVars, eventVars, ended, closeResult,
                 taskVars, terminal, budgetVars>>

\* The task was joined within the timeout.
CloseJoined ==
  /\ owner = "closing"
  /\ task = "finished"
  /\ owner' = "gone"
  /\ closeResult' = IF result # "abandoned" /\ terminal = "Closed" THEN "receipt" ELSE "error"
  /\ UNCHANGED <<callVars, commandVars, driverVars, eventVars, ended, shutdown,
                 taskVars, terminal, budgetVars>>

\* Mutant of CloseTimeout: the timeout waits for the senders.
CloseTimeoutAfterSends ==
  /\ owner = "closing"
  /\ task # "finished"
  /\ \A c \in Call : call[c] # "awaiting"
  /\ owner' = "expiring"
  /\ UNCHANGED <<callVars, commandVars, driverVars, eventVars, ended, shutdown,
                 closeResult, taskVars, terminal, budgetVars>>

\* The timeout elapses; the task may still finish before what follows.
CloseTimeout ==
  /\ owner = "closing"
  /\ task # "finished"
  /\ owner' = "expiring"
  /\ UNCHANGED <<callVars, commandVars, driverVars, eventVars, ended, shutdown,
                 closeResult, taskVars, terminal, budgetVars>>

CloseAbort ==
  /\ owner = "expiring"
  /\ terminal' = "Failed"
  /\ aborting' = TRUE
  /\ owner' = "reaping"
  /\ UNCHANGED <<callVars, commandVars, driverVars, eventVars, ended, shutdown,
                 closeResult, task, result, budgetVars>>

\* The aborted task is joined.
Reap ==
  /\ owner = "reaping"
  /\ task = "finished"
  /\ owner' = "gone" /\ closeResult' = "error"
  /\ UNCHANGED <<callVars, commandVars, driverVars, eventVars, ended, shutdown,
                 taskVars, terminal, budgetVars>>

\* Drop for Session, of an idle Session or of one whose close was cancelled:
\* it reads terminal, replaces an Open one, and aborts the task.
DropSession ==
  /\ owner \in {"using", "closing"}
  /\ IF terminal = "Open"
     THEN owner' = "dropping" /\ UNCHANGED aborting
     ELSE owner' = "gone" /\ aborting' = TRUE
  /\ UNCHANGED <<callVars, commandVars, driverVars, eventVars, ended, shutdown,
                 closeResult, task, result, terminal, budgetVars>>

\* Mutant of DropAbort: dropping the JoinHandle alone detaches the task.
DropDetaching ==
  /\ owner = "dropping"
  /\ terminal' = "Failed"
  /\ owner' = "gone"
  /\ UNCHANGED <<callVars, commandVars, driverVars, eventVars, ended, shutdown,
                 closeResult, taskVars, budgetVars>>

DropAbort ==
  /\ owner = "dropping"
  /\ terminal' = "Failed"
  /\ aborting' = TRUE
  /\ owner' = "gone"
  /\ UNCHANGED <<callVars, commandVars, driverVars, eventVars, ended, shutdown,
                 closeResult, task, result, budgetVars>>

\* close is cancelled after its timeout: the task was already aborted.
DropReaping ==
  /\ owner = "reaping"
  /\ owner' = "gone"
  /\ UNCHANGED <<callVars, commandVars, driverVars, eventVars, ended, shutdown,
                 closeResult, taskVars, terminal, budgetVars>>

\* Dropping the event receiver drops what is queued.
DiscardEvent(m) ==
  /\ owner = "gone"
  /\ events # <<>> /\ m = Head(events)
  /\ events' = Tail(events)
  /\ LeaseDrop(m)
  /\ UNCHANGED <<callVars, commandVars, driverVars, arriving, eventsOpen, arrived,
                 received, ownerVars, taskVars, terminal>>

OwnerStep ==
  \/ \E m \in Arrival : Next_Message(m) \/ DiscardEvent(m)
  \/ Next_End \/ Close \/ CloseJoined \/ CloseTimeout \/ CloseAbort
  \/ Reap \/ DropSession \/ DropAbort \/ DropReaping
-----------------------------------------------------------------------------
TakeCommand(c) ==
  SkipCancelled(c) \/ RejectExpired(c) \/ Submit(c) \/ RefuseSubmit(c)

\* What the driver goes on to do without waiting for anything.
Continue ==
  \/ \E c \in Call, r \in {"receipt", "error"} : Respond(c, r)
  \/ \E m \in Arrival : EnqueueArrival(m) \/ LoseArrival(m)

DriverStep ==
  \/ \E c \in Call : TakeCommand(c) \/ Complete(c)
  \/ \E m \in Arrival : ReserveArrival(m) \/ RefuseArrival(m)
  \/ \E r \in {"Closed", "Failed", "FailedUnknown"} : Stop(r)
  \/ Continue \/ TakeAbort \/ Abandon

CallerStep == \E c \in Call : SendStep(c) \/ Cancel(c) \/ Expire(c)

\* Every caller has its answer, the owner is gone and the task has ended.
Terminating ==
  /\ \A c \in Call : call[c] \in Settled
  /\ owner = "gone" /\ task = "finished" /\ events = <<>>
  /\ UNCHANGED vars

Next == CallerStep \/ DriverStep \/ Unwind \/ OwnerStep \/ Terminating

Spec == Init /\ [][Next]_vars

\* The runtime polls the task, the callers that called and the owner; timers
\* fire.  Nobody has to call, and the peer owes nothing: Enter, Complete, Stop
\* and the arrivals are not fair.  Before a shutdown the driver's select takes
\* a queued command; after it, it need not.
Fairness ==
  /\ \A c \in Call : WF_vars(call[c] # "idle" /\ SendStep(c)) /\ WF_vars(Expire(c))
  /\ WF_vars(~shutdown /\ \E c \in Call : TakeCommand(c))
  /\ WF_vars(Continue)
  /\ WF_vars(StopExpired)
  /\ WF_vars(TakeAbort)
  /\ WF_vars(Unwind)
  /\ WF_vars(CloseJoined \/ CloseTimeout)
  /\ WF_vars(CloseAbort \/ Reap \/ DropAbort)
  /\ WF_vars(\E m \in Arrival : DiscardEvent(m))

FairSpec == Spec /\ Fairness
-----------------------------------------------------------------------------
\* What is still with its caller, and what a caller may be doing while its
\* command is with the driver.
AtSender(c) == call[c] \in {"idle", "admitted", "reserved"}
Waiting(c) == call[c] \in {"awaiting", "cancelled"} /\ response[c] = "none"

\* A command is with its caller, in the queue, pending, being completed or
\* answered, and in one of these places only.
CommandPlacement ==
  /\ IsInjective(commands)
  /\ \A c, d \in pending : c = d
  /\ \A c \in Range(commands) : Waiting(c) /\ c \notin submitted
  /\ \A c \in pending : Waiting(c) /\ c \in submitted
  /\ \A c \in Call, r \in {"receipt", "error"} :
       <<c, r>> \in completing =>
         /\ Waiting(c)
         /\ c \notin Range(commands) \cup pending
         /\ r = "receipt" <=> c \in submitted
  /\ \A c \in Call :
       /\ AtSender(c) => response[c] = "none" /\ c \notin submitted
       /\ response[c] = "receipt" => c \in submitted
       /\ response[c] = "error" => c \notin submitted
       /\ call[c] = "lost" => response[c] = "dropped"

\* A message is being delivered or queued, and queued once.
ArrivalPlacement ==
  /\ IsInjective(events)
  /\ Range(events) \subseteq Range(arrived)
  /\ arriving \cap Range(arrived) = {}
  /\ \A m, n \in arriving : m = n

\* The bodies that something in the session holds.
Held ==
  {c \in Call : call[c] = "reserved"} \cup Range(commands) \cup pending
    \cup arriving \cup Range(events)

\* A lease exists exactly for the bodies that are held somewhere: no path
\* (refusal, cancellation, expiry, completion, teardown) leaks one or drops one
\* whose body is still buffered.
LeaseFollowsBody == live = Held

\* And the quota counts the leases, no more and no fewer, within its limits.
LeasesAreExact == LeaseFollowsBody /\ Accounted /\ WithinLimits

\* A caller that holds a lease finds room in the command queue and a delivery
\* finds room in the event queue: both queues are as long as the quota is wide,
\* so `queue is full' is never what refuses a body that was admitted.
SlotFollowsLease ==
  /\ \A c \in Call : call[c] = "reserved" => Len(commands) < MaxMessages
  /\ arriving # {} => Len(events) < MaxMessages

\* What send returns is true of the wire: a receipt only for a submitted
\* command, an error that is not delivery_unknown only for a command that never
\* was and never will be submitted, delivery_unknown only for a queued command.
OutcomeHonest ==
  \A c \in Call :
    /\ call[c] = "receipt" => c \in submitted
    /\ call[c] = "error" => c \notin submitted \cup Range(commands)
    /\ call[c] = "unknown" => response[c] = "dropped"

\* SendCommand::complete: `Publish the receipt only after capacity is reusable
\* by its recipient'.
CapacityBeforeResponse ==
  \A c \in Call : response[c] \in {"receipt", "error"} => c \notin live

\* Session::next reports the terminal status only after every observation that
\* was queued, in arrival order, and nothing is queued afterwards.
EndAfterDrain == ended # "no" => received = arrived

\* A graceful receipt of close is the driver's own.
CloseReceiptIsTheDrivers == closeResult = "receipt" => result = "Closed"

\* What the owner is told of the end, by next or by close, is true.
EndsAreTrue == EndAfterDrain /\ CloseReceiptIsTheDrivers

\* Every queued send returns, whatever becomes of the driver and the owner.
SendReturns ==
  \A c \in Call : call[c] = "awaiting" ~> call[c] \in Settled

\* close returns or is cancelled, although the driver may ignore the shutdown.
CloseReturns == owner = "closing" ~> owner = "gone"

\* Once the Session is gone its task ends, every capacity is returned and the
\* senders it leaves behind are refused.
GoneReleases ==
  owner = "gone" ~> task = "finished" /\ terminal # "Open" /\ live \cap Arrival = {}
=============================================================================
