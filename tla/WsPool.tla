------------------------------- MODULE WsPool -------------------------------
(***************************************************************************)
(* The pool of WebSocket connections of the TypeScript engine (ws-pool.ts).*)
(*                                                                         *)
(* An action is one task of the event loop with the microtasks it starts:  *)
(* when a dial opens or fails, everybody who waits for it resumes before   *)
(* another event is delivered.  Sockets are numbered in the order in which *)
(* they are dialled.                                                       *)
(***************************************************************************)
EXTENDS Integers, FiniteSets

CONSTANTS
  User,        \* concurrent callers of acquire
  Key,         \* pool keys: server, address, credentials, isolation
  MaxSockets   \* bound on the dials

ASSUME MaxSocketsIsNatural == MaxSockets \in Nat
ASSUME UserIsFinite == IsFiniteSet(User)
ASSUME KeyIsNotEmpty == Key # {}

Socket == 1..MaxSockets
NoSocket == 0

VARIABLES
  conns, creating,     \* the socket of a key that is pooled, or being dialled
  key,                 \* the key that an entry was dialled for
  ready,               \* readyState of a socket, "unused" before its dial
  refCount,
  timers, idleTimer,   \* the live timers of an entry, and whether it knows the newest
  abandoned,           \* the caller that created the entry gave up its dial
  phase,               \* a caller: "idle", "creating", "joining" or "holding"
  held                 \* the socket that a caller waits for or holds

poolVars == <<conns, creating>>
socketVars == <<key, ready, refCount, timers, idleTimer, abandoned>>
userVars == <<phase, held>>
vars == <<poolVars, socketVars, userVars>>

Waiting(s) == {u \in User : held[u] = s /\ phase[u] \in {"creating", "joining"}}
Holders(s) == {u \in User : held[u] = s /\ phase[u] = "holding"}

Init ==
  /\ conns = [k \in Key |-> NoSocket] /\ creating = [k \in Key |-> NoSocket]
  /\ key = [s \in Socket |-> CHOOSE k \in Key : TRUE]
  /\ ready = [s \in Socket |-> "unused"]
  /\ refCount = [s \in Socket |-> 0]
  /\ timers = [s \in Socket |-> 0] /\ idleTimer = [s \in Socket |-> FALSE]
  /\ abandoned = [s \in Socket |-> FALSE]
  /\ phase = [u \in User |-> "idle"] /\ held = [u \in User |-> NoSocket]

Reusable(k) == conns[k] # NoSocket /\ ready[conns[k]] \in {"connecting", "open"}

(* The fast path of acquire: a ready entry is taken from its idle timer.   *)
AcquirePooled(u, k) ==
  LET s == conns[k] IN
  /\ phase[u] = "idle" /\ Reusable(k)
  /\ timers' = [timers EXCEPT ![s] = IF idleTimer[s] THEN @ - 1 ELSE @]
  /\ idleTimer' = [idleTimer EXCEPT ![s] = FALSE]
  /\ refCount' = [refCount EXCEPT ![s] = @ + 1]
  /\ phase' = [phase EXCEPT ![u] = "holding"] /\ held' = [held EXCEPT ![u] = s]
  /\ UNCHANGED <<poolVars, key, ready, abandoned>>

AcquireJoins(u, k) ==
  /\ phase[u] = "idle" /\ ~Reusable(k) /\ creating[k] # NoSocket
  /\ phase' = [phase EXCEPT ![u] = "joining"]
  /\ held' = [held EXCEPT ![u] = creating[k]]
  /\ UNCHANGED <<poolVars, socketVars>>

AcquireDials(u, k) ==
  /\ phase[u] = "idle" /\ ~Reusable(k) /\ creating[k] = NoSocket
  /\ \E s \in Socket :
       /\ ready[s] = "unused" /\ \A t \in 1..(s - 1) : ready[t] # "unused"
       /\ ready' = [ready EXCEPT ![s] = "connecting"] /\ key' = [key EXCEPT ![s] = k]
       /\ creating' = [creating EXCEPT ![k] = s]
       /\ held' = [held EXCEPT ![u] = s]
  /\ phase' = [phase EXCEPT ![u] = "creating"]
  /\ UNCHANGED <<conns, refCount, timers, idleTimer, abandoned>>

(* Mutant of AbortAcquire: the dial that goes on is forgotten at once.     *)
AbortForgetting(u) ==
  /\ phase[u] \in {"creating", "joining"}
  /\ creating' = [k \in Key |-> IF creating[k] = held[u] /\ phase[u] = "creating"
                                THEN NoSocket ELSE creating[k]]
  /\ abandoned' = [abandoned EXCEPT ![held[u]] = @ \/ phase[u] = "creating"]
  /\ phase' = [phase EXCEPT ![u] = "idle"] /\ held' = [held EXCEPT ![u] = NoSocket]
  /\ UNCHANGED <<conns, key, ready, refCount, timers, idleTimer>>

(* The signal of an acquire aborts it while the dial is in flight; the     *)
(* dial goes on, and its creator leaves a continuation behind.             *)
AbortAcquire(u) ==
  /\ phase[u] \in {"creating", "joining"}
  /\ abandoned' = [abandoned EXCEPT ![held[u]] = @ \/ phase[u] = "creating"]
  /\ phase' = [phase EXCEPT ![u] = "idle"] /\ held' = [held EXCEPT ![u] = NoSocket]
  /\ UNCHANGED <<poolVars, key, ready, refCount, timers, idleTimer>>

(* A dial opens: its creator pools it, everybody who waited holds it.  The *)
(* continuation of a creator that gave up parks it, unless the key still   *)
(* has an entry, and before or after those who joined were counted.        *)
DialOpens(k) ==
  LET s == creating[k]
      parks == abandoned[s] /\ conns[k] = NoSocket
  IN
  /\ s # NoSocket
  /\ ready' = [ready EXCEPT ![s] = "open"]
  /\ creating' = [creating EXCEPT ![k] = NoSocket]
  /\ conns' = [conns EXCEPT ![k] = IF parks \/ ~abandoned[s] THEN s ELSE @]
  /\ refCount' = [refCount EXCEPT ![s] = Cardinality(Waiting(s))]
  /\ \E starts \in BOOLEAN :
       /\ starts => parks
       /\ (parks /\ Waiting(s) = {}) => starts
       /\ timers' = [timers EXCEPT ![s] = IF starts THEN 1 ELSE 0]
       /\ idleTimer' = [idleTimer EXCEPT ![s] = starts]
  /\ phase' = [u \in User |-> IF u \in Waiting(s) THEN "holding" ELSE phase[u]]
  /\ UNCHANGED <<key, abandoned, held>>

(* The listeners of close and error drop whatever the key maps to.         *)
Evicted(k) == [conns EXCEPT ![k] = NoSocket]

(* Mutant of DialFails: only the creator hears of it.                      *)
DialFailsQuietly(k) ==
  LET s == creating[k]
      told == {u \in Waiting(s) : phase[u] = "creating"}
  IN
  /\ s # NoSocket
  /\ ready' = [ready EXCEPT ![s] = "closed"]
  /\ creating' = [creating EXCEPT ![k] = NoSocket]
  /\ conns' = Evicted(k)
  /\ phase' = [u \in User |-> IF u \in told THEN "idle" ELSE phase[u]]
  /\ held' = [u \in User |-> IF u \in told THEN NoSocket ELSE held[u]]
  /\ UNCHANGED <<key, refCount, timers, idleTimer, abandoned>>

(* A dial fails: everybody who waits for it is refused.                    *)
DialFails(k) ==
  LET s == creating[k] IN
  /\ s # NoSocket
  /\ ready' = [ready EXCEPT ![s] = "closed"]
  /\ creating' = [creating EXCEPT ![k] = NoSocket]
  /\ conns' = Evicted(k)
  /\ phase' = [u \in User |-> IF u \in Waiting(s) THEN "idle" ELSE phase[u]]
  /\ held' = [u \in User |-> IF u \in Waiting(s) THEN NoSocket ELSE held[u]]
  /\ UNCHANGED <<key, refCount, timers, idleTimer, abandoned>>

(* The peer starts the close handshake.                                    *)
PeerCloses(s) ==
  /\ ready[s] = "open"
  /\ ready' = [ready EXCEPT ![s] = "closing"]
  /\ UNCHANGED <<poolVars, key, refCount, timers, idleTimer, abandoned, userVars>>

(* The close event of a socket, after a handshake or an error.             *)
SocketClosed(s) ==
  /\ ready[s] \in {"open", "closing"}
  /\ ready' = [ready EXCEPT ![s] = "closed"]
  /\ conns' = Evicted(key[s])
  /\ UNCHANGED <<creating, key, refCount, timers, idleTimer, abandoned, userVars>>

(* Mutant of Release: the caller of a socket that died is not counted.     *)
ReleaseLive(u) ==
  LET s == held[u] IN
  /\ phase[u] = "holding"
  /\ phase' = [phase EXCEPT ![u] = "idle"] /\ held' = [held EXCEPT ![u] = NoSocket]
  /\ refCount' = [refCount EXCEPT ![s] = IF ready[s] = "open" THEN @ - 1 ELSE @]
  /\ LET starts == refCount[s] <= 1 IN
       /\ timers' = [timers EXCEPT ![s] = IF starts THEN @ + 1 ELSE @]
       /\ idleTimer' = [idleTimer EXCEPT ![s] = @ \/ starts]
  /\ UNCHANGED <<poolVars, key, ready, abandoned>>

(* release: the last reference starts a timer, over any that still runs.   *)
Release(u) ==
  LET s == held[u] IN
  /\ phase[u] = "holding"
  /\ phase' = [phase EXCEPT ![u] = "idle"] /\ held' = [held EXCEPT ![u] = NoSocket]
  /\ refCount' = [refCount EXCEPT ![s] = @ - 1]
  /\ LET starts == refCount[s] <= 1 IN
       /\ timers' = [timers EXCEPT ![s] = IF starts THEN @ + 1 ELSE @]
       /\ idleTimer' = [idleTimer EXCEPT ![s] = @ \/ starts]
  /\ UNCHANGED <<poolVars, key, ready, abandoned>>

(* Mutant of TimerFires: a timer that another caller overtook still closes.*)
TimerFiresUnchecked(s) ==
  LET k == key[s] IN
  /\ timers[s] > 0
  /\ timers' = [timers EXCEPT ![s] = @ - 1] /\ idleTimer' = [idleTimer EXCEPT ![s] = FALSE]
  /\ conns' = [conns EXCEPT ![k] = IF @ = s THEN NoSocket ELSE @]
  /\ ready' = [ready EXCEPT ![s] = IF conns[k] = s /\ @ = "open" THEN "closing" ELSE @]
  /\ UNCHANGED <<creating, key, refCount, abandoned, userVars>>

(* An idle timer: the entry is closed and evicted if it is still the one   *)
(* of its key and nobody holds it.                                         *)
TimerFires(s) ==
  LET k == key[s] IN
  /\ timers[s] > 0
  /\ timers' = [timers EXCEPT ![s] = @ - 1] /\ idleTimer' = [idleTimer EXCEPT ![s] = FALSE]
  /\ \/ /\ conns[k] = s /\ refCount[s] <= 0
        /\ conns' = Evicted(k)
        /\ ready' = [ready EXCEPT ![s] = IF @ = "open" THEN "closing" ELSE @]
     \/ /\ conns[k] # s \/ refCount[s] > 0
        /\ UNCHANGED <<conns, ready>>
  /\ UNCHANGED <<creating, key, refCount, abandoned, userVars>>

(* closeAll closes what is pooled; a dial in flight is left to land.       *)
CloseAll ==
  LET pooled == {s \in Socket : \E k \in Key : conns[k] = s} IN
  /\ pooled # {}
  /\ conns' = [k \in Key |-> NoSocket]
  /\ ready' = [s \in Socket |-> IF s \in pooled /\ ready[s] = "open"
                                THEN "closing" ELSE ready[s]]
  /\ timers' = [s \in Socket |-> IF s \in pooled /\ idleTimer[s]
                                 THEN timers[s] - 1 ELSE timers[s]]
  /\ UNCHANGED <<creating, key, refCount, idleTimer, abandoned, userVars>>

Next ==
  \/ \E u \in User : AbortAcquire(u) \/ Release(u)
  \/ \E u \in User, k \in Key : AcquirePooled(u, k) \/ AcquireJoins(u, k) \/ AcquireDials(u, k)
  \/ \E k \in Key : DialOpens(k) \/ DialFails(k)
  \/ \E s \in Socket : PeerCloses(s) \/ SocketClosed(s) \/ TimerFires(s)
  \/ CloseAll

Spec == Init /\ [][Next]_vars

(* A dial ends one way or the other, and a timer that runs fires.  Neither *)
(* callers nor peers owe anything.                                         *)
Fairness ==
  /\ \A k \in Key : WF_vars(DialOpens(k) \/ DialFails(k))
  /\ \A s \in Socket : WF_vars(TimerFires(s))

FairSpec == Spec /\ Fairness

(***************************************************************************)
(* Properties                                                              *)
(***************************************************************************)

TypeOK ==
  /\ conns \in [Key -> Socket \union {NoSocket}]
  /\ creating \in [Key -> Socket \union {NoSocket}]
  /\ key \in [Socket -> Key]
  /\ ready \in [Socket -> {"unused", "connecting", "open", "closing", "closed"}]
  /\ refCount \in [Socket -> Nat] /\ timers \in [Socket -> Nat]
  /\ idleTimer \in [Socket -> BOOLEAN] /\ abandoned \in [Socket -> BOOLEAN]
  /\ phase \in [User -> {"idle", "creating", "joining", "holding"}]
  /\ held \in [User -> Socket \union {NoSocket}]

(* A socket counts as many references as callers hold it, whatever mix of  *)
(* creating, joining, reuse, aborts and deaths led to them.                *)
CountsAgree == \A s \in Socket : refCount[s] = Cardinality(Holders(s))

(* Two callers of one key never dial at once, even if the first gave up.   *)
OneDialAtATime ==
  \A s, t \in Socket :
    ready[s] = "connecting" /\ ready[t] = "connecting" /\ key[s] = key[t] => s = t

(* A timer left behind by an earlier release closes nothing that is held.  *)
TimersSpareHolders ==
  [][\A s \in Socket : TimerFires(s) /\ Holders(s) # {} => UNCHANGED <<conns, ready>>]_vars

(* Whatever way a caller comes to its socket, the socket is open then.     *)
HandedOpen ==
  [][\A u \in User : phase[u] # "holding" /\ phase'[u] = "holding"
                      => ready'[held'[u]] = "open"]_vars

(* A caller comes to an open socket, and no idle timer takes it away.      *)
HoldersKeepSockets == HandedOpen /\ TimersSpareHolders

(* Nobody waits for ever: a caller that waits for a dial, its own or not,  *)
(* gets the socket, a refusal, or its abort.                               *)
AcquireSettles ==
  \A u \in User : phase[u] \in {"creating", "joining"}
                   ~> phase[u] \in {"idle", "holding"}
=============================================================================
