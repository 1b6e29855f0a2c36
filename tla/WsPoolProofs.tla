---------------------------- MODULE WsPoolProofs ----------------------------
(***************************************************************************)
(* What the pool guarantees for any number of callers, keys and dials.     *)
(***************************************************************************)
EXTENDS WsPool, FiniteSetTheorems, TLAPS

(***************************************************************************)
(* The inductive invariant.                                                *)
(***************************************************************************)

\* The dial of a key is in flight, and for that key.
DialsAreForTheirKey ==
  \A k \in Key : creating[k] # NoSocket
                   => ready[creating[k]] = "connecting" /\ key[creating[k]] = k

\* A dial in flight is the one of its key: acquire finds it there.
DialsAreListed == \A s \in Socket : ready[s] = "connecting" => creating[key[s]] = s

\* A pooled socket was open once, and is pooled under its own key.
PooledUnderKey ==
  \A k \in Key : conns[k] # NoSocket
                   => ready[conns[k]] \in {"open", "closing"} /\ key[conns[k]] = k

\* A caller waits for a dial in flight, or holds a socket that opened.
CallersHaveSockets ==
  \A u \in User :
    /\ phase[u] = "idle" => held[u] = NoSocket
    /\ phase[u] \in {"creating", "joining"}
         => held[u] \in Socket /\ ready[held[u]] = "connecting"
    /\ phase[u] = "holding"
         => held[u] \in Socket /\ ready[held[u]] \in {"open", "closing", "closed"}

\* The timer that a pooled entry knows is a live one.
KnownTimersLive ==
  \A s \in Socket : idleTimer[s] /\ conns[key[s]] = s => timers[s] > 0

PoolInv ==
  /\ TypeOK /\ DialsAreForTheirKey /\ DialsAreListed /\ PooledUnderKey
  /\ CallersHaveSockets /\ KnownTimersLive /\ CountsAgree

\* The empty pool satisfies the invariant.
LEMMA Initially == Init => PoolInv
<1> SUFFICES ASSUME Init PROVE PoolInv
  OBVIOUS
<1>1. TypeOK
  <2>1. (CHOOSE k \in Key : TRUE) \in Key
    BY KeyIsNotEmpty
  <2>2. QED
    BY <2>1 DEF Init, TypeOK
<1>2. CountsAgree
  <2>1. ASSUME NEW s \in Socket PROVE Holders(s) = {}
    BY DEF Init, Holders
  <2>2. QED
    BY <2>1, FS_EmptySet DEF Init, CountsAgree
<1>3. DialsAreForTheirKey /\ DialsAreListed /\ PooledUnderKey /\ CallersHaveSockets /\ KnownTimersLive
  BY DEF Init, DialsAreForTheirKey, DialsAreListed, PooledUnderKey, CallersHaveSockets,
         KnownTimersLive
<1>4. QED
  BY <1>1, <1>2, <1>3 DEF PoolInv

(***************************************************************************)
(* References.                                                             *)
(***************************************************************************)

\* The callers of a socket can be counted.
LEMMA CallersCounted ==
  ASSUME NEW T \in SUBSET User
  PROVE  IsFiniteSet(T) /\ Cardinality(T) \in Nat
BY UserIsFinite, FS_Subset, FS_CardinalityType

\* The sockets are numbered from one: none of them is NoSocket.
LEMMA SocketsAreNumbers == Socket \subseteq Nat /\ NoSocket \notin Socket
BY MaxSocketsIsNatural DEF Socket, NoSocket

\* A step that changes no holder and no count.
LEMMA CountsKept ==
  ASSUME CountsAgree, UNCHANGED refCount, \A s \in Socket : Holders(s)' = Holders(s)
  PROVE  CountsAgree'
<1>1. \A s \in Socket : refCount'[s] = Cardinality(Holders(s)')
  BY DEF CountsAgree
<1>2. QED
  BY <1>1 DEF CountsAgree

\* One caller more, and one reference more.
LEMMA CountsGain ==
  ASSUME TypeOK, CountsAgree, NEW u \in User, NEW s \in Socket, phase[u] # "holding",
         phase' = [phase EXCEPT ![u] = "holding"], held' = [held EXCEPT ![u] = s],
         refCount' = [refCount EXCEPT ![s] = @ + 1]
  PROVE  CountsAgree'
<1>1. phase' \in [User -> {"idle", "creating", "joining", "holding"}]
      /\ held' \in [User -> Socket \union {NoSocket}]
  BY DEF TypeOK
<1>2. Holders(s)' = Holders(s) \union {u} /\ u \notin Holders(s)
  BY <1>1 DEF Holders, TypeOK
<1>3. Cardinality(Holders(s)') = Cardinality(Holders(s)) + 1
  <2>1. Holders(s) \in SUBSET User
    BY DEF Holders
  <2>2. QED
    BY <1>2, <2>1, CallersCounted, FS_AddElement
<1>4. ASSUME NEW t \in Socket, t # s PROVE Holders(t)' = Holders(t)
  BY <1>1, <1>4 DEF Holders, TypeOK
<1>5. ASSUME NEW t \in Socket PROVE refCount'[t] = Cardinality(Holders(t)')
  <2>1. CASE t = s
    BY <1>3, <2>1 DEF CountsAgree, TypeOK
  <2>2. CASE t # s
    BY <1>4, <2>2 DEF CountsAgree, TypeOK
  <2>3. QED
    BY <2>1, <2>2
<1>6. QED
  BY <1>5 DEF CountsAgree

\* One caller less, and one reference less: there was one.
LEMMA CountsLose ==
  ASSUME TypeOK, CountsAgree, NEW u \in User, NEW s \in Socket, phase[u] = "holding", held[u] = s,
         phase' = [phase EXCEPT ![u] = "idle"], held' = [held EXCEPT ![u] = NoSocket],
         refCount' = [refCount EXCEPT ![s] = @ - 1]
  PROVE  CountsAgree' /\ refCount[s] > 0
<1>1. phase' \in [User -> {"idle", "creating", "joining", "holding"}]
      /\ held' \in [User -> Socket \union {NoSocket}]
  BY DEF TypeOK
<1>2. Holders(s)' = Holders(s) \ {u} /\ u \in Holders(s)
  BY <1>1, SocketsAreNumbers DEF Holders, TypeOK
<1>3. Cardinality(Holders(s)') = Cardinality(Holders(s)) - 1 /\ Cardinality(Holders(s)) > 0
  <2>1. Holders(s) \in SUBSET User /\ Holders(s) \ {u} \in SUBSET User
    BY DEF Holders
  <2>2. Cardinality(Holders(s)) \in Nat /\ Cardinality(Holders(s) \ {u}) \in Nat
    BY <2>1, CallersCounted
  <2>3. Cardinality(Holders(s) \ {u}) = Cardinality(Holders(s)) - 1
    BY <1>2, <2>1, CallersCounted, FS_RemoveElement
  <2>4. QED
    BY <1>2, <2>2, <2>3
<1>4. ASSUME NEW t \in Socket, t # s PROVE Holders(t)' = Holders(t)
  BY <1>1, <1>4, SocketsAreNumbers DEF Holders, TypeOK
<1>5. ASSUME NEW t \in Socket PROVE refCount'[t] = Cardinality(Holders(t)')
  <2>1. CASE t = s
    BY <1>3, <2>1 DEF CountsAgree, TypeOK
  <2>2. CASE t # s
    BY <1>4, <2>2 DEF CountsAgree, TypeOK
  <2>3. QED
    BY <2>1, <2>2
<1>6. QED
  BY <1>3, <1>5 DEF CountsAgree

(***************************************************************************)
(* Every action keeps the invariant.                                       *)
(***************************************************************************)

\* Reusing an entry takes it from its idle timer.
LEMMA AcquiringPooled ==
  ASSUME PoolInv, NEW u \in User, NEW k \in Key, AcquirePooled(u, k)
  PROVE  PoolInv'
<1> DEFINE s == conns[k]
<1>1. s \in Socket /\ ready[s] = "open" /\ key[s] = k /\ (idleTimer[s] => timers[s] > 0)
  BY DEF PoolInv, AcquirePooled, Reusable, PooledUnderKey, KnownTimersLive, TypeOK
<1>2. TypeOK'
  BY <1>1 DEF PoolInv, AcquirePooled, TypeOK, poolVars
<1>3. CountsAgree'
  BY <1>1, CountsGain DEF PoolInv, AcquirePooled
<1>4. CallersHaveSockets'
  BY <1>1 DEF PoolInv, AcquirePooled, CallersHaveSockets, TypeOK, poolVars
<1>5. KnownTimersLive'
  BY <1>1 DEF PoolInv, AcquirePooled, KnownTimersLive, TypeOK, poolVars
<1>6. DialsAreForTheirKey' /\ DialsAreListed' /\ PooledUnderKey'
  BY DEF PoolInv, AcquirePooled, DialsAreForTheirKey, DialsAreListed, PooledUnderKey, poolVars
<1>7. QED
  BY <1>2, <1>3, <1>4, <1>5, <1>6 DEF PoolInv

\* Joining a dial only adds to those who wait for it.
LEMMA Joining ==
  ASSUME PoolInv, NEW u \in User, NEW k \in Key, AcquireJoins(u, k)
  PROVE  PoolInv'
<1>1. creating[k] \in Socket /\ ready[creating[k]] = "connecting"
  BY DEF PoolInv, AcquireJoins, DialsAreForTheirKey, TypeOK
<1>2. TypeOK' /\ CallersHaveSockets'
  BY <1>1 DEF PoolInv, AcquireJoins, TypeOK, CallersHaveSockets, poolVars, socketVars
<1>3. CountsAgree'
  <2>1. ASSUME NEW s \in Socket PROVE Holders(s)' = Holders(s)
    BY DEF PoolInv, TypeOK, AcquireJoins, Holders
  <2>2. QED
    BY <2>1, CountsKept DEF PoolInv, AcquireJoins, socketVars
<1>4. DialsAreForTheirKey' /\ DialsAreListed' /\ PooledUnderKey' /\ KnownTimersLive'
  BY DEF PoolInv, AcquireJoins, DialsAreForTheirKey, DialsAreListed, PooledUnderKey,
         KnownTimersLive, poolVars, socketVars
<1>5. QED
  BY <1>2, <1>3, <1>4 DEF PoolInv

\* A dial starts only where the key has none.
LEMMA Dialling ==
  ASSUME PoolInv, NEW u \in User, NEW k \in Key, AcquireDials(u, k)
  PROVE  PoolInv'
<1>1. PICK s \in Socket :
        /\ ready[s] = "unused"
        /\ ready' = [ready EXCEPT ![s] = "connecting"] /\ key' = [key EXCEPT ![s] = k]
        /\ creating' = [creating EXCEPT ![k] = s]
        /\ held' = [held EXCEPT ![u] = s]
  BY DEF AcquireDials
<1>2. \A l \in Key : conns[l] # s /\ creating[l] # s
  BY <1>1, SocketsAreNumbers DEF PoolInv, PooledUnderKey, DialsAreForTheirKey
<1>3. TypeOK'
  BY <1>1 DEF PoolInv, TypeOK, AcquireDials
<1>4. CountsAgree'
  <2>1. ASSUME NEW t \in Socket PROVE Holders(t)' = Holders(t)
    BY <1>1 DEF PoolInv, TypeOK, AcquireDials, Holders
  <2>2. QED
    BY <2>1, CountsKept DEF PoolInv, AcquireDials
<1>5. CallersHaveSockets'
  BY <1>1 DEF PoolInv, TypeOK, AcquireDials, CallersHaveSockets
<1>6. DialsAreForTheirKey'
  BY <1>1, <1>2 DEF PoolInv, TypeOK, DialsAreForTheirKey
<1>7. DialsAreListed'
  <2>1. \A t \in Socket \ {s} : ready[t] = "connecting" => key[t] # k
    BY SocketsAreNumbers DEF PoolInv, DialsAreListed, AcquireDials
  <2>2. QED
    BY <1>1, <2>1 DEF PoolInv, TypeOK, DialsAreListed
<1>8. PooledUnderKey' /\ KnownTimersLive'
  BY <1>1, <1>2 DEF PoolInv, TypeOK, PooledUnderKey, KnownTimersLive, AcquireDials
<1>9. QED
  BY <1>3, <1>4, <1>5, <1>6, <1>7, <1>8 DEF PoolInv

\* An abort leaves the dial to whoever joined it.
LEMMA Aborting ==
  ASSUME PoolInv, NEW u \in User, AbortAcquire(u)
  PROVE  PoolInv'
<1>1. TypeOK' /\ CallersHaveSockets'
  BY DEF PoolInv, AbortAcquire, TypeOK, CallersHaveSockets, poolVars
<1>2. CountsAgree'
  <2>1. ASSUME NEW s \in Socket PROVE Holders(s)' = Holders(s)
    BY DEF PoolInv, TypeOK, AbortAcquire, Holders
  <2>2. QED
    BY <2>1, CountsKept DEF PoolInv, AbortAcquire
<1>3. DialsAreForTheirKey' /\ DialsAreListed' /\ PooledUnderKey' /\ KnownTimersLive'
  BY DEF PoolInv, AbortAcquire, DialsAreForTheirKey, DialsAreListed, PooledUnderKey,
         KnownTimersLive, poolVars
<1>4. QED
  BY <1>1, <1>2, <1>3 DEF PoolInv

\* When the dial of a key ends, nobody holds its socket and no other is dialled.
LEMMA DialAlone ==
  ASSUME PoolInv, NEW k \in Key, creating[k] # NoSocket
  PROVE  /\ creating[k] \in Socket /\ ready[creating[k]] = "connecting" /\ key[creating[k]] = k
         /\ Holders(creating[k]) = {}
         /\ \A l \in Key : conns[l] # creating[k]
         /\ \A l \in Key \ {k} : creating[l] # creating[k]
<1>1. creating[k] \in Socket /\ ready[creating[k]] = "connecting" /\ key[creating[k]] = k
  BY DEF PoolInv, TypeOK, DialsAreForTheirKey
<1>2. Holders(creating[k]) = {}
  BY <1>1 DEF PoolInv, CallersHaveSockets, Holders
<1>3. \A l \in Key : conns[l] # creating[k]
  BY <1>1, SocketsAreNumbers DEF PoolInv, PooledUnderKey
<1>4. \A l \in Key \ {k} : creating[l] # creating[k]
  BY <1>1, SocketsAreNumbers DEF PoolInv, DialsAreForTheirKey
<1>5. QED
  BY <1>1, <1>2, <1>3, <1>4

\* Everybody who waited holds the socket that opened.
LEMMA Opening ==
  ASSUME PoolInv, NEW k \in Key, DialOpens(k)
  PROVE  PoolInv'
<1>0. PICK s \in Socket : s = creating[k]
  BY DialAlone DEF DialOpens
<1> DEFINE parks == abandoned[s] /\ conns[k] = NoSocket
<1>1. /\ s = creating[k] /\ ready[s] = "connecting" /\ key[s] = k
      /\ Holders(s) = {}
      /\ \A l \in Key : conns[l] # s
      /\ \A l \in Key \ {k} : creating[l] # s
  BY <1>0, DialAlone DEF DialOpens
<1>2. PICK starts \in BOOLEAN :
        /\ timers' = [timers EXCEPT ![s] = IF starts THEN 1 ELSE 0]
        /\ idleTimer' = [idleTimer EXCEPT ![s] = starts]
  BY <1>0 DEF DialOpens
<1>3. /\ ready' = [ready EXCEPT ![s] = "open"]
      /\ creating' = [creating EXCEPT ![k] = NoSocket]
      /\ conns' = [conns EXCEPT ![k] = IF parks \/ ~abandoned[s] THEN s ELSE @]
      /\ refCount' = [refCount EXCEPT ![s] = Cardinality(Waiting(s))]
      /\ phase' = [u \in User |-> IF u \in Waiting(s) THEN "holding" ELSE phase[u]]
      /\ UNCHANGED <<key, abandoned, held>>
  BY <1>0 DEF DialOpens
<1>4. Waiting(s) \in SUBSET User /\ Cardinality(Waiting(s)) \in Nat
  BY CallersCounted DEF Waiting
<1>a. conns'[k] \in {s, conns[k]} /\ \A l \in Key \ {k} : conns'[l] = conns[l]
  BY <1>3 DEF PoolInv, TypeOK
<1>5. TypeOK'
  <2>1. timers' \in [Socket -> Nat] /\ idleTimer' \in [Socket -> BOOLEAN]
    BY <1>2 DEF PoolInv, TypeOK
  <2>2. phase' \in [User -> {"idle", "creating", "joining", "holding"}]
    BY <1>3 DEF PoolInv, TypeOK
  <2>3. refCount' \in [Socket -> Nat]
    BY <1>3, <1>4 DEF PoolInv, TypeOK
  <2>4. conns' \in [Key -> Socket \union {NoSocket}]
    BY <1>1, <1>3 DEF PoolInv, TypeOK
  <2>5. QED
    BY <1>3, <2>1, <2>2, <2>3, <2>4 DEF PoolInv, TypeOK
<1>6. CountsAgree'
  <2>0. \A u \in User : /\ u \in Waiting(s) => phase'[u] = "holding" /\ held'[u] = s
                        /\ u \notin Waiting(s) => phase'[u] = phase[u] /\ held'[u] = held[u]
    BY <1>3 DEF Waiting
  <2>1. Holders(s)' = Waiting(s)
    <3>1. \A u \in User : u \in Waiting(s) <=> (held'[u] = s /\ phase'[u] = "holding")
      BY <1>1, <2>0 DEF Holders
    <3>2. Waiting(s) \subseteq User
      BY DEF Waiting
    <3>3. QED
      BY <3>1, <3>2 DEF Holders
  <2>2. ASSUME NEW t \in Socket, t # s PROVE Holders(t)' = Holders(t)
    <3>1. \A u \in User : (held'[u] = t /\ phase'[u] = "holding") <=> (held[u] = t /\ phase[u] = "holding")
      BY <2>0, <2>2 DEF Waiting
    <3>2. QED
      BY <3>1 DEF Holders
  <2>3. ASSUME NEW t \in Socket PROVE refCount'[t] = Cardinality(Holders(t)')
    <3>1. CASE t = s
      BY <1>3, <2>1, <3>1 DEF PoolInv, TypeOK
    <3>2. CASE t # s
      BY <1>3, <2>2, <3>2 DEF PoolInv, TypeOK, CountsAgree
    <3>3. QED
      BY <3>1, <3>2
  <2>4. QED
    BY <2>3 DEF CountsAgree
<1>7. CallersHaveSockets'
  <2>1. SUFFICES ASSUME NEW u \in User
                 PROVE  /\ phase'[u] = "idle" => held'[u] = NoSocket
                        /\ phase'[u] \in {"creating", "joining"}
                             => held'[u] \in Socket /\ ready'[held'[u]] = "connecting"
                        /\ phase'[u] = "holding"
                             => held'[u] \in Socket /\ ready'[held'[u]] \in {"open", "closing", "closed"}
    BY DEF CallersHaveSockets
  <2>2. CASE u \in Waiting(s)
    BY <1>1, <1>3, <2>2 DEF PoolInv, TypeOK, CallersHaveSockets, Waiting
  <2>3. CASE u \notin Waiting(s)
    <3>1. phase'[u] = phase[u] /\ held'[u] = held[u]
      BY <1>3, <2>3
    <3>2. held[u] = s => phase[u] \notin {"creating", "joining", "holding"}
      BY <1>1, <2>3 DEF Waiting, Holders
    <3>3. QED
      BY <1>3, <3>1, <3>2 DEF PoolInv, TypeOK, CallersHaveSockets
  <2>4. QED
    BY <2>2, <2>3
<1>8. DialsAreForTheirKey'
  BY <1>1, <1>3 DEF PoolInv, TypeOK, DialsAreForTheirKey
<1>9. DialsAreListed'
  <2>1. \A t \in Socket : ready'[t] = "connecting" => t # s /\ ready[t] = "connecting"
    BY <1>3 DEF PoolInv, TypeOK
  <2>2. \A t \in Socket \ {s} : ready[t] = "connecting" => key[t] # k
    BY <1>1 DEF PoolInv, DialsAreListed
  <2>3. QED
    BY <1>3, <2>1, <2>2 DEF PoolInv, TypeOK, DialsAreListed
<1>10. PooledUnderKey'
  BY <1>1, <1>3, <1>a DEF PoolInv, TypeOK, PooledUnderKey
<1>11. KnownTimersLive'
  <2>1. ASSUME NEW t \in Socket, idleTimer'[t], conns'[key[t]] = t PROVE timers'[t] > 0
    <3>1. CASE t = s
      BY <1>1, <1>2, <2>1, <3>1 DEF PoolInv, TypeOK
    <3>2. CASE t # s
      <4>1. conns[key[t]] = t /\ idleTimer[t] /\ timers'[t] = timers[t]
        BY <1>a, <1>2, <2>1, <3>2 DEF PoolInv, TypeOK
      <4>2. QED
        BY <4>1 DEF PoolInv, KnownTimersLive
    <3>3. QED
      BY <3>1, <3>2
  <2>2. QED
    BY <1>3, <2>1 DEF KnownTimersLive
<1>12. QED
  BY <1>5, <1>6, <1>7, <1>8, <1>9, <1>10, <1>11 DEF PoolInv

\* Everybody who waited is refused, and the dial is forgotten.
LEMMA Failing ==
  ASSUME PoolInv, NEW k \in Key, DialFails(k)
  PROVE  PoolInv'
<1> DEFINE s == creating[k]
<1>1. /\ s \in Socket /\ ready[s] = "connecting" /\ key[s] = k
      /\ Holders(s) = {}
      /\ \A l \in Key : conns[l] # s
      /\ \A l \in Key \ {k} : creating[l] # s
  BY DialAlone DEF DialFails
<1>2. /\ ready' = [ready EXCEPT ![s] = "closed"]
      /\ creating' = [creating EXCEPT ![k] = NoSocket]
      /\ conns' = [conns EXCEPT ![k] = NoSocket]
      /\ phase' = [u \in User |-> IF u \in Waiting(s) THEN "idle" ELSE phase[u]]
      /\ held' = [u \in User |-> IF u \in Waiting(s) THEN NoSocket ELSE held[u]]
      /\ UNCHANGED <<key, refCount, timers, idleTimer, abandoned>>
  BY DEF DialFails, Evicted
<1>3. TypeOK'
  <2>1. phase' \in [User -> {"idle", "creating", "joining", "holding"}]
        /\ held' \in [User -> Socket \union {NoSocket}]
    BY <1>2 DEF PoolInv, TypeOK
  <2>2. QED
    BY <1>2, <2>1 DEF PoolInv, TypeOK
<1>4. CountsAgree'
  <2>1. ASSUME NEW t \in Socket PROVE Holders(t)' = Holders(t)
    BY <1>2 DEF Holders, Waiting
  <2>2. QED
    BY <1>2, <2>1, CountsKept DEF PoolInv
<1>5. CallersHaveSockets'
  <2>1. SUFFICES ASSUME NEW u \in User
                 PROVE  /\ phase'[u] = "idle" => held'[u] = NoSocket
                        /\ phase'[u] \in {"creating", "joining"}
                             => held'[u] \in Socket /\ ready'[held'[u]] = "connecting"
                        /\ phase'[u] = "holding"
                             => held'[u] \in Socket /\ ready'[held'[u]] \in {"open", "closing", "closed"}
    BY DEF CallersHaveSockets
  <2>2. CASE u \in Waiting(s)
    BY <1>2, <2>2
  <2>3. CASE u \notin Waiting(s)
    <3>1. phase'[u] = phase[u] /\ held'[u] = held[u]
      BY <1>2, <2>3
    <3>2. held[u] = s => phase[u] \notin {"creating", "joining", "holding"}
      BY <1>1, <2>3 DEF Waiting, Holders
    <3>3. QED
      BY <1>2, <3>1, <3>2 DEF PoolInv, TypeOK, CallersHaveSockets
  <2>4. QED
    BY <2>2, <2>3
<1>6. DialsAreForTheirKey'
  BY <1>1, <1>2 DEF PoolInv, TypeOK, DialsAreForTheirKey
<1>7. DialsAreListed'
  <2>1. \A t \in Socket : ready'[t] = "connecting" => t # s /\ ready[t] = "connecting"
    BY <1>2 DEF PoolInv, TypeOK
  <2>2. \A t \in Socket \ {s} : ready[t] = "connecting" => key[t] # k
    BY <1>1 DEF PoolInv, DialsAreListed
  <2>3. QED
    BY <1>2, <2>1, <2>2 DEF PoolInv, TypeOK, DialsAreListed
<1>8. PooledUnderKey'
  BY <1>1, <1>2 DEF PoolInv, TypeOK, PooledUnderKey
<1>9. KnownTimersLive'
  BY <1>2, SocketsAreNumbers DEF PoolInv, TypeOK, KnownTimersLive
<1>10. QED
  BY <1>3, <1>4, <1>5, <1>6, <1>7, <1>8, <1>9 DEF PoolInv

\* The peer starts the close handshake.
LEMMA PeerClosing ==
  ASSUME PoolInv, NEW s \in Socket, PeerCloses(s)
  PROVE  PoolInv'
<1>1. TypeOK' /\ CallersHaveSockets'
  BY DEF PoolInv, PeerCloses, TypeOK, CallersHaveSockets, poolVars, userVars
<1>2. CountsAgree'
  BY DEF PoolInv, PeerCloses, CountsAgree, Holders, userVars
<1>3. DialsAreForTheirKey' /\ DialsAreListed' /\ PooledUnderKey' /\ KnownTimersLive'
  BY DEF PoolInv, TypeOK, PeerCloses, DialsAreForTheirKey, DialsAreListed, PooledUnderKey,
         KnownTimersLive, poolVars
<1>4. QED
  BY <1>1, <1>2, <1>3 DEF PoolInv

\* The close event drops what the key maps to.
LEMMA Closing ==
  ASSUME PoolInv, NEW s \in Socket, SocketClosed(s)
  PROVE  PoolInv'
<1>1. TypeOK' /\ CallersHaveSockets'
  BY DEF PoolInv, SocketClosed, Evicted, TypeOK, CallersHaveSockets, userVars
<1>2. CountsAgree'
  BY DEF PoolInv, SocketClosed, CountsAgree, Holders, userVars
<1>3. DialsAreForTheirKey' /\ DialsAreListed'
  BY DEF PoolInv, TypeOK, SocketClosed, DialsAreForTheirKey, DialsAreListed
<1>4. PooledUnderKey'
  BY DEF PoolInv, TypeOK, SocketClosed, Evicted, PooledUnderKey
<1>5. KnownTimersLive'
  BY SocketsAreNumbers DEF PoolInv, TypeOK, SocketClosed, Evicted, KnownTimersLive
<1>6. QED
  BY <1>1, <1>2, <1>3, <1>4, <1>5 DEF PoolInv

\* A release takes the reference of a holder.
LEMMA Releasing ==
  ASSUME PoolInv, NEW u \in User, Release(u)
  PROVE  PoolInv'
<1> DEFINE s == held[u]
<1>1. s \in Socket /\ ready[s] \in {"open", "closing", "closed"}
  BY DEF PoolInv, Release, CallersHaveSockets
<1>2. CountsAgree' /\ refCount[s] > 0
  BY <1>1, CountsLose DEF PoolInv, Release
<1>3. PICK starts \in BOOLEAN :
        /\ timers' = [timers EXCEPT ![s] = IF starts THEN @ + 1 ELSE @]
        /\ idleTimer' = [idleTimer EXCEPT ![s] = @ \/ starts]
  BY DEF Release
<1>4. TypeOK'
  <2>1. timers' \in [Socket -> Nat]
    <3>1. CASE starts
      BY <1>1, <1>3, <3>1 DEF PoolInv, TypeOK
    <3>2. CASE ~starts
      BY <1>1, <1>3, <3>2 DEF PoolInv, TypeOK
    <3>3. QED
      BY <3>1, <3>2
  <2>2. (idleTimer[s] \/ starts) \in BOOLEAN
    OBVIOUS
  <2>3. idleTimer' \in [Socket -> BOOLEAN]
    BY <1>3, <2>2 DEF PoolInv, TypeOK
  <2>4. refCount' \in [Socket -> Nat]
    BY <1>1, <1>2 DEF PoolInv, TypeOK, Release
  <2>5. QED
    BY <2>1, <2>3, <2>4 DEF PoolInv, TypeOK, Release, poolVars
<1>5. CallersHaveSockets'
  BY DEF PoolInv, TypeOK, Release, CallersHaveSockets
<1>6. KnownTimersLive'
  BY <1>1, <1>3 DEF PoolInv, TypeOK, Release, KnownTimersLive, poolVars
<1>7. DialsAreForTheirKey' /\ DialsAreListed' /\ PooledUnderKey'
  BY DEF PoolInv, Release, DialsAreForTheirKey, DialsAreListed, PooledUnderKey, poolVars
<1>8. QED
  BY <1>2, <1>4, <1>5, <1>6, <1>7 DEF PoolInv

\* An idle timer closes a pooled entry or does nothing.
LEMMA Firing ==
  ASSUME PoolInv, NEW s \in Socket, TimerFires(s)
  PROVE  PoolInv'
<1> DEFINE k == key[s]
<1>1. \/ /\ conns[k] = s
         /\ conns' = [conns EXCEPT ![k] = NoSocket]
         /\ ready' = [ready EXCEPT ![s] = IF @ = "open" THEN "closing" ELSE @]
      \/ UNCHANGED <<conns, ready>>
  BY DEF TimerFires, Evicted
<1>2. k \in Key /\ (conns[k] = s => ready[s] \in {"open", "closing"})
  BY SocketsAreNumbers DEF PoolInv, TypeOK, PooledUnderKey
<1>3. TypeOK'
  <2>1. timers' \in [Socket -> Nat] /\ idleTimer' \in [Socket -> BOOLEAN]
    BY DEF PoolInv, TypeOK, TimerFires
  <2>2. QED
    BY <1>1, <2>1 DEF PoolInv, TypeOK, TimerFires, userVars
<1>4. CountsAgree'
  BY DEF PoolInv, TimerFires, CountsAgree, Holders, userVars
<1>5. CallersHaveSockets'
  BY <1>1, <1>2 DEF PoolInv, TypeOK, TimerFires, CallersHaveSockets, userVars
<1>6. DialsAreForTheirKey' /\ DialsAreListed'
  BY <1>1, <1>2 DEF PoolInv, TypeOK, TimerFires, DialsAreForTheirKey, DialsAreListed
<1>7. PooledUnderKey'
  BY <1>1, <1>2 DEF PoolInv, TypeOK, TimerFires, PooledUnderKey
<1>8. KnownTimersLive'
  BY <1>1, SocketsAreNumbers DEF PoolInv, TypeOK, TimerFires, KnownTimersLive
<1>9. QED
  BY <1>3, <1>4, <1>5, <1>6, <1>7, <1>8 DEF PoolInv

\* Nothing is pooled after closeAll.
LEMMA ClosingAll ==
  ASSUME PoolInv, CloseAll
  PROVE  PoolInv'
<1> DEFINE pooled == {s \in Socket : \E k \in Key : conns[k] = s}
<1>1. /\ conns' = [k \in Key |-> NoSocket]
      /\ ready' = [s \in Socket |-> IF s \in pooled /\ ready[s] = "open" THEN "closing" ELSE ready[s]]
      /\ timers' = [s \in Socket |-> IF s \in pooled /\ idleTimer[s] THEN timers[s] - 1 ELSE timers[s]]
      /\ UNCHANGED <<creating, key, refCount, idleTimer, abandoned, userVars>>
  BY DEF CloseAll
<1>2. \A s \in pooled : idleTimer[s] => timers[s] > 0
  BY SocketsAreNumbers, ZenonT(30) DEF PoolInv, PooledUnderKey, KnownTimersLive
<1>3. TypeOK'
  <2>1. timers' \in [Socket -> Nat]
    BY <1>1, <1>2 DEF PoolInv, TypeOK
  <2>2. ready' \in [Socket -> {"unused", "connecting", "open", "closing", "closed"}]
    BY <1>1 DEF PoolInv, TypeOK
  <2>3. conns' \in [Key -> Socket \union {NoSocket}]
    BY <1>1
  <2>4. QED
    BY <1>1, <2>1, <2>2, <2>3 DEF PoolInv, TypeOK, userVars
<1>4. CountsAgree'
  BY <1>1 DEF PoolInv, CountsAgree, Holders, userVars
<1>5. \A s \in Socket : ready'[s] = ready[s] \/ (ready[s] = "open" /\ ready'[s] = "closing")
  BY <1>1
<1>6. CallersHaveSockets'
  BY <1>1, <1>5 DEF PoolInv, CallersHaveSockets, userVars
<1>7. DialsAreForTheirKey' /\ DialsAreListed'
  BY <1>1, <1>5 DEF PoolInv, TypeOK, DialsAreForTheirKey, DialsAreListed
<1>8. PooledUnderKey' /\ KnownTimersLive'
  <2>1. \A k \in Key : conns'[k] = NoSocket
    BY <1>1
  <2>2. QED
    BY <1>1, <2>1, SocketsAreNumbers DEF PoolInv, TypeOK, PooledUnderKey, KnownTimersLive
<1>9. QED
  BY <1>3, <1>4, <1>6, <1>7, <1>8 DEF PoolInv

\* Nothing changes.
LEMMA Stuttering ==
  ASSUME PoolInv, UNCHANGED vars
  PROVE  PoolInv'
BY DEF PoolInv, TypeOK, DialsAreForTheirKey, DialsAreListed, PooledUnderKey, CallersHaveSockets,
       KnownTimersLive, CountsAgree, Holders, vars, poolVars, socketVars, userVars

\* The cases of Next.
LEMMA EveryStep == PoolInv /\ [Next]_vars => PoolInv'
BY AcquiringPooled, Joining, Dialling, Aborting, Opening, Failing, PeerClosing, Closing,
   Releasing, Firing, ClosingAll, Stuttering DEF Next

\* The invariant holds always.
LEMMA Invariant == Spec => []PoolInv
BY Initially, EveryStep, PTL DEF Spec

(***************************************************************************)
(* The theorems.                                                           *)
(***************************************************************************)

\* Every variable of the pool keeps its type: no count falls below zero.
THEOREM TypeCorrect == Spec => []TypeOK
<1>1. PoolInv => TypeOK
  BY DEF PoolInv
<1>2. QED
  BY <1>1, Invariant, PTL

\* A socket counts exactly the callers that hold it.
THEOREM CountsExact == Spec => []CountsAgree
<1>1. PoolInv => CountsAgree
  BY DEF PoolInv
<1>2. QED
  BY <1>1, Invariant, PTL

\* Two callers of one key share one dial.
THEOREM DialsShared == Spec => []OneDialAtATime
<1>1. PoolInv => OneDialAtATime
  BY DEF PoolInv, DialsAreListed, OneDialAtATime
<1>2. QED
  BY <1>1, Invariant, PTL

\* A caller comes to an open socket, and no idle timer takes it away.
THEOREM HoldersSafe == Spec => HoldersKeepSockets
<1>1. ASSUME PoolInv, [Next]_vars, NEW u \in User, phase[u] # "holding", phase'[u] = "holding"
      PROVE  ready'[held'[u]] = "open"
  <2>1. CASE \E v \in User, k \in Key : AcquirePooled(v, k)
    <3>1. PICK v \in User, k \in Key : AcquirePooled(v, k)
      BY <2>1
    <3>2. conns[k] \in Socket /\ ready[conns[k]] = "open"
      BY <1>1, <3>1 DEF PoolInv, AcquirePooled, Reusable, PooledUnderKey, TypeOK
    <3>3. u = v
      BY <1>1, <3>1 DEF AcquirePooled, PoolInv, TypeOK
    <3>4. QED
      BY <1>1, <3>1, <3>2, <3>3 DEF AcquirePooled, PoolInv, TypeOK
  <2>2. CASE \E k \in Key : DialOpens(k)
    <3>1. PICK k \in Key : DialOpens(k)
      BY <2>2
    <3>2. u \in Waiting(creating[k])
      BY <1>1, <3>1 DEF DialOpens
    <3>3. held'[u] = creating[k] /\ creating[k] \in Socket
      BY <1>1, <3>1, <3>2, DialAlone DEF DialOpens, Waiting
    <3>4. QED
      BY <1>1, <3>1, <3>3 DEF DialOpens, PoolInv, TypeOK
  <2>3. CASE \E v \in User : AbortAcquire(v) \/ Release(v)
    BY <1>1, <2>3 DEF AbortAcquire, Release, PoolInv, TypeOK
  <2>4. CASE \E v \in User, k \in Key : AcquireJoins(v, k) \/ AcquireDials(v, k)
    BY <1>1, <2>4 DEF AcquireJoins, AcquireDials, PoolInv, TypeOK
  <2>5. CASE \E k \in Key : DialFails(k)
    BY <1>1, <2>5 DEF DialFails
  <2>6. CASE \/ \E s \in Socket : PeerCloses(s) \/ SocketClosed(s) \/ TimerFires(s)
             \/ CloseAll \/ UNCHANGED vars
    BY <1>1, <2>6 DEF PeerCloses, SocketClosed, TimerFires, CloseAll, vars, userVars
  <2>7. QED
    BY <1>1, <2>1, <2>2, <2>3, <2>4, <2>5, <2>6 DEF Next
<1>2. ASSUME PoolInv, NEW s \in Socket, TimerFires(s), Holders(s) # {}
      PROVE  UNCHANGED <<conns, ready>>
  <2>1. Holders(s) \in SUBSET User
    BY DEF Holders
  <2>2. Cardinality(Holders(s)) \in Nat /\ Cardinality(Holders(s)) # 0
    BY <1>2, <2>1, CallersCounted, FS_EmptySet
  <2>3. refCount[s] > 0
    BY <1>2, <2>2 DEF PoolInv, CountsAgree
  <2>4. QED
    BY <1>2, <2>3 DEF TimerFires, PoolInv, TypeOK
<1>3. PoolInv /\ [Next]_vars
        => [\A u \in User : phase[u] # "holding" /\ phase'[u] = "holding"
                             => ready'[held'[u]] = "open"]_vars
  BY <1>1
<1>4. PoolInv /\ [Next]_vars
        => [\A s \in Socket : TimerFires(s) /\ Holders(s) # {} => UNCHANGED <<conns, ready>>]_vars
  BY <1>2
<1>5. Spec => HandedOpen
  BY <1>3, Invariant, PTL DEF Spec, HandedOpen
<1>6. Spec => TimersSpareHolders
  BY <1>4, Invariant, PTL DEF Spec, TimersSpareHolders
<1>7. QED
  BY <1>5, <1>6 DEF HoldersKeepSockets
=============================================================================
