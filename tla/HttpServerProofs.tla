--------------------------- MODULE HttpServerProofs ---------------------------
(***************************************************************************)
(* Proofs about HttpServer, for any sockets, keys and bounds.              *)
(***************************************************************************)
EXTENDS HttpServer, TLAPS

-----------------------------------------------------------------------------
(* The type invariant.                                                     *)

LEMMA DestroyType ==
  ASSUME NEW D, sock \in [Conns -> Sock], Destroy(D)
  PROVE  sock' \in [Conns -> Sock]
<1> SUFFICES ASSUME NEW c \in Conns
             PROVE  (IF c \in D /\ Live(sock[c])
                       THEN [sock[c] EXCEPT !.st = IF @ = "open" THEN "closing" ELSE "closed"]
                       ELSE sock[c]) \in Sock
  BY DEF Destroy
<1> QED BY DEF Sock, SockState

(* TypeOK holds throughout: Server.ts keeps its fields in their types.     *)
THEOREM TypeCorrect == Spec => []TypeOK
<1>1. Init => TypeOK
  <2> SUFFICES ASSUME Init PROVE TypeOK OBVIOUS
  <2>1. (CHOOSE k \in Keys : TRUE) \in Keys
    BY HttpServerAssumption
  <2>2. sock \in [Conns -> Sock]
    BY <2>1 DEF Init, Sock, SockState, NoServer
  <2>3. inc \in 0 .. MaxRequests
    BY HttpServerAssumption DEF Init
  <2>4. crashed \in BOOLEAN /\ wired \in [Servers -> BOOLEAN] /\ closeTick \in [Servers -> BOOLEAN]
    BY DEF Init
  <2>5. /\ startRes \in [Servers -> StartState] /\ stopRes \in [Stops -> StopState]
        /\ phase \in [Servers -> Phase]
        /\ openTick \in [Servers -> {"none", "listening", "inuse", "failed"}]
    BY DEF Init, StartState, StopState, Phase
  <2>6. startCbs \in [Servers -> SUBSET Servers] /\ closeCbs \in [Servers -> SUBSET Stops]
    BY DEF Init
  <2> QED
    BY <2>2, <2>3, <2>4, <2>5, <2>6 DEF Init, TypeOK
<1>2. TypeOK /\ [Next]_vars => TypeOK'
  <2> SUFFICES ASSUME TypeOK, [Next]_vars PROVE TypeOK'
    OBVIOUS
  <2> USE HttpServerAssumption DEF TypeOK, net, ticks, tracked, calls
  <2>1. ASSUME NEW i \in Servers, Start(i) PROVE TypeOK'
    BY <2>1 DEF Start, StartState, Phase
  <2>2. ASSUME NEW i \in Servers, AfterBeforeStart(i) PROVE TypeOK'
    BY <2>2 DEF AfterBeforeStart, StartState, Phase, hasServer, NoServer
  <2>3. ASSUME NEW i \in Servers, Bind(i) PROVE TypeOK'
    BY <2>3 DEF Bind, Phase
  <2>4. ASSUME NEW i \in Servers, Listening(i) PROVE TypeOK'
    BY <2>4 DEF Listening, StartState
  <2>5. ASSUME NEW i \in Servers, ListenError(i) PROVE TypeOK'
    BY <2>5 DEF ListenError, StartState
  <2>6. ASSUME NEW t \in Stops, Stop(t) PROVE TypeOK'
    BY <2>6 DEF Stop, StopState
  <2>7. ASSUME NEW t \in Stops, Shutdown(t) PROVE TypeOK'
    BY <2>7, DestroyType DEF Shutdown, StopState
  <2>8. ASSUME NEW t \in Stops, StopBody(t) PROVE TypeOK'
    <3>1. sock' \in [Conns -> Sock]
      BY <2>8, DestroyType DEF StopBody
    <3>2. /\ stopRes' \in [Stops -> StopState] /\ phase' \in [Servers -> Phase]
          /\ closeCbs' \in [Servers -> SUBSET Stops] /\ connections' \subseteq Conns
      BY <2>8 DEF StopBody, StopAnswer, StopState, Phase
    <3>3. closeTick' \in [Servers -> BOOLEAN]
      BY <2>8 DEF StopBody
    <3>4. /\ server' = server
          /\ UNCHANGED <<startRes, shut, wired, startCbs, openTick, cache, inc, crashed>>
      BY <2>8 DEF StopBody, AfterClose
    <3> QED
      BY <3>1, <3>2, <3>3, <3>4
  <2>9. ASSUME NEW i \in Servers, CloseEvent(i) PROVE TypeOK'
    <3>1. CASE closeCbs[i] = {}
      BY <2>9, <3>1 DEF CloseEvent
    <3>2. CASE closeCbs[i] # {}
      <4>1. wired' \in [Servers -> BOOLEAN]
        BY <2>9, <3>2 DEF CloseEvent
      <4>2. closeCbs' \in [Servers -> SUBSET Stops] /\ startCbs' \in [Servers -> SUBSET Servers]
        BY <2>9, <3>2 DEF CloseEvent
      <4>3. stopRes' \in [Stops -> StopState]
        BY <2>9, <3>2 DEF CloseEvent, StopState
      <4> QED
        BY <2>9, <3>2, <4>1, <4>2, <4>3 DEF CloseEvent
    <3> QED
      BY <3>1, <3>2
  <2>10. ASSUME NEW i \in Servers, CloseCrash(i) PROVE TypeOK'
    BY <2>10 DEF CloseCrash
  <2>11. ASSUME NEW c \in Conns, NEW k \in Keys, NEW i \in Servers, Connect(c, k, i) PROVE TypeOK'
    BY <2>11 DEF Connect, Register, Sock, SockState
  <2>12. ASSUME NEW c \in Conns, Secure(c) PROVE TypeOK'
    <3>1. sock' \in [Conns -> Sock]
      BY <2>12 DEF Secure, Sock, SockState
    <3> QED BY <2>12, <3>1 DEF Secure, Register
  <2>13. ASSUME NEW c \in Conns, Request(c) PROVE TypeOK'
    BY <2>13 DEF Request
  <2>14. ASSUME NEW c \in Conns, SocketClosed(c) PROVE TypeOK'
    <3>1. sock' \in [Conns -> Sock]
      BY <2>14 DEF SocketClosed, Sock, SockState
    <3> QED BY <2>14, <3>1 DEF SocketClosed
  <2>15. ASSUME NEW c \in Conns, Drop(c) PROVE TypeOK'
    BY <2>15, DestroyType DEF Drop
  <2>16. ASSUME NEW x \in cache, Answer(x) PROVE TypeOK'
    BY <2>16 DEF Answer
  <2>17. CASE UNCHANGED vars
    BY <2>17 DEF vars
  <2> QED
    BY <2>1, <2>2, <2>3, <2>4, <2>5, <2>6, <2>7, <2>8, <2>9, <2>10, <2>11, <2>12,
       <2>13, <2>14, <2>15, <2>16, <2>17
    DEF Next, PeerEnds, SocketTimeout
<1> QED BY <1>1, <1>2, PTL DEF Spec

-----------------------------------------------------------------------------
(* stop() can reach every connection of the server in use.  Inductive      *)
(* because no two sockets that are not yet closed share a key, so that     *)
(* neither a registration nor a 'close' removes the entry of another       *)
(* socket, and because the net.Server of the next start has no sockets.    *)

Busy(x) == Live(x) \/ x.st = "closing"

KeysUnique ==
  \A c, d \in Conns : Busy(sock[c]) /\ Busy(sock[d]) /\ c # d => sock[c].key # sock[d].key

FreshServers ==
  /\ hasServer => startRes[server] # "idle"
  /\ \A i \in Servers : startRes[i] = "idle" => phase[i] = "unused"
  /\ \A c \in Conns : sock[c].st # "none" => sock[c].srv \in Servers /\ startRes[sock[c].srv] # "idle"

(* Whatever callers do, a client port is used by one socket at a time only *)
(* (~EagerReuse): then $connections never misses a live connection.        *)
THEOREM TrackedConnsCorrect == ~EagerReuse /\ Spec => []TrackedConns
<1> SUFFICES ASSUME ~EagerReuse PROVE Spec => []TrackedConns
  OBVIOUS
<1>1. Init => KeysUnique /\ FreshServers /\ TrackedConns
  BY DEF Init, KeysUnique, FreshServers, TrackedConns, Busy, Live, hasServer, NoServer
<1>2. TypeOK /\ TypeOK' /\ KeysUnique /\ FreshServers /\ TrackedConns /\ [Next]_vars
        => KeysUnique' /\ FreshServers' /\ TrackedConns'
  <2> SUFFICES ASSUME TypeOK, TypeOK', KeysUnique, FreshServers, TrackedConns,
                      [Next]_vars
               PROVE  KeysUnique' /\ FreshServers' /\ TrackedConns'
    OBVIOUS
  <2> DEFINE Goal == KeysUnique' /\ FreshServers' /\ TrackedConns'
  <2> USE DEF net, ticks, tracked, calls, TypeOK
  <2>1. ASSUME NEW i \in Servers, Start(i) PROVE Goal
    BY <2>1 DEF Start, NextStart, KeysUnique, FreshServers, TrackedConns, hasServer, Sock, SockState, Live, NoServer, Servers
  <2>2. ASSUME NEW i \in Servers, AfterBeforeStart(i) PROVE Goal
    BY <2>2 DEF AfterBeforeStart, KeysUnique, FreshServers, TrackedConns, hasServer
  <2>3. ASSUME NEW i \in Servers, Bind(i) PROVE Goal
    BY <2>3 DEF Bind, KeysUnique, FreshServers, TrackedConns, hasServer
  <2>4. ASSUME NEW i \in Servers, Listening(i) PROVE Goal
    BY <2>4 DEF Listening, StartOpen, KeysUnique, FreshServers, TrackedConns, hasServer, NoServer
  <2>5. ASSUME NEW i \in Servers, ListenError(i) PROVE Goal
    BY <2>5 DEF ListenError, KeysUnique, FreshServers, TrackedConns, hasServer, NoServer
  <2>6. ASSUME NEW t \in Stops, Stop(t) PROVE Goal
    BY <2>6 DEF Stop, KeysUnique, FreshServers, TrackedConns, hasServer
  <2>7. ASSUME NEW t \in Stops, Shutdown(t) PROVE Goal
    BY <2>7 DEF Shutdown, Destroy, KeysUnique, FreshServers, TrackedConns, hasServer, Busy, Live, Sock
  <2>8. ASSUME NEW t \in Stops, StopBody(t) PROVE Goal
    BY <2>8 DEF StopBody, AfterClose, Destroy, KeysUnique, FreshServers, TrackedConns, hasServer, Busy, Live, Sock
  <2>9. ASSUME NEW i \in Servers, CloseEvent(i) PROVE Goal
    BY <2>9 DEF CloseEvent, KeysUnique, FreshServers, TrackedConns, hasServer, NoServer, Servers
  <2>10. ASSUME NEW i \in Servers, CloseCrash(i) PROVE Goal
    BY <2>10 DEF CloseCrash, KeysUnique, FreshServers, TrackedConns, hasServer
  <2>11. ASSUME NEW c \in Conns, NEW k \in Keys, NEW i \in Servers, Connect(c, k, i) PROVE Goal
    BY <2>11 DEF Connect, Register, KeyFree, KeysUnique, FreshServers, TrackedConns, hasServer, Busy, Live, Sock
  <2>12. ASSUME NEW c \in Conns, Secure(c) PROVE Goal
    BY <2>12 DEF Secure, Register, KeysUnique, FreshServers, TrackedConns, hasServer, Busy, Live, Sock
  <2>13. ASSUME NEW c \in Conns, Request(c) PROVE Goal
    BY <2>13 DEF Request, KeysUnique, FreshServers, TrackedConns, hasServer
  <2>14. ASSUME NEW c \in Conns, SocketClosed(c) PROVE Goal
    BY <2>14 DEF SocketClosed, KeysUnique, FreshServers, TrackedConns, hasServer, Busy, Live, Sock
  <2>15. ASSUME NEW c \in Conns, Drop(c) PROVE Goal
    BY <2>15 DEF Drop, Destroy, KeysUnique, FreshServers, TrackedConns, hasServer, Busy, Live, Sock
  <2>16. ASSUME NEW x \in cache, Answer(x) PROVE Goal
    BY <2>16 DEF Answer, KeysUnique, FreshServers, TrackedConns, hasServer
  <2>17. CASE UNCHANGED vars
    BY <2>17 DEF vars, KeysUnique, FreshServers, TrackedConns, hasServer
  <2> QED
    BY <2>1, <2>2, <2>3, <2>4, <2>5, <2>6, <2>7, <2>8, <2>9, <2>10, <2>11, <2>12,
       <2>13, <2>14, <2>15, <2>16, <2>17
    DEF Next, PeerEnds, SocketTimeout
<1> QED BY <1>1, <1>2, TypeCorrect, PTL DEF Spec

-----------------------------------------------------------------------------
(* Callers that await every call.  At most one call is under way; a server *)
(* that is still looking up or reporting belongs to it if it is a start,   *)
(* and a close callback to it if it is a stop.  So the callback finds the  *)
(* server it was given to, and an 'error' of listen finds the listeners.   *)

OneCall ==
  /\ \A i, j \in Servers : StartOpen(i) /\ StartOpen(j) => i = j
  /\ \A t, u \in Stops : StopOpen(t) /\ StopOpen(u) => t = u
  /\ \A i \in Servers, t \in Stops : ~(StartOpen(i) /\ StopOpen(t))

StartsOwn ==
  \A i \in Servers : /\ StartOpen(i) => server = i /\ wired[i]
                     /\ phase[i] = "lookup" \/ openTick[i] # "none" => startRes[i] = "pending"
                     /\ openTick[i] # "none" => phase[i] \in {"bound", "unbound"}

StopsOwn ==
  \A i \in Servers, t \in Stops :
    t \in closeCbs[i] => stopRes[t] = "waiting" /\ server = i /\ phase[i] # "bound"

AwaitInv == NoUncaught /\ OneCall /\ StartsOwn /\ StopsOwn

LEMMA AwaitInvariant == ASSUME Await PROVE Spec => [](TypeOK /\ AwaitInv)
<1>1. Init => AwaitInv
  BY DEF Init, AwaitInv, NoUncaught, OneCall, StartsOwn, StopsOwn, StartOpen, StopOpen
<1>2. TypeOK /\ TypeOK' /\ AwaitInv /\ [Next]_vars => AwaitInv'
  <2> SUFFICES ASSUME TypeOK, TypeOK', AwaitInv, [Next]_vars
               PROVE  AwaitInv'
    OBVIOUS
  <2> USE DEF net, ticks, tracked, calls, TypeOK, AwaitInv, NoUncaught, OneCall, StartsOwn,
              StopsOwn, StartOpen, StopOpen
  <2>1. ASSUME NEW i \in Servers, Start(i) PROVE AwaitInv'
    BY <2>1 DEF Start, MayStart, Settled, NextStart
  <2>2. ASSUME NEW i \in Servers, AfterBeforeStart(i) PROVE AwaitInv'
    BY <2>2 DEF AfterBeforeStart, hasServer
  <2>3. ASSUME NEW i \in Servers, Bind(i) PROVE AwaitInv'
    BY <2>3 DEF Bind, Idle
  <2>4. ASSUME NEW i \in Servers, Listening(i) PROVE AwaitInv'
    BY <2>4 DEF Listening
  <2>5. ASSUME NEW i \in Servers, ListenError(i) PROVE AwaitInv'
    BY <2>5 DEF ListenError
  <2>6. ASSUME NEW t \in Stops, Stop(t) PROVE AwaitInv'
    BY <2>6 DEF Stop, MayStop, Settled, NextStop
  <2>7. ASSUME NEW t \in Stops, Shutdown(t) PROVE AwaitInv'
    BY <2>7 DEF Shutdown, MayStop, Settled, NextStop
  <2>8. ASSUME NEW t \in Stops, StopBody(t) PROVE AwaitInv'
    <3>1. /\ stopRes[t] = "prefinal" /\ ~crashed' /\ server' = server
          /\ UNCHANGED <<startRes, wired, openTick>>
      BY <2>8 DEF StopBody, AfterClose
    <3>2. OneCall'
      BY <2>8, <3>1 DEF StopBody, StopAnswer
    <3>3. \A i \in Servers : ~StartOpen(i) /\ phase[i] # "lookup" /\ openTick[i] = "none"
      BY <3>1
    <3>4. StartsOwn'
      BY <2>8, <3>1, <3>3 DEF StopBody
    <3>5. \A i \in Servers : closeCbs[i] = {}
      BY <3>1
    <3>6. StopsOwn'
      BY <2>8, <3>1, <3>5 DEF StopBody, StopAnswer, hasServer, NoServer, Servers
    <3> QED
      BY <3>1, <3>2, <3>4, <3>6
  <2>9. ASSUME NEW i \in Servers, CloseEvent(i) PROVE AwaitInv'
    BY <2>9 DEF CloseEvent, CloseThrows, hasServer
  <2>10. ASSUME NEW i \in Servers, CloseCrash(i) PROVE AwaitInv'
    BY <2>10 DEF CloseCrash, CloseThrows, hasServer, NoServer, Servers
  <2>11. ASSUME NEW c \in Conns, NEW k \in Keys, NEW i \in Servers, Connect(c, k, i) PROVE AwaitInv'
    BY <2>11 DEF Connect
  <2>12. ASSUME NEW c \in Conns, Secure(c) PROVE AwaitInv'
    BY <2>12 DEF Secure
  <2>13. ASSUME NEW c \in Conns, Request(c) PROVE AwaitInv'
    BY <2>13 DEF Request
  <2>14. ASSUME NEW c \in Conns, SocketClosed(c) PROVE AwaitInv'
    BY <2>14 DEF SocketClosed
  <2>15. ASSUME NEW c \in Conns, Drop(c) PROVE AwaitInv'
    BY <2>15 DEF Drop
  <2>16. ASSUME NEW x \in cache, Answer(x) PROVE AwaitInv'
    BY <2>16 DEF Answer
  <2>17. CASE UNCHANGED vars
    BY <2>17 DEF vars
  <2> QED
    BY <2>1, <2>2, <2>3, <2>4, <2>5, <2>6, <2>7, <2>8, <2>9, <2>10, <2>11, <2>12,
       <2>13, <2>14, <2>15, <2>16, <2>17
    DEF Next, PeerEnds, SocketTimeout
<1> QED BY <1>1, <1>2, TypeCorrect, PTL DEF Spec

(* A caller that awaits every call never meets the TypeError of the close  *)
(* callback (Server.ts:304-306) or an unheard 'error'.                     *)
THEOREM NoUncaughtCorrect == ASSUME Await PROVE Spec => []NoUncaught
<1>1. AwaitInv => NoUncaught
  BY DEF AwaitInv
<1> QED BY <1>1, AwaitInvariant, PTL

(* ... and its server is only ever given up for that server's own 'close'. *)
THEOREM OwnCloseCorrect == ASSUME Await PROVE Spec => OwnClose
<1> DEFINE Own == \A i \in Servers : server = i /\ server' = NoServer =>
                    phase[i] # "bound" /\ closeTick[i] /\ ~closeTick'[i]
<1>1. TypeOK /\ AwaitInv /\ [Next]_vars => [Own]_vars
  <2> SUFFICES ASSUME TypeOK, AwaitInv, [Next]_vars, NEW i \in Servers,
                      server = i, server' = NoServer
               PROVE  phase[i] # "bound" /\ closeTick[i] /\ ~closeTick'[i]
    BY DEF vars
  <2>1. server # server'
    BY DEF NoServer, Servers
  <2>2. PICK j \in Servers : CloseEvent(j)
    <3> USE <2>1 DEF net, ticks, tracked, calls
    <3>1. \A j \in Servers : ~Start(j) /\ ~AfterBeforeStart(j)
      BY DEF Start, AfterBeforeStart, NoServer, Servers
    <3>2. \A j \in Servers : ~Bind(j) /\ ~Listening(j) /\ ~ListenError(j) /\ ~CloseCrash(j)
      BY DEF Bind, Listening, ListenError, CloseCrash
    <3>3. \A t \in Stops : ~Stop(t) /\ ~Shutdown(t) /\ ~StopBody(t)
      BY DEF Stop, Shutdown, StopBody, AfterClose
    <3>4. \A c \in Conns : ~Secure(c) /\ ~Request(c) /\ ~SocketClosed(c) /\ ~Drop(c)
      BY DEF Secure, Request, SocketClosed, Drop
    <3>5. \A c \in Conns, k \in Keys, j \in Servers : ~Connect(c, k, j)
      BY DEF Connect
    <3>6. \A x \in cache : ~Answer(x)
      BY DEF Answer
    <3> QED
      BY <3>1, <3>2, <3>3, <3>4, <3>5, <3>6 DEF Next, vars, PeerEnds, SocketTimeout
  <2>3. closeCbs[j] # {}
    BY <2>1, <2>2 DEF CloseEvent
  <2>4. j = i /\ phase[i] # "bound"
    BY <2>3 DEF AwaitInv, StopsOwn, TypeOK
  <2> QED
    BY <2>2, <2>4 DEF CloseEvent, TypeOK
<1> QED BY <1>1, AwaitInvariant, PTL DEF Spec, OwnClose

-----------------------------------------------------------------------------
(* Callers that, besides, start only without and stop only with a server.  *)
(* Everything that is alive then belongs to the server in use, and the     *)
(* close callback runs when nothing of it is alive any more.               *)

ReleaseInv ==
  /\ \A i \in Servers : phase[i] = "bound" => server = i
  /\ \A c \in Conns : Live(sock[c]) => /\ hasServer /\ sock[c].srv = server
                                       /\ phase[server] = "bound" \/ closeCbs[server] # {}
  /\ \A t \in Stops : stopRes[t] = "waiting" => hasServer
  /\ \A i \in Servers : closeTick[i] => /\ closeCbs[i] # {}
                                        /\ \A c \in Conns : Live(sock[c]) => sock[c].srv # i

LEMMA ReleaseInvariant == ASSUME Await, Guarded PROVE Spec => [](TypeOK /\ AwaitInv /\ ReleaseInv)
<1>1. Init => ReleaseInv
  BY DEF Init, ReleaseInv, Live
<1>2. TypeOK /\ TypeOK' /\ AwaitInv /\ ReleaseInv /\ [Next]_vars => ReleaseInv'
  <2> SUFFICES ASSUME TypeOK, TypeOK', AwaitInv, ReleaseInv, [Next]_vars
               PROVE  ReleaseInv'
    OBVIOUS
  <2> USE DEF net, ticks, tracked, calls, ReleaseInv, hasServer
  <2>1. ASSUME NEW i \in Servers, Start(i) PROVE ReleaseInv'
    BY <2>1 DEF Start, MayStart, TypeOK, NoServer, Servers
  <2>2. ASSUME NEW i \in Servers, AfterBeforeStart(i) PROVE ReleaseInv'
    BY <2>2 DEF AfterBeforeStart, TypeOK, AwaitInv, StopsOwn, OneCall, StartOpen, StopOpen, NoServer
  <2>3. ASSUME NEW i \in Servers, Bind(i) PROVE ReleaseInv'
    BY <2>3 DEF Bind, TypeOK, AwaitInv, StartsOwn, StartOpen
  <2>4. ASSUME NEW i \in Servers, Listening(i) PROVE ReleaseInv'
    BY <2>4 DEF Listening
  <2>5. ASSUME NEW i \in Servers, ListenError(i) PROVE ReleaseInv'
    BY <2>5 DEF ListenError
  <2>6. ASSUME NEW t \in Stops, Stop(t) PROVE ReleaseInv'
    BY <2>6 DEF Stop, TypeOK
  <2>7. ASSUME NEW t \in Stops, Shutdown(t) PROVE ReleaseInv'
    <3>1. \A i \in Servers : closeCbs[i] = {}
      BY <2>7 DEF Shutdown, MayStop, Settled, StopOpen, AwaitInv, StopsOwn, TypeOK
    <3>2. \A c \in Conns : Live(sock'[c]) => Live(sock[c]) /\ sock'[c].srv = sock[c].srv
      BY <2>7 DEF Shutdown, Destroy, Live, TypeOK, Sock
    <3>3. \A i \in Servers : ~closeTick'[i]
      BY <2>7, <3>1 DEF Shutdown, LosesSocket, Drained, TypeOK, NoServer
    <3> QED
      BY <2>7, <3>2, <3>3 DEF Shutdown, TypeOK
  <2>8. ASSUME NEW t \in Stops, StopBody(t) PROVE ReleaseInv'
    <3>1. /\ server' = server
          /\ \A c \in Conns : Live(sock'[c]) => Live(sock[c]) /\ sock'[c].srv = sock[c].srv
          /\ \A c \in Conns : sock'[c].srv = sock[c].srv
      BY <2>8 DEF StopBody, AfterClose, Destroy, Live, TypeOK, Sock
    <3>2. \A i \in Servers : closeTick'[i] => closeCbs'[i] # {}
      BY <2>8 DEF StopBody, LosesSocket, TypeOK
    <3>3. \A i \in Servers : closeTick'[i] => \A c \in Conns : Live(sock'[c]) => sock'[c].srv # i
      BY <2>8, <3>1 DEF StopBody, Drained, TypeOK
    <3>4. \A i \in Servers : phase'[i] = "bound" => server' = i
      BY <2>8, <3>1 DEF StopBody, TypeOK
    <3>5. \A u \in Stops : stopRes'[u] = "waiting" => server' # NoServer
      BY <2>8, <3>1 DEF StopBody, StopAnswer, TypeOK
    <3>6. server # NoServer => closeCbs'[server] # {}
      BY <2>8 DEF StopBody, TypeOK
    <3> QED
      BY <3>1, <3>2, <3>3, <3>4, <3>5, <3>6
  <2>9. ASSUME NEW i \in Servers, CloseEvent(i) PROVE ReleaseInv'
    <3>1. server = i /\ phase[i] # "bound"
      BY <2>9 DEF CloseEvent, AwaitInv, StopsOwn, TypeOK
    <3>2. \A u \in Stops : stopRes[u] = "waiting" => u \in closeCbs[i]
      BY <2>9 DEF CloseEvent, AwaitInv, StopsOwn, OneCall, StopOpen, TypeOK
    <3> QED
      BY <2>9, <3>1, <3>2 DEF CloseEvent, AwaitInv, StopsOwn, TypeOK
  <2>10. ASSUME NEW i \in Servers, CloseCrash(i) PROVE ReleaseInv'
    BY <2>10 DEF CloseCrash
  <2>11. ASSUME NEW c \in Conns, NEW k \in Keys, NEW i \in Servers, Connect(c, k, i) PROVE ReleaseInv'
    BY <2>11 DEF Connect, Idle, Live, TypeOK, NoServer, Servers
  <2>12. ASSUME NEW c \in Conns, Secure(c) PROVE ReleaseInv'
    <3>1. \A d \in Conns : Live(sock'[d]) => Live(sock[d]) /\ sock'[d].srv = sock[d].srv
      BY <2>12 DEF Secure, Live, TypeOK, Sock
    <3> QED
      BY <2>12, <3>1 DEF Secure
  <2>13. ASSUME NEW c \in Conns, Request(c) PROVE ReleaseInv'
    BY <2>13 DEF Request
  <2>14. ASSUME NEW c \in Conns, SocketClosed(c) PROVE ReleaseInv'
    BY <2>14 DEF SocketClosed, Live, TypeOK, Sock
  <2>15. ASSUME NEW c \in Conns, Drop(c) PROVE ReleaseInv'
    <3>1. \A d \in Conns : /\ Live(sock'[d]) => Live(sock[d])
                           /\ sock'[d].srv = sock[d].srv
      BY <2>15 DEF Drop, Destroy, Live, TypeOK, Sock
    <3>2. \A i \in Servers : closeTick'[i] => closeCbs'[i] # {}
      BY <2>15 DEF Drop, LosesSocket, Drained, TypeOK
    <3>3. \A i \in Servers : closeTick'[i] => \A d \in Conns : Live(sock'[d]) => sock'[d].srv # i
      BY <2>15, <3>1 DEF Drop, Drained, TypeOK
    <3> QED
      BY <2>15, <3>1, <3>2, <3>3 DEF Drop
  <2>16. ASSUME NEW x \in cache, Answer(x) PROVE ReleaseInv'
    BY <2>16 DEF Answer
  <2>17. CASE UNCHANGED vars
    BY <2>17 DEF vars
  <2> QED
    BY <2>1, <2>2, <2>3, <2>4, <2>5, <2>6, <2>7, <2>8, <2>9, <2>10, <2>11, <2>12,
       <2>13, <2>14, <2>15, <2>16, <2>17
    DEF Next, PeerEnds, SocketTimeout
<1> QED BY <1>1, <1>2, TypeCorrect, AwaitInvariant, PTL DEF Spec

(* For such callers hasServer() = false is the truth: nothing is bound, no *)
(* client is connected, no start and no stop is under way.                 *)
THEOREM StoppedIsReleasedCorrect == ASSUME Await, Guarded PROVE Spec => []StoppedIsReleased
<1>1. TypeOK /\ AwaitInv /\ ReleaseInv => StoppedIsReleased
  BY DEF ReleaseInv, AwaitInv, StartsOwn, StoppedIsReleased, hasServer, TypeOK, NoServer, Servers
<1> QED BY <1>1, ReleaseInvariant, PTL

-----------------------------------------------------------------------------
(* HttpServer implements the safety part of ServerLifecycle for such       *)
(* callers.  Clients get in only between a start that came true and the    *)
(* next stop: a bound net.Server that is not about to say so has started,  *)
(* and a stop that waits has taken the handle away.                        *)

RunningInv ==
  /\ \A t \in Stops : stopRes[t] = "waiting" => t \in closeCbs[server]
  /\ \A i \in Servers : startRes[i] = "pending" => i \in startCbs[i]
  /\ \A i \in Servers : openTick[i] \in {"inuse", "failed"} => phase[i] # "bound"
  /\ \A i \in Servers : phase[i] = "bound" /\ openTick[i] = "none" => startRes[i] = "true"

OrderlyInv == TypeOK /\ AwaitInv /\ ReleaseInv /\ RunningInv

LEMMA RunningInvariant == ASSUME Await, Guarded PROVE Spec => []OrderlyInv
<1>1. Init => RunningInv
  BY DEF Init, RunningInv
<1>2. TypeOK /\ TypeOK' /\ AwaitInv /\ ReleaseInv /\ RunningInv /\ [Next]_vars => RunningInv'
  <2> SUFFICES ASSUME TypeOK, TypeOK', AwaitInv, ReleaseInv, RunningInv, [Next]_vars
               PROVE  RunningInv'
    OBVIOUS
  <2> USE DEF net, ticks, tracked, calls, RunningInv
  <2>1. ASSUME NEW i \in Servers, Start(i) PROVE RunningInv'
    BY <2>1 DEF Start, MayStart, Settled, StartOpen, StopOpen, TypeOK
  <2>2. ASSUME NEW i \in Servers, AfterBeforeStart(i) PROVE RunningInv'
    <3>1. server = i
      BY <2>2 DEF AfterBeforeStart, AwaitInv, StartsOwn, StartOpen
    <3> QED
      BY <2>2, <3>1 DEF AfterBeforeStart, TypeOK
  <2>3. ASSUME NEW i \in Servers, Bind(i) PROVE RunningInv'
    BY <2>3 DEF Bind, TypeOK
  <2>4. ASSUME NEW i \in Servers, Listening(i) PROVE RunningInv'
    <3>1. startRes[i] = "pending" /\ StartOpen(i)
      BY <2>4 DEF Listening, AwaitInv, StartsOwn, StartOpen
    <3> QED
      BY <2>4, <3>1 DEF Listening, TypeOK, AwaitInv, OneCall, StartOpen
  <2>5. ASSUME NEW i \in Servers, ListenError(i) PROVE RunningInv'
    BY <2>5 DEF ListenError, TypeOK
  <2>6. ASSUME NEW t \in Stops, Stop(t) PROVE RunningInv'
    BY <2>6 DEF Stop, TypeOK
  <2>7. ASSUME NEW t \in Stops, Shutdown(t) PROVE RunningInv'
    BY <2>7 DEF Shutdown, TypeOK
  <2>8. ASSUME NEW t \in Stops, StopBody(t) PROVE RunningInv'
    <3>1. server' = server /\ UNCHANGED <<startRes, startCbs, openTick>>
      BY <2>8 DEF StopBody, AfterClose
    <3>2. \A i \in Servers : phase'[i] = "bound" => phase[i] = "bound"
      BY <2>8 DEF StopBody
    <3>3. ASSUME NEW u \in Stops, stopRes'[u] = "waiting" PROVE u \in closeCbs'[server]
      <4>1. u = t
        BY <2>8, <3>3 DEF StopBody, AwaitInv, OneCall, StopOpen, TypeOK
      <4>2. hasServer
        BY <2>8, <3>3, <4>1 DEF StopBody, StopAnswer, TypeOK
      <4>3. server \in Servers
        BY <4>2 DEF hasServer, TypeOK
      <4> QED
        BY <2>8, <4>1, <4>3 DEF StopBody
    <3> QED
      BY <3>1, <3>2, <3>3
  <2>9. ASSUME NEW i \in Servers, CloseEvent(i) PROVE RunningInv'
    <3>1. server = i /\ closeCbs[i] # {}
      BY <2>9 DEF CloseEvent, AwaitInv, StopsOwn, ReleaseInv, TypeOK
    <3>2. \A u \in Stops : stopRes'[u] # "waiting"
      BY <2>9, <3>1 DEF CloseEvent, TypeOK
    <3>3. \A j \in Servers : startRes[j] # "pending"
      BY <3>1 DEF AwaitInv, StopsOwn, OneCall, StartOpen, StopOpen, TypeOK
    <3> QED
      BY <2>9, <3>2, <3>3 DEF CloseEvent
  <2>10. ASSUME NEW i \in Servers, CloseCrash(i) PROVE RunningInv'
    BY <2>10 DEF CloseCrash
  <2>11. ASSUME NEW c \in Conns, NEW k \in Keys, NEW i \in Servers, Connect(c, k, i) PROVE RunningInv'
    BY <2>11 DEF Connect
  <2>12. ASSUME NEW c \in Conns, Secure(c) PROVE RunningInv'
    BY <2>12 DEF Secure
  <2>13. ASSUME NEW c \in Conns, Request(c) PROVE RunningInv'
    BY <2>13 DEF Request
  <2>14. ASSUME NEW c \in Conns, SocketClosed(c) PROVE RunningInv'
    BY <2>14 DEF SocketClosed
  <2>15. ASSUME NEW c \in Conns, Drop(c) PROVE RunningInv'
    BY <2>15 DEF Drop
  <2>16. ASSUME NEW x \in cache, Answer(x) PROVE RunningInv'
    BY <2>16 DEF Answer
  <2>17. CASE UNCHANGED vars
    BY <2>17 DEF vars
  <2> QED
    BY <2>1, <2>2, <2>3, <2>4, <2>5, <2>6, <2>7, <2>8, <2>9, <2>10, <2>11, <2>12,
       <2>13, <2>14, <2>15, <2>16, <2>17
    DEF Next, PeerEnds, SocketTimeout
<1> QED BY <1>1, <1>2, TypeCorrect, ReleaseInvariant, PTL DEF Spec, OrderlyInv

Clients == {c \in Conns : Live(sock[c])}

(* What the life cycle sees of a step.                                     *)
Sees == Lifecycle!Next \/ UNCHANGED <<Mode, Clients>>

LEMMA SameMode ==
  ASSUME UNCHANGED <<server, startRes, stopRes>>
  PROVE  Mode' = Mode
BY DEF Mode, hasServer, StartOpen, StopOpen

LEMMA Leaves ==
  ASSUME Mode' = Mode, Clients' \subseteq Clients
  PROVE  Sees
<1>1. Clients' = Clients \ (Clients \ Clients')
  OBVIOUS
<1>2. CASE Clients' = Clients
  BY <1>2 DEF Sees
<1>3. CASE Clients' # Clients
  <2>1. PICK C \in SUBSET Clients : C # {} /\ Clients' = Clients \ C
    BY <1>1, <1>3
  <2>2. Lifecycle!Leave
    BY <2>1 DEF Lifecycle!Leave, Clients
  <2> QED
    BY <2>2 DEF Sees, Lifecycle!Next
<1> QED
  BY <1>2, <1>3

LEMMA DestroyLeaves ==
  ASSUME TypeOK, NEW D, Destroy(D)
  PROVE  Clients' \subseteq Clients
BY DEF Destroy, Live, Clients, TypeOK, Sock

(* Calls, and the events that settle a start.                              *)
LEMMA StartSees ==
  ASSUME Guarded, Await, OrderlyInv, NEW i \in Servers,
         Start(i) \/ AfterBeforeStart(i) \/ Listening(i) \/ ListenError(i)
  PROVE  Sees
<1> USE DEF OrderlyInv
<1>1. Clients' = Clients
  BY DEF Start, AfterBeforeStart, Listening, ListenError, Clients, tracked, net
<1>2. CASE Start(i)
  <2>1. Mode = "stopped"
    BY <1>2 DEF Start, MayStart, Mode
  <2>2. /\ server' = i /\ i # NoServer /\ stopRes' = stopRes /\ \A t \in Stops : ~StopOpen(t)
        /\ startRes'[i] \in {"before", "pending"}
    BY <1>2 DEF Start, MayStart, Settled, TypeOK, NoServer, Servers
  <2>3. Mode' = "starting"
    BY <2>2 DEF Mode, hasServer, StartOpen, StopOpen
  <2>4. Lifecycle!Start
    BY <1>1, <2>1, <2>3 DEF Lifecycle!Start, Clients
  <2> QED
    BY <2>4 DEF Sees, Lifecycle!Next
<1>3. CASE ~Start(i)
  <2>1. server' = server /\ stopRes' = stopRes
    BY <1>3 DEF AfterBeforeStart, Listening, ListenError, net
  <2>2. ASSUME hasServer, StartOpen(server) PROVE Sees
    <3>1. Mode = "starting" /\ Mode' \in {"starting", "running", "failed"}
      BY <2>1, <2>2 DEF AwaitInv, OneCall, Mode, hasServer, StopOpen, TypeOK, NoServer
    <3>2. CASE Mode' = Mode
      BY <1>1, <3>2 DEF Sees
    <3>3. CASE Mode' # Mode
      BY <1>1, <3>1, <3>3 DEF Sees, Lifecycle!Next, Lifecycle!StartSettled, Clients
    <3> QED
      BY <3>2, <3>3
  <2>3. ASSUME hasServer, ~StartOpen(server) PROVE Sees
    <3>1. startRes'[server] = startRes[server]
      BY <1>3, <2>3 DEF AfterBeforeStart, Listening, ListenError, StartOpen, TypeOK, hasServer, NoServer
    <3>2. Mode' = Mode
      BY <2>1, <3>1 DEF Mode, hasServer, StartOpen, StopOpen
    <3> QED
      BY <1>1, <3>2 DEF Sees
  <2>4. ASSUME ~hasServer PROVE Sees
    BY <1>1, <2>1, <2>4 DEF Sees, Mode, hasServer
  <2> QED
    BY <2>2, <2>3, <2>4
<1> QED
  BY <1>2, <1>3

LEMMA StopSees ==
  ASSUME Guarded, Await, OrderlyInv, NEW t \in Stops, Stop(t) \/ Shutdown(t) \/ StopBody(t)
  PROVE  Sees
<1> USE DEF OrderlyInv
<1>1. Clients' \subseteq Clients
  <2>1. Stop(t) => Clients' = Clients
    BY DEF Stop, Clients
  <2> QED
    BY <2>1, DestroyLeaves DEF Shutdown, StopBody
<1>2. CASE Stop(t) \/ Shutdown(t)
  <2>1. /\ hasServer /\ server' = server /\ startRes' = startRes /\ stopRes'[t] = "prefinal"
        /\ \A u \in Stops : ~StopOpen(u)
        /\ \A i \in Servers : ~StartOpen(i)
    BY <1>2 DEF Stop, Shutdown, MayStop, Settled, TypeOK
  <2>2. Mode \in {"running", "failed"}
    BY <2>1 DEF Mode, hasServer, TypeOK, NoServer
  <2>3. Mode' = "stopping"
    BY <2>1 DEF Mode, hasServer, StopOpen
  <2>4. Lifecycle!Stop
    BY <1>1, <2>2, <2>3 DEF Lifecycle!Stop, Clients
  <2> QED
    BY <2>4 DEF Sees, Lifecycle!Next
<1>3. CASE StopBody(t)
  <2>1. server' = server /\ startRes' = startRes /\ stopRes' = [stopRes EXCEPT ![t] = StopAnswer] /\ StopOpen(t)
    BY <1>3 DEF StopBody, AfterClose, StopOpen
  <2>2. CASE ~hasServer
    BY <1>1, <2>1, <2>2, Leaves DEF Mode, hasServer
  <2>3. CASE hasServer
    <3>1. StopOpen(t)'
      BY <2>1, <2>3 DEF StopAnswer, StopOpen, TypeOK
    <3>2. Mode' = Mode
      BY <2>1, <2>3, <3>1 DEF Mode, hasServer
    <3> QED
      BY <1>1, <3>2, Leaves
  <2> QED
    BY <2>2, <2>3
<1> QED
  BY <1>2, <1>3

LEMMA CloseSees ==
  ASSUME OrderlyInv, NEW i \in Servers, CloseEvent(i)
  PROVE  Sees
<1> USE DEF OrderlyInv
<1>1. closeCbs[i] # {} /\ server = i /\ \A c \in Conns : ~Live(sock[c])
  BY DEF CloseEvent, ReleaseInv, AwaitInv, StopsOwn, TypeOK
<1>2. server' = NoServer /\ sock' = sock
  BY <1>1 DEF CloseEvent
<1>3. PICK t \in Stops : StopOpen(t)
  BY <1>1 DEF AwaitInv, StopsOwn, StopOpen, TypeOK
<1>4. Mode = "stopping"
  BY <1>1, <1>3 DEF Mode, hasServer, NoServer, Servers
<1>5. Mode' = "stopped"
  BY <1>2 DEF Mode, hasServer
<1>6. Clients = {} /\ Clients' = Clients
  BY <1>1, <1>2 DEF Clients
<1>7. Lifecycle!StopSettled
  BY <1>4, <1>5, <1>6 DEF Lifecycle!StopSettled, Clients
<1> QED
  BY <1>7 DEF Sees, Lifecycle!Next

LEMMA ConnectSees ==
  ASSUME OrderlyInv, NEW c \in Conns, NEW k \in Keys, NEW i \in Servers, Connect(c, k, i)
  PROVE  Sees
<1> USE DEF OrderlyInv
<1>1. /\ Idle /\ phase[i] = "bound" /\ sock[c].st = "none" /\ UNCHANGED <<server, startRes, stopRes>>
  BY DEF Connect, calls
<1>2. server = i /\ hasServer /\ startRes[server] = "true"
  BY <1>1 DEF ReleaseInv, RunningInv, Idle, hasServer, NoServer, Servers
<1>3. \A t \in Stops : ~StopOpen(t)
  BY <1>1, <1>2 DEF Idle, StopOpen, RunningInv, AwaitInv, StopsOwn
<1>4. Mode = "running" /\ Mode' = Mode
  BY <1>1, <1>2, <1>3, SameMode DEF Mode, StartOpen
<1>5. Clients' = Clients \cup {c} /\ c \notin Clients
  BY <1>1 DEF Connect, Clients, Live, TypeOK
<1>6. Lifecycle!Accept(c)
  BY <1>4, <1>5 DEF Lifecycle!Accept, Clients
<1> QED
  BY <1>6 DEF Sees, Lifecycle!Next

LEMMA SocketSees ==
  ASSUME OrderlyInv, NEW c \in Conns, Secure(c) \/ Request(c) \/ SocketClosed(c) \/ Drop(c)
  PROVE  Sees
<1> USE DEF OrderlyInv
<1>1. Mode' = Mode
  BY SameMode DEF Secure, Request, SocketClosed, Drop, calls
<1>2. CASE Drop(c)
  BY <1>1, <1>2, DestroyLeaves, Leaves DEF Drop
<1>3. CASE Secure(c) \/ Request(c) \/ SocketClosed(c)
  <2>1. Clients' \subseteq Clients
    BY <1>3 DEF Secure, Request, SocketClosed, Clients, Live, TypeOK, Sock
  <2> QED
    BY <1>1, <2>1, Leaves
<1> QED
  BY <1>2, <1>3

(* ImplementsLifecycle: for callers that await every call and respect      *)
(* hasServer(), every step is one of the promised life cycle: clients get  *)
(* in only after a start that came true, and a stop settles only when the  *)
(* last of them is gone (Server.ts:239-324).                               *)
THEOREM ImplementsLifecycleCorrect == ASSUME Await, Guarded PROVE Spec => ImplementsLifecycle
<1>1. Init => Lifecycle!Init
  BY DEF Init, Lifecycle!Init, Mode, hasServer, Live
<1>2. OrderlyInv /\ [Next]_vars => [Lifecycle!Next]_(Lifecycle!vars)
  <2> SUFFICES ASSUME OrderlyInv, [Next]_vars PROVE Sees
    BY DEF Sees, Clients, Lifecycle!vars
  <2>1. ASSUME NEW i \in Servers, Bind(i) PROVE Sees
    BY <2>1, SameMode DEF Bind, calls, Sees, Clients
  <2>2. ASSUME NEW i \in Servers, CloseCrash(i) PROVE Sees
    BY <2>2, SameMode DEF CloseCrash, calls, Sees, Clients
  <2>3. ASSUME NEW x \in cache, Answer(x) PROVE Sees
    BY <2>3, SameMode DEF Answer, calls, Sees, Clients
  <2>4. CASE UNCHANGED vars
    BY <2>4, SameMode DEF vars, calls, Sees, Clients
  <2> QED
    BY <2>1, <2>2, <2>3, <2>4, StartSees, StopSees, CloseSees, ConnectSees, SocketSees
    DEF Next, PeerEnds, SocketTimeout
<1> QED
  BY <1>1, <1>2, RunningInvariant, PTL DEF Spec, ImplementsLifecycle, Lifecycle!Spec

=============================================================================
