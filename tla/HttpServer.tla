------------------------------ MODULE HttpServer ------------------------------
(***************************************************************************)
(* The life cycle of one object of class Server (libs/server/Server.ts):   *)
(* start, stop and shutdown as callers may interleave them, the net.Server *)
(* objects it creates, the sockets it tracks in $connections and the stall *)
(* timers it keeps in cache.                                               *)
(*                                                                         *)
(* Node runs one callback at a time.  An action is one callback, or the    *)
(* part of an async method up to its next await.  Promise continuations    *)
(* and process.nextTick callbacks run before any network event or timer    *)
(* (Idle); their order among themselves is left open, for it depends on    *)
(* what the caller's own code is in the middle of.                         *)
(***************************************************************************)
EXTENDS Integers, FiniteSets

CONSTANTS
  Conns,        \* sockets that clients may open; each is used at most once
  Keys,         \* the values of remoteAddress:remotePort
  MaxStarts,    \* bound on calls of start(); start i creates net.Server i
  MaxStops,     \* bound on calls of stop() and shutdown()
  MaxRequests,  \* bound on inc, the number of requests answered
  Secured,      \* protocol matches ^https
  HasWrapper,   \* initialize() was given a wrapper with beforeStart
  Await,        \* callers await every call before they make the next one
  Guarded,      \* callers test hasServer(): start without, stop with a server
  EagerReuse,   \* a client port may be used again before the 'close' event
  BindErrors    \* the errors listen may meet: "inuse" (EADDRINUSE), "failed"

ASSUME HttpServerAssumption ==
  /\ Keys # {}
  /\ MaxStarts \in Nat /\ MaxStops \in Nat /\ MaxRequests \in Nat
  /\ {Secured, HasWrapper, Await, Guarded, EagerReuse} \subseteq BOOLEAN
  /\ BindErrors \subseteq {"inuse", "failed"}

VARIABLES
  server,       \* this.server: the net.Server of start i, or NoServer
  connections,  \* the sockets that are values of this.$connections
  cache,        \* this.cache: pending stall timers [inc, s]
  inc,          \* this.inc
  shut,         \* the stops that came from shutdown(); _abort = (shut # {})
  startRes,     \* start i: its progress and then the state of its promise
  stopRes,      \* stop i: its progress and then the state of its promise
  phase,        \* net.Server i: "bound" while it owns a listening handle
  wired,        \* net.Server i has the listeners start() attaches
  startCbs,     \* net.Server i: starts with listen callback attached
  closeCbs,     \* net.Server i: stops with a close callback attached
  openTick,     \* net.Server i: 'listening' or 'error' waits to be emitted
  closeTick,    \* net.Server i: 'close' waits to be emitted
  sock,         \* the sockets
  crashed       \* an exception nobody catches has ended the process

calls   == <<startRes, stopRes, shut>>
net     == <<phase, wired, startCbs, closeCbs>>
ticks   == <<openTick, closeTick>>
tracked == <<connections, cache, inc>>
vars    == <<server, calls, net, ticks, tracked, sock, crashed>>

NoServer == 0
Servers  == 1 .. MaxStarts
Stops    == 1 .. MaxStops

StartState == {"idle", "before", "pending", "unheard", "true", "rejected"}
StopState  == {"idle", "prefinal", "waiting", "true", "false"}
Phase      == {"unused", "created", "lookup", "bound", "unbound"}

(* handshake: TLS not finished; open: known to onServerConnection; mute:   *)
(* accepted by a net.Server without listeners; closing: destroyed, 'close' *)
(* still to be emitted.                                                    *)
SockState == {"none", "handshake", "open", "mute", "closing", "closed"}
Sock      == [st : SockState, srv : Servers \cup {NoServer}, key : Keys]
Live(x)   == x.st \in {"handshake", "open", "mute"}

TypeOK ==
  /\ server \in Servers \cup {NoServer}
  /\ connections \subseteq Conns
  /\ cache \subseteq [inc : 0 .. MaxRequests, s : Conns]
  /\ inc \in 0 .. MaxRequests
  /\ shut \subseteq Stops
  /\ startRes \in [Servers -> StartState]
  /\ stopRes \in [Stops -> StopState]
  /\ phase \in [Servers -> Phase]
  /\ wired \in [Servers -> BOOLEAN]
  /\ startCbs \in [Servers -> SUBSET Servers]
  /\ closeCbs \in [Servers -> SUBSET Stops]
  /\ openTick \in [Servers -> {"none", "listening", "inuse", "failed"}]
  /\ closeTick \in [Servers -> BOOLEAN]
  /\ sock \in [Conns -> Sock]
  /\ crashed \in BOOLEAN

Init ==
  /\ server = NoServer
  /\ connections = {} /\ cache = {} /\ inc = 0 /\ shut = {}
  /\ startRes = [i \in Servers |-> "idle"]
  /\ stopRes = [t \in Stops |-> "idle"]
  /\ phase = [i \in Servers |-> "unused"]
  /\ wired = [i \in Servers |-> FALSE]
  /\ startCbs = [i \in Servers |-> {}]
  /\ closeCbs = [i \in Servers |-> {}]
  /\ openTick = [i \in Servers |-> "none"]
  /\ closeTick = [i \in Servers |-> FALSE]
  /\ sock = [c \in Conns |-> [st |-> "none", srv |-> NoServer, key |-> CHOOSE k \in Keys : TRUE]]
  /\ crashed = FALSE

-----------------------------------------------------------------------------
(* Callers.                                                                *)

StartOpen(i) == startRes[i] \in {"before", "pending", "unheard"}
StopOpen(t)  == stopRes[t] \in {"prefinal", "waiting"}
Settled      == (\A i \in Servers : ~StartOpen(i)) /\ (\A t \in Stops : ~StopOpen(t))

hasServer == server # NoServer

MayStart == ~crashed /\ (Await => Settled) /\ (Guarded => ~hasServer)
MayStop  == ~crashed /\ (Await => Settled) /\ (Guarded => hasServer)

NextStart(i) == startRes[i] = "idle" /\ \A j \in 1 .. i - 1 : startRes[j] # "idle"
NextStop(t)  == stopRes[t] = "idle" /\ \A u \in 1 .. t - 1 : stopRes[u] # "idle"

(* No promise continuation or nextTick callback is waiting: the event loop *)
(* may take the next network event or timer.                               *)
Idle ==
  /\ ~crashed
  /\ \A i \in Servers : openTick[i] = "none" /\ ~closeTick[i]
  /\ \A t \in Stops : stopRes[t] # "prefinal"

-----------------------------------------------------------------------------
(* Destroying sockets.  socket.destroy() takes the socket off the count of *)
(* its net.Server at once and emits 'close' later; a net.Server without a  *)
(* handle whose count reaches zero queues its own 'close'.                 *)

Destroy(D) ==
  sock' = [c \in Conns |->
             IF c \in D /\ Live(sock[c])
               THEN [sock[c] EXCEPT !.st = IF @ = "open" THEN "closing" ELSE "closed"]
               ELSE sock[c]]

Drained(i) == phase'[i] # "bound" /\ \A c \in Conns : sock'[c].srv = i => ~Live(sock'[c])

LosesSocket(i, D) == \E c \in D : Live(sock[c]) /\ sock[c].srv = i

-----------------------------------------------------------------------------
(* start()                                                                 *)

(* start up to listen, or up to the await of beforeStart: a new net.Server *)
(* replaces this.server and $connections starts empty.                     *)
Start(i) ==
  /\ MayStart /\ NextStart(i)
  /\ server' = i
  /\ connections' = {}
  /\ wired' = [wired EXCEPT ![i] = TRUE]
  /\ phase' = [phase EXCEPT ![i] = IF HasWrapper THEN "created" ELSE "lookup"]
  /\ startRes' = [startRes EXCEPT ![i] = IF HasWrapper THEN "before" ELSE "pending"]
  /\ startCbs' = [startCbs EXCEPT ![i] = IF HasWrapper THEN {} ELSE {i}]
  /\ UNCHANGED <<cache, inc, shut, stopRes, closeCbs, ticks, sock, crashed>>

(* start after beforeStart: `self.server' is read again.  It may be null   *)
(* by now (TypeError) or listening already (ERR_SERVER_ALREADY_LISTEN):    *)
(* either rejects the promise, as a rejection of beforeStart does.         *)
AfterBeforeStart(i) ==
  /\ ~crashed
  /\ startRes[i] = "before"
  /\ \/ /\ startRes' = [startRes EXCEPT ![i] = "rejected"]
        /\ UNCHANGED <<phase, startCbs>>
     \/ /\ hasServer /\ phase[server] # "bound"
        /\ startRes' = [startRes EXCEPT ![i] = "pending"]
        /\ phase' = [phase EXCEPT ![server] = "lookup"]
        /\ startCbs' = [startCbs EXCEPT ![server] = @ \cup {i}]
  /\ UNCHANGED <<server, tracked, shut, stopRes, wired, closeCbs, ticks, sock, crashed>>

(* The address lookup of listen is over and the port is bound, or not: it  *)
(* never is while another net.Server of this object still owns it.         *)
Bind(i) ==
  /\ Idle /\ phase[i] = "lookup"
  /\ \E r \in IF \E j \in Servers : phase[j] = "bound" THEN {"inuse"}
                                                       ELSE BindErrors \cup {"listening"} :
       /\ openTick' = [openTick EXCEPT ![i] = r]
       /\ phase' = [phase EXCEPT ![i] = IF r = "listening" THEN "bound" ELSE "unbound"]
  /\ UNCHANGED <<server, calls, wired, startCbs, closeCbs, closeTick, tracked, sock, crashed>>

(* 'listening': nothing is emitted once the handle is gone.                *)
Listening(i) ==
  /\ ~crashed /\ openTick[i] = "listening"
  /\ openTick' = [openTick EXCEPT ![i] = "none"]
  /\ IF phase[i] = "bound"
       THEN /\ startRes' = [j \in Servers |-> IF j \in startCbs[i] /\ StartOpen(j)
                                                THEN "true" ELSE startRes[j]]
            /\ startCbs' = [startCbs EXCEPT ![i] = {}]
       ELSE UNCHANGED <<startRes, startCbs>>
  /\ UNCHANGED <<server, shut, stopRes, phase, wired, closeCbs, closeTick, tracked, sock, crashed>>

(* The errors for which start's promise is rejected.                       *)
Rejects_None(err) == FALSE
Rejects(err)      == err = "inuse"

(* 'error': once('error') rejects for EADDRINUSE and only logs for every   *)
(* other error; without any listener the emitter throws.                   *)
ListenError(i) ==
  /\ ~crashed /\ openTick[i] \in {"inuse", "failed"}
  /\ openTick' = [openTick EXCEPT ![i] = "none"]
  /\ IF wired[i]
       THEN /\ startRes' = [j \in Servers |->
                              IF j \in startCbs[i] /\ startRes[j] = "pending"
                                THEN IF Rejects(openTick[i]) THEN "rejected" ELSE "unheard"
                                ELSE startRes[j]]
            /\ UNCHANGED crashed
       ELSE crashed' = TRUE /\ UNCHANGED startRes
  /\ UNCHANGED <<server, shut, stopRes, net, closeTick, tracked, sock>>

-----------------------------------------------------------------------------
(* stop() and shutdown()                                                   *)

(* stop up to `await this.preFinalize()'.                                  *)
Stop(t) ==
  /\ MayStop /\ NextStop(t)
  /\ stopRes' = [stopRes EXCEPT ![t] = "prefinal"]
  /\ UNCHANGED <<server, startRes, shut, net, ticks, tracked, sock, crashed>>

(* shutdown: cancel every stall timer, destroy its socket, then stop.      *)
Shutdown(t) ==
  /\ MayStop /\ NextStop(t)
  /\ stopRes' = [stopRes EXCEPT ![t] = "prefinal"]
  /\ shut' = shut \cup {t}
  /\ cache' = {}
  /\ UNCHANGED net
  /\ LET D == {x.s : x \in cache} IN
       /\ Destroy(D)
       /\ closeTick' = [i \in Servers |-> closeTick[i] \/ (LosesSocket(i, D) /\ Drained(i))]
  /\ UNCHANGED <<server, startRes, openTick, connections, inc, crashed>>

(* What stop answers: true from the callback of close, false at once.      *)
StopAnswer_Early == IF hasServer THEN "true" ELSE "false"
StopAnswer       == IF hasServer THEN "waiting" ELSE "false"

(* this.server once close has been called: only the callback clears it.    *)
AfterClose_Cleared == NoServer
AfterClose         == server

(* stop after preFinalize: destroy and forget the tracked sockets, then    *)
(* close the net.Server.  close takes the handle away and adds the         *)
(* callback whether or not there was a handle.                             *)
StopBody(t) ==
  /\ ~crashed /\ stopRes[t] = "prefinal"
  /\ Destroy(connections)
  /\ connections' = {}
  /\ server' = AfterClose
  /\ stopRes' = [stopRes EXCEPT ![t] = StopAnswer]
  /\ phase' = [i \in Servers |-> IF i = server /\ phase[i] = "bound" THEN "unbound" ELSE phase[i]]
  /\ closeCbs' = [i \in Servers |-> IF i = server THEN closeCbs[i] \cup {t} ELSE closeCbs[i]]
  /\ closeTick' = [i \in Servers |->
                     closeTick[i] \/ ((i = server \/ LosesSocket(i, connections)) /\ Drained(i))]
  /\ UNCHANGED <<startRes, shut, wired, startCbs, openTick, cache, inc, crashed>>

(* The callback of close works on this.server, whichever it is by now: a   *)
(* second callback, or one that finds null, throws.                        *)
CloseThrows(i) == closeCbs[i] # {} /\ (~hasServer \/ \E t, u \in closeCbs[i] : t # u)

CloseEvent(i) ==
  /\ ~crashed /\ closeTick[i] /\ ~CloseThrows(i)
  /\ closeTick' = [closeTick EXCEPT ![i] = FALSE]
  /\ IF closeCbs[i] = {}
       THEN UNCHANGED <<server, stopRes, wired, startCbs, closeCbs>>
       ELSE /\ server' = NoServer
            /\ stopRes' = [t \in Stops |-> IF t \in closeCbs[i] THEN "true" ELSE stopRes[t]]
            /\ wired' = [wired EXCEPT ![server] = FALSE]
            /\ startCbs' = [startCbs EXCEPT ![server] = {}]
            /\ closeCbs' = [j \in Servers |-> IF j \in {i, server} THEN {} ELSE closeCbs[j]]
  /\ UNCHANGED <<startRes, shut, phase, openTick, tracked, sock, crashed>>

CloseCrash(i) ==
  /\ ~crashed /\ closeTick[i] /\ CloseThrows(i)
  /\ crashed' = TRUE
  /\ UNCHANGED <<server, calls, net, ticks, tracked, sock>>

-----------------------------------------------------------------------------
(* Clients                                                                 *)

KeyFree(k) ==
  \A c \in Conns : sock[c].key = k => /\ ~Live(sock[c])
                                      /\ ~EagerReuse => sock[c].st # "closing"

(* onServerConnection: $connections[key] = socket, an older value of the   *)
(* key is lost.                                                            *)
Register_ByAddress(c, k) == connections' = {c}
Register_Key(c, k)       == connections' = connections \cup {k}
Register(c, k)           == connections' = {d \in connections : sock[d].key # k} \cup {c}

Connect(c, k, i) ==
  /\ Idle /\ phase[i] = "bound"
  /\ sock[c].st = "none" /\ KeyFree(k)
  /\ LET st == IF ~wired[i] THEN "mute" ELSE IF Secured THEN "handshake" ELSE "open" IN
       /\ sock' = [sock EXCEPT ![c] = [st |-> st, srv |-> i, key |-> k]]
       /\ IF st = "open" THEN Register(c, k) ELSE UNCHANGED connections
  /\ UNCHANGED <<server, calls, net, ticks, cache, inc, crashed>>

(* The TLS handshake is over; 'secureConnection' is emitted.               *)
Secure(c) ==
  /\ Idle /\ sock[c].st = "handshake"
  /\ LET st == IF wired[sock[c].srv] THEN "open" ELSE "mute" IN
       /\ sock' = [sock EXCEPT ![c].st = st]
       /\ IF st = "open" THEN Register(c, sock[c].key) ELSE UNCHANGED connections
  /\ UNCHANGED <<server, calls, net, ticks, cache, inc, crashed>>

(* response: the answer waits for the stall time.                          *)
Request(c) ==
  /\ Idle /\ sock[c].st = "open" /\ wired[sock[c].srv]
  /\ inc < MaxRequests
  /\ cache' = cache \cup {[inc |-> inc, s |-> c]}
  /\ inc' = inc + 1
  /\ UNCHANGED <<server, calls, net, ticks, connections, sock, crashed>>

(* The stall time is over: fn answers and the entry goes.                  *)
Answer(x) ==
  /\ Idle /\ x \in cache
  /\ cache' = cache \ {x}
  /\ UNCHANGED <<server, calls, net, ticks, connections, inc, sock, crashed>>

(* A socket ends by itself.                                                *)
Drop(c) ==
  /\ Idle /\ Live(sock[c])
  /\ Destroy({c})
  /\ UNCHANGED phase
  /\ closeTick' = [i \in Servers |-> closeTick[i] \/ (LosesSocket(i, {c}) /\ Drained(i))]
  /\ UNCHANGED <<server, calls, wired, startCbs, closeCbs, openTick, tracked, crashed>>

(* The peer hangs up, or sends what onServerClientError destroys it for.   *)
PeerEnds(c) == Drop(c)

(* createServer: only http servers get the time limit for idle sockets.    *)
SocketTimeout_Never(c) == Secured /\ Drop(c)
SocketTimeout(c)       == ~Secured /\ Drop(c)

(* 'close' of a socket: its key is deleted, whoever holds it by now.       *)
SocketClosed(c) ==
  /\ Idle /\ sock[c].st = "closing"
  /\ sock' = [sock EXCEPT ![c].st = "closed"]
  /\ connections' = {d \in connections : sock[d].key # sock[c].key}
  /\ UNCHANGED <<server, calls, net, ticks, cache, inc, crashed>>

-----------------------------------------------------------------------------
Next ==
  \/ \E i \in Servers : Start(i) \/ AfterBeforeStart(i) \/ Bind(i) \/ Listening(i)
                          \/ ListenError(i) \/ CloseEvent(i) \/ CloseCrash(i)
  \/ \E t \in Stops : Stop(t) \/ Shutdown(t) \/ StopBody(t)
  \/ \E c \in Conns : Secure(c) \/ Request(c) \/ PeerEnds(c) \/ SocketTimeout(c) \/ SocketClosed(c)
  \/ \E c \in Conns, k \in Keys, i \in Servers : Connect(c, k, i)
  \/ \E x \in cache : Answer(x)

(* The event loop runs every callback that is due; beforeStart settles; an *)
(* http socket that stays idle is timed out.  Callers and clients owe      *)
(* nothing.                                                                *)
Fairness ==
  /\ \A i \in Servers : /\ WF_vars(AfterBeforeStart(i)) /\ WF_vars(Bind(i))
                        /\ WF_vars(Listening(i)) /\ WF_vars(ListenError(i))
                        /\ WF_vars(CloseEvent(i)) /\ WF_vars(CloseCrash(i))
  /\ \A t \in Stops : WF_vars(StopBody(t))
  /\ \A c \in Conns : WF_vars(SocketTimeout(c)) /\ WF_vars(SocketClosed(c))

Spec     == Init /\ [][Next]_vars
FairSpec == Spec /\ Fairness

-----------------------------------------------------------------------------
(* Properties.                                                             *)

(* No exception escapes from a callback of Server: the close callback      *)
(* (Server.ts:304-309) always finds a server to tear down and an 'error'   *)
(* of listen always finds a listener.                                      *)
NoUncaught == ~crashed

(* Every connection of the server in use that onServerConnection has seen  *)
(* and that is still alive is in $connections, so that stop can destroy it *)
(* (Server.ts:221-230 and 292-301).                                        *)
TrackedConns ==
  \A c \in Conns : sock[c].st = "open" /\ sock[c].srv = server => c \in connections

(* hasServer() = false means the port is free for the next start: nothing  *)
(* is bound, no client is connected, no call is under way.                 *)
StoppedIsReleased ==
  ~hasServer => /\ \A i \in Servers : phase[i] # "bound"
                /\ \A c \in Conns : ~Live(sock[c])
                /\ \A i \in Servers : ~StartOpen(i)
                /\ \A t \in Stops : stopRes[t] # "waiting"

(* A server in use is only given up for its own 'close', after its handle  *)
(* is gone.                                                                *)
OwnClose ==
  [][\A i \in Servers : server = i /\ server' = NoServer =>
        phase[i] # "bound" /\ closeTick[i] /\ ~closeTick'[i]]_vars

(* The life cycle an orderly caller relies on (Server.ts:239-324).         *)
Mode ==
  IF ~hasServer THEN "stopped"
  ELSE IF \E t \in Stops : StopOpen(t) THEN "stopping"
  ELSE IF StartOpen(server) THEN "starting"
  ELSE IF startRes[server] = "true" THEN "running" ELSE "failed"

Lifecycle == INSTANCE ServerLifecycle
               WITH mode <- Mode, clients <- {c \in Conns : Live(sock[c])}

(* Every step of the server is a step of the promised life cycle.          *)
ImplementsLifecycle == Lifecycle!Spec

(* ... and what the life cycle promises to happen does happen.             *)
FulfilsLifecycle == Lifecycle!FairSpec

(* A stop settles.                                                         *)
StopSettles == \A t \in Stops : StopOpen(t) ~> ~StopOpen(t)

(* A start settles: with true or with a rejection.                         *)
StartSettles == \A i \in Servers : StartOpen(i) ~> ~StartOpen(i)

=============================================================================
