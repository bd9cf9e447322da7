------------------------------- MODULE Server -------------------------------
(***************************************************************************)
(* The falcore server: the accept loop (serve), one handler and one        *)
(* sentinel goroutine per connection, and StopAccepting.                   *)
(*                                                                         *)
(* Actors: the goroutine in ListenAndServe (servePC), whoever calls        *)
(* StopAccepting, for every connection its handler (pc), its sentinel      *)
(* (sentinel) and its client, and time, which makes deadlines expire.      *)
(* Request and response contents are left out: of a request only what      *)
(* decides keep-alive remains, of a response only res.Close.               *)
(***************************************************************************)
EXTENDS Integers, FiniteSets

CONSTANTS
  Conn,       \* connections clients may open
  MaxUnread,  \* bound: requests written on a connection and not yet read
  MaxStops    \* bound: calls to StopAccepting

ASSUME ConnAssumption == IsFiniteSet(Conn)

ASSUME BoundsAssumption == MaxUnread \in Nat /\ MaxStops \in Nat

\* proto is the protocol version; connection is the Connection header: absent,
\* exactly "close", "keep-alive" in any case, or anything else.
Request == [proto : {"1.0", "1.1"},
            connection : {"absent", "close", "keep-alive", "other"}]

VARIABLES
  process,          \* "running", or why the process died
  listener,         \* srv.listener: "nil", "tcp" (*net.TCPListener), "unix" or "tls"
  panicHandler,     \* srv.PanicHandler # nil
  servePC,          \* where serve() is
  stops,            \* calls to StopAccepting so far
  handlerWaitGroup, \* the wait group's counter
  client,           \* per connection: "new", "open" or "gone"
  unread,           \* per connection: requests written and not yet read
  pc,               \* per connection: where its handler is
  keepAlive,        \* per connection: handler's keepAlive
  sentinel,         \* per connection: "none", "select" or "exited"
  closedChans,      \* connections whose closeSentinelChan is closed
  deadlines,        \* connections whose read deadline is set
  stuck,            \* connections whose filter or socket write blocks for ever
  panicking,        \* connections whose handler is panicking
  lateRequests,     \* history: per connection, requests read after the stop
  lateAccepts       \* history: connections accepted after the stop

serverVars  == <<process, listener, panicHandler, servePC, stops, lateAccepts>>
clientVars  == <<client, unread>>
handlerVars == <<pc, keepAlive, stuck, panicking, lateRequests>>
guardVars   == <<sentinel, closedChans, deadlines>>
vars == <<serverVars, handlerWaitGroup, clientVars, handlerVars, guardVars>>

ServePC   == {"new", "accept", "select", "wait", "returned"}
HandlerPC == {"none", "start", "read", "pipeline", "check", "write",
              "finish", "give", "done"}
Deaths    == {"acceptError", "closedTwice", "handlerPanic", "socketFd"}

-----------------------------------------------------------------------------
\* The stopAccepting channel is closed by the first call.
stopAccepting == stops > 0

\* In the kernel's accept queue: connected, no handler yet.
Backlog == {c \in Conn : client[c] # "new" /\ pc[c] = "none"}

\* Accepted and not yet finished: what the wait group counts.
Active == {c \in Conn : pc[c] \notin {"none", "give", "done"}}

\* Finished: connectionFinished has run.
Finished == {c \in Conn : pc[c] \in {"give", "done"}}

\* handler's keepAlive after reading req: HTTP/1.1 keeps the connection unless
\* told "close" (compared exactly), HTTP/1.0 only when told "keep-alive".
KeepsAlive(req) ==
  IF req.proto = "1.1" THEN req.connection # "close"
                       ELSE req.connection = "keep-alive"

\* The history of late work: 1 for something that happens after the stop.
Late == IF stopAccepting THEN 1 ELSE 0

Goto(c, to) == pc' = [pc EXCEPT ![c] = to]

-----------------------------------------------------------------------------
Init ==
  /\ process = "running"
  /\ listener = "nil"
  /\ panicHandler \in BOOLEAN
  /\ servePC = "new"
  /\ stops = 0
  /\ handlerWaitGroup = 0
  /\ client = [c \in Conn |-> "new"]
  /\ unread = [c \in Conn |-> 0]
  /\ pc = [c \in Conn |-> "none"]
  /\ keepAlive = [c \in Conn |-> TRUE]
  /\ sentinel = [c \in Conn |-> "none"]
  /\ closedChans = {}
  /\ deadlines = {}
  /\ stuck = {}
  /\ panicking = {}
  /\ lateRequests = [c \in Conn |-> 0]
  /\ lateAccepts = 0

-----------------------------------------------------------------------------
(* Clients.                                                                *)

Connect(c) ==
  /\ client[c] = "new"
  /\ listener # "nil"
  /\ client' = [client EXCEPT ![c] = "open"]
  /\ UNCHANGED <<serverVars, handlerWaitGroup, unread, handlerVars, guardVars>>

Send(c) ==
  /\ client[c] = "open"
  /\ unread[c] < MaxUnread
  /\ unread' = [unread EXCEPT ![c] = @ + 1]
  /\ UNCHANGED <<serverVars, handlerWaitGroup, client, handlerVars, guardVars>>

\* The client closes: an orderly close leaves what it wrote readable, a reset
\* discards it.  A blocked write to it fails at once, a blocked filter stays.
Leave(c) ==
  /\ client[c] = "open"
  /\ client' = [client EXCEPT ![c] = "gone"]
  /\ \/ unread' = unread
     \/ unread' = [unread EXCEPT ![c] = 0]
  /\ stuck' = IF pc[c] = "write" THEN stuck \ {c} ELSE stuck
  /\ UNCHANGED <<serverVars, handlerWaitGroup, pc, keepAlive, panicking,
                 lateRequests, guardVars>>

-----------------------------------------------------------------------------
(* StopAccepting and the accept loop.                                      *)

\* close(srv.stopAccepting): a second call closes a closed channel and panics.
StopAccepting ==
  /\ stops < MaxStops
  /\ stops' = stops + 1
  /\ process' = IF stopAccepting THEN "closedTwice" ELSE process
  /\ UNCHANGED <<listener, panicHandler, servePC, lateAccepts, handlerWaitGroup,
                 clientVars, handlerVars, guardVars>>

\* FdListen adopts the socket of another process, with its accept queue.  For one
\* that is not TCP it returns an error, but the listener stays; a descriptor that
\* is no socket changes nothing.
FdListen ==
  /\ servePC = "new"
  /\ listener = "nil"
  /\ listener' \in {"tcp", "unix"}
  /\ UNCHANGED <<process, panicHandler, servePC, stops, lateAccepts,
                 handlerWaitGroup, clientVars, handlerVars, guardVars>>

\* The descriptor can be had: SocketFd reaches into the listener by reflection.
HasFd == listener \in {"tcp", "unix"}

\* SocketFd panics when there is no listener yet, or when TLS wraps it, and
\* otherwise changes nothing.
SocketFd ==
  /\ ~HasFd
  /\ process' = "socketFd"
  /\ UNCHANGED <<listener, panicHandler, servePC, stops, lateAccepts,
                 handlerWaitGroup, clientVars, handlerVars, guardVars>>

\* The adopted listener is taken or a new one opened (failing to do so returns
\* the error and changes nothing), and serve closes AcceptReady.
ListenAndServe ==
  /\ servePC = "new"
  /\ listener' = IF listener = "nil" THEN "tcp" ELSE listener
  /\ servePC' = "accept"
  /\ UNCHANGED <<process, panicHandler, stops, lateAccepts, handlerWaitGroup,
                 clientVars, handlerVars, guardVars>>

\* The same with TLS around the listener.
ListenAndServeTLS ==
  /\ servePC = "new"
  /\ listener' = "tls"
  /\ servePC' = "accept"
  /\ UNCHANGED <<process, panicHandler, stops, lateAccepts, handlerWaitGroup,
                 clientVars, handlerVars, guardVars>>

\* Accept returns a connection: handlerWaitGroup.Add(1), then go handler(c).
AcceptWithoutAdd(c) ==
  /\ servePC = "accept"
  /\ c \in Backlog
  /\ Goto(c, "start")
  /\ servePC' = "select"
  /\ lateAccepts' = lateAccepts + Late
  /\ UNCHANGED <<handlerWaitGroup, process, listener, panicHandler, stops, clientVars,
                 keepAlive, stuck, panicking, lateRequests, guardVars>>

Accept(c) ==
  /\ servePC = "accept"
  /\ c \in Backlog
  /\ handlerWaitGroup' = handlerWaitGroup + 1
  /\ Goto(c, "start")
  /\ servePC' = "select"
  /\ lateAccepts' = lateAccepts + Late
  /\ UNCHANGED <<process, listener, panicHandler, stops, clientVars,
                 keepAlive, stuck, panicking, lateRequests, guardVars>>

\* Accept's 3-second deadline, which only a *net.TCPListener is given.
AcceptTimeout ==
  /\ servePC = "accept"
  /\ listener = "tcp"
  /\ servePC' = "select"
  /\ UNCHANGED <<process, listener, panicHandler, stops, lateAccepts,
                 handlerWaitGroup, clientVars, handlerVars, guardVars>>

\* Any other *net.OpError exits the process; an error of another type is logged
\* and the loop goes on.
AcceptError ==
  /\ servePC = "accept"
  /\ \/ process' = "acceptError" /\ UNCHANGED servePC
     \/ servePC' = "select" /\ UNCHANGED process
  /\ UNCHANGED <<listener, panicHandler, stops, lateAccepts, handlerWaitGroup,
                 clientVars, handlerVars, guardVars>>

\* The non-blocking select on stopAccepting that follows every Accept.
SelectIgnoringStop ==
  /\ servePC = "select"
  /\ servePC' = "accept"
  /\ UNCHANGED <<process, listener, panicHandler, stops, lateAccepts,
                 handlerWaitGroup, clientVars, handlerVars, guardVars>>

Select ==
  /\ servePC = "select"
  /\ servePC' = IF stopAccepting THEN "wait" ELSE "accept"
  /\ UNCHANGED <<process, listener, panicHandler, stops, lateAccepts,
                 handlerWaitGroup, clientVars, handlerVars, guardVars>>

\* handlerWaitGroup.Wait(), after which serve returns nil.
ReturnWithoutWait ==
  /\ servePC = "wait"
  /\ servePC' = "returned"
  /\ UNCHANGED <<process, listener, panicHandler, stops, lateAccepts,
                 handlerWaitGroup, clientVars, handlerVars, guardVars>>

Wait ==
  /\ servePC = "wait"
  /\ handlerWaitGroup = 0
  /\ servePC' = "returned"
  /\ UNCHANGED <<process, listener, panicHandler, stops, lateAccepts,
                 handlerWaitGroup, clientVars, handlerVars, guardVars>>

-----------------------------------------------------------------------------
(* The handler of a connection.                                            *)

\* Take the buffers, make closeSentinelChan, start the sentinel.
HandlerStart(c) ==
  /\ pc[c] = "start"
  /\ Goto(c, "read")
  /\ sentinel' = [sentinel EXCEPT ![c] = "select"]
  /\ UNCHANGED <<serverVars, handlerWaitGroup, clientVars, keepAlive, stuck,
                 panicking, lateRequests, closedChans, deadlines>>

\* Peek and http.ReadRequest succeed.  A past deadline fails a read of the
\* socket, not one of bytes that are already in the bufio.Reader: with a
\* request at hand and a deadline set both outcomes are possible.
ReadRequest(c) ==
  /\ pc[c] = "read"
  /\ unread[c] > 0
  /\ unread' = [unread EXCEPT ![c] = @ - 1]
  /\ \E req \in Request :
       keepAlive' = [keepAlive EXCEPT ![c] = IF KeepsAlive(req) THEN @ ELSE FALSE]
  /\ lateRequests' = [lateRequests EXCEPT ![c] = @ + Late]
  /\ Goto(c, "pipeline")
  /\ UNCHANGED <<serverVars, handlerWaitGroup, client, stuck, panicking, guardVars>>

\* http.ReadRequest fails and the loop ends: the read deadline passed, what the
\* client wrote is no request, or the client is gone.
ReadFails(c) ==
  /\ pc[c] = "read"
  /\ c \in deadlines \/ unread[c] > 0 \/ client[c] = "gone"
  /\ Goto(c, "finish")
  /\ UNCHANGED <<serverVars, handlerWaitGroup, clientVars, keepAlive, stuck,
                 panicking, lateRequests, guardVars>>

\* handlerExecutePipeline returns a response.
ExecutePipeline(c) ==
  /\ pc[c] = "pipeline"
  /\ c \notin stuck
  /\ Goto(c, "check")
  /\ UNCHANGED <<serverVars, handlerWaitGroup, clientVars, keepAlive, stuck,
                 panicking, lateRequests, guardVars>>

\* A filter, or a response body being written, panics: the deferred calls run.
Panic(c) ==
  /\ pc[c] \in {"pipeline", "write"}
  /\ c \notin stuck
  /\ panicking' = panicking \cup {c}
  /\ Goto(c, "finish")
  /\ UNCHANGED <<serverVars, handlerWaitGroup, clientVars, keepAlive, stuck,
                 lateRequests, guardVars>>

\* A filter that never returns, or a client that never reads its response:
\* nothing sets a write deadline.
Hang(c) ==
  /\ pc[c] \in {"pipeline", "write"}
  /\ pc[c] = "write" => client[c] = "open"
  /\ c \notin stuck
  /\ stuck' = stuck \cup {c}
  /\ UNCHANGED <<serverVars, handlerWaitGroup, clientVars, pc, keepAlive,
                 panicking, lateRequests, guardVars>>

\* The "shutting down?" select between the pipeline and the response.
SkipStopCheck(c) ==
  /\ pc[c] = "check"
  /\ Goto(c, "write")
  /\ UNCHANGED <<keepAlive, serverVars, handlerWaitGroup, clientVars, stuck,
                 panicking, lateRequests, guardVars>>

StopCheck(c) ==
  /\ pc[c] = "check"
  /\ keepAlive' = [keepAlive EXCEPT ![c] = @ /\ ~stopAccepting]
  /\ Goto(c, "write")
  /\ UNCHANGED <<serverVars, handlerWaitGroup, clientVars, stuck, panicking,
                 lateRequests, guardVars>>

\* handlerWriteResponse: its errors are ignored, so a client that has gone
\* makes no difference.  resClose is the response's Close field, which the
\* application may set; then the loop condition is evaluated.
WriteResponse(c) ==
  /\ pc[c] = "write"
  /\ c \notin stuck
  /\ \E resClose \in BOOLEAN :
       /\ keepAlive' = [keepAlive EXCEPT ![c] = @ /\ ~resClose]
       /\ Goto(c, IF keepAlive[c] /\ ~resClose THEN "read" ELSE "finish")
  /\ UNCHANGED <<serverVars, handlerWaitGroup, clientVars, stuck, panicking,
                 lateRequests, guardVars>>

DoneTwice(c) ==
  /\ pc[c] = "finish"
  /\ panicking' = IF panicHandler THEN panicking \ {c} ELSE panicking
  /\ closedChans' = closedChans \cup {c}
  /\ handlerWaitGroup' = handlerWaitGroup - 2
  /\ Goto(c, "give")
  /\ UNCHANGED <<serverVars, clientVars, keepAlive, stuck, lateRequests,
                 sentinel, deadlines>>

FinishedWithoutClosingChan(c) ==
  /\ pc[c] = "finish"
  /\ panicking' = IF panicHandler THEN panicking \ {c} ELSE panicking
  /\ closedChans' = closedChans
  /\ handlerWaitGroup' = handlerWaitGroup - 1
  /\ Goto(c, "give")
  /\ UNCHANGED <<serverVars, clientVars, keepAlive, stuck, lateRequests,
                 sentinel, deadlines>>

FinishedWithoutRecover(c) ==
  /\ pc[c] = "finish"
  /\ panicking' = panicking
  /\ closedChans' = closedChans \cup {c}
  /\ handlerWaitGroup' = handlerWaitGroup - 1
  /\ Goto(c, "give")
  /\ UNCHANGED <<serverVars, clientVars, keepAlive, stuck, lateRequests,
                 sentinel, deadlines>>

\* connectionFinished, deferred: recover if there is a PanicHandler, c.Close(),
\* close(closeChan), handlerWaitGroup.Done().
ConnectionFinished(c) ==
  /\ pc[c] = "finish"
  /\ panicking' = IF panicHandler THEN panicking \ {c} ELSE panicking
  /\ closedChans' = closedChans \cup {c}
  /\ handlerWaitGroup' = handlerWaitGroup - 1
  /\ Goto(c, "give")
  /\ UNCHANGED <<serverVars, clientVars, keepAlive, stuck, lateRequests,
                 sentinel, deadlines>>

\* The two deferred Gives; then the goroutine ends, or its panic, which nobody
\* recovered, kills the process.
GiveBuffers(c) ==
  /\ pc[c] = "give"
  /\ Goto(c, "done")
  /\ process' = IF c \in panicking THEN "handlerPanic" ELSE process
  /\ UNCHANGED <<listener, panicHandler, servePC, stops, lateAccepts,
                 handlerWaitGroup, clientVars, keepAlive, stuck, panicking,
                 lateRequests, guardVars>>

-----------------------------------------------------------------------------
(* The sentinel of a connection.                                           *)

\* select: stopAccepting sets the read deadline, connClosed just ends it.
SentinelWithoutDeadline(c) ==
  /\ sentinel[c] = "select"
  /\ stopAccepting \/ c \in closedChans
  /\ sentinel' = [sentinel EXCEPT ![c] = "exited"]
  /\ UNCHANGED <<serverVars, handlerWaitGroup, clientVars, handlerVars,
                 closedChans, deadlines>>

Sentinel(c) ==
  /\ sentinel[c] = "select"
  /\ \/ stopAccepting /\ deadlines' = deadlines \cup {c}
     \/ c \in closedChans /\ UNCHANGED deadlines
  /\ sentinel' = [sentinel EXCEPT ![c] = "exited"]
  /\ UNCHANGED <<serverVars, handlerWaitGroup, clientVars, handlerVars, closedChans>>

-----------------------------------------------------------------------------
HandlerStep(c) ==
  \/ HandlerStart(c) \/ ReadRequest(c) \/ ReadFails(c) \/ ExecutePipeline(c)
  \/ StopCheck(c) \/ WriteResponse(c) \/ ConnectionFinished(c) \/ GiveBuffers(c)

ServeStep == AcceptTimeout \/ Select \/ Wait \/ \E c \in Conn : Accept(c)

\* Nothing happens in a process that has died.
Next ==
  /\ process = "running"
  /\ \/ StopAccepting \/ FdListen \/ SocketFd \/ ListenAndServe \/ ListenAndServeTLS
     \/ AcceptTimeout \/ AcceptError \/ Select \/ Wait
     \/ \E c \in Conn :
          \/ Connect(c) \/ Send(c) \/ Leave(c)
          \/ Accept(c) \/ HandlerStart(c) \/ ReadRequest(c) \/ ReadFails(c)
          \/ ExecutePipeline(c) \/ Panic(c) \/ Hang(c) \/ StopCheck(c)
          \/ WriteResponse(c) \/ ConnectionFinished(c) \/ GiveBuffers(c)
          \/ Sentinel(c)

Spec == Init /\ [][Next]_vars

\* Goroutines that can run do run, and deadlines expire (a blocked read fails).
\* Nothing is assumed of clients, of callers of StopAccepting, or of filters
\* and socket writes, which may Hang.
Fairness ==
  /\ WF_vars(process = "running" /\ ServeStep)
  /\ \A c \in Conn :
       /\ WF_vars(process = "running" /\ HandlerStep(c))
       /\ WF_vars(process = "running" /\ Sentinel(c))

FairSpec == Spec /\ Fairness

-----------------------------------------------------------------------------
(* Properties.                                                             *)

\* The type of every variable.
TypeOK ==
  /\ process \in {"running"} \cup Deaths
  /\ listener \in {"nil", "tcp", "unix", "tls"}
  /\ panicHandler \in BOOLEAN
  /\ servePC \in ServePC
  /\ stops \in 0..MaxStops
  /\ handlerWaitGroup \in Nat
  /\ client \in [Conn -> {"new", "open", "gone"}]
  /\ unread \in [Conn -> 0..MaxUnread]
  /\ pc \in [Conn -> HandlerPC]
  /\ keepAlive \in [Conn -> BOOLEAN]
  /\ sentinel \in [Conn -> {"none", "select", "exited"}]
  /\ closedChans \subseteq Conn
  /\ deadlines \subseteq Conn
  /\ stuck \subseteq Conn
  /\ panicking \subseteq Conn
  /\ lateRequests \in [Conn -> Nat]
  /\ lateAccepts \in Nat

\* serve returns (and with it ListenAndServe, after which programs exit) only
\* when no accepted connection is still being served, whatever its handler was
\* doing, panics included.
DrainedOnReturn == servePC = "returned" => Active = {}

\* After StopAccepting a keep-alive connection gets at most one more request:
\* the check before each response catches the next one, even when the stop
\* falls between the check and the response of the previous request.
AtMostOneLateRequest == \A c \in Conn : lateRequests[c] <= 1

\* After StopAccepting the accept loop takes at most one more connection.
AtMostOneLateAccept == lateAccepts <= 1

\* A handler panic kills the process only when there is no PanicHandler.
PanicContained == process = "handlerPanic" => ~panicHandler

\* The server implements its promise, GracefulServer: "admitted" is between
\* Accept and handlerWaitGroup.Done, "retired" is after it.
Graceful == INSTANCE GracefulServer WITH
  phase <- IF process # "running" THEN "dead"
           ELSE CASE servePC = "new" -> "down"
                  [] servePC = "returned" -> "stopped"
                  [] OTHER -> "serving",
  stopRequested <- stopAccepting,
  active <- Active,
  retired <- Finished,
  grace <- lateAccepts

GracefulSpec == Graceful!Spec

\* Accept has a deadline on a TCP listener only: with nobody connecting it blocks.
AcceptBlocked == listener \in {"unix", "tls"} /\ servePC = "accept" /\ Backlog = {}

\* Once a stop is requested the server drains and returns, although clients
\* keep idle connections open, unless a filter or a write hangs, the process
\* dies or an Accept without deadline waits for a connection.
DrainCompletes ==
  (stopAccepting /\ servePC # "new")
    ~> (servePC = "returned" \/ process # "running" \/ stuck # {} \/ AcceptBlocked)

\* No sentinel outlives its connection for long, unless the program ends.
SentinelsExit ==
  \A c \in Conn : (pc[c] = "done")
    ~> (sentinel[c] = "exited" \/ process # "running" \/ servePC = "returned")
=============================================================================
