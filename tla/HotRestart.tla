----------------------------- MODULE HotRestart -----------------------------
(***************************************************************************)
(* A restart without an outage, as examples/hot_restart performs it: on    *)
(* SIGHUP the serving process forks a child that inherits its listening    *)
(* socket; the child adopts it (FdListen), serves (which closes            *)
(* AcceptReady) and sends SIGUSR1 to its parent, which stops accepting and *)
(* exits when it has drained.                                              *)
(*                                                                         *)
(* The parent is the whole of Server; its program adds the goroutine in    *)
(* handleSignals (sigPC), which receives from an unbuffered channel that   *)
(* os/signal sends to without waiting: a signal that arrives while that    *)
(* goroutine is busy is dropped.  Children share the parent's queue of     *)
(* connections; what they do with a connection is Server again.            *)
(***************************************************************************)
EXTENDS Server

CONSTANT Child  \* bound: the processes the operator has the parent fork

VARIABLES
  sigPC,     \* handleSignals: "receive", "fork", "forked" or "stop"
  pending,   \* signals that were sent and have not been delivered
  dropped,   \* history: a SIGUSR1 was delivered while handleSignals was busy
  child      \* per child: its state

restartVars == <<sigPC, pending, dropped, child>>
allVars == <<vars, restartVars>>

\* A child is forked, serves, and has signalled its parent; it "failed" if it
\* ended before it signalled, and is "dead" if it ended later.
ChildState == {"none", "forked", "serving", "signalled", "failed", "dead"}

\* When ListenAndServe returns main ends, and with it every goroutine.
ParentRuns == process = "running" /\ servePC # "returned"

\* The children that accept connections.
Serving == {k \in Child : child[k] \in {"serving", "signalled"}}

-----------------------------------------------------------------------------
\* The example's server has no PanicHandler.
HotInit ==
  /\ Init
  /\ panicHandler = FALSE
  /\ sigPC = "receive"
  /\ pending = {}
  /\ dropped = FALSE
  /\ child = [k \in Child |-> "none"]

\* A step of the parent's server.  StopAccepting and SocketFd are called by
\* handleSignals only; the socket it may adopt is that of a server like itself.
ServerNext ==
  /\ ParentRuns
  /\ Next
  /\ stops' = stops
  /\ process' # "socketFd"
  /\ listener' # "unix"
  /\ UNCHANGED restartVars

-----------------------------------------------------------------------------
(* Signals.                                                                *)

\* The operator sends SIGHUP, whenever he likes, to a server that serves.
Hangup ==
  /\ ParentRuns
  /\ servePC # "new"
  /\ pending' = pending \cup {"HUP"}
  /\ UNCHANGED <<vars, sigPC, dropped, child>>

\* SIGINT or SIGTERM: handleSignals exits the process.
Terminate ==
  /\ ParentRuns
  /\ servePC # "new"
  /\ sigPC = "receive"
  /\ process' = "terminated"
  /\ UNCHANGED <<listener, panicHandler, servePC, stops, lateAccepts, handlerWaitGroup,
                 clientVars, handlerVars, guardVars, restartVars>>

\* The channel of os/signal is sent to without blocking; a busy handleSignals
\* misses the signal.
Deliver(sig) ==
  /\ ParentRuns
  /\ sig \in pending
  /\ pending' = pending \ {sig}
  /\ IF sigPC = "receive"
       THEN sigPC' = (IF sig = "HUP" THEN "fork" ELSE "stop") /\ UNCHANGED dropped
       ELSE dropped' = (dropped \/ sig = "USR1") /\ UNCHANGED sigPC
  /\ UNCHANGED <<vars, child>>

\* forker: SocketFd, which may panic, and ForkExec, which may fail.
Fork ==
  /\ ParentRuns
  /\ sigPC = "fork"
  /\ sigPC' = "forked"
  /\ \/ SocketFd /\ UNCHANGED child
     \/ HasFd /\ UNCHANGED <<vars, child>>
     \/ /\ HasFd
        /\ \E k \in Child : child[k] = "none"
        /\ child' = [child EXCEPT ![CHOOSE k \in Child : child[k] = "none"] = "forked"]
        /\ UNCHANGED vars
  /\ UNCHANGED <<pending, dropped>>

\* forker returns, and handleSignals receives again: until then the child that
\* has been forked may already signal.
ForkReturns ==
  /\ ParentRuns
  /\ sigPC = "forked"
  /\ sigPC' = "receive"
  /\ UNCHANGED <<vars, pending, dropped, child>>

IgnoreStop ==
  /\ ParentRuns
  /\ sigPC = "stop"
  /\ sigPC' = "receive"
  /\ UNCHANGED <<vars, pending, dropped, child>>

\* SIGUSR1: StopAccepting.
StopOnSignal ==
  /\ ParentRuns
  /\ sigPC = "stop"
  /\ sigPC' = "receive"
  /\ StopAccepting
  /\ UNCHANGED <<pending, dropped, child>>

-----------------------------------------------------------------------------
(* Children.                                                               *)

\* FdListen adopts the socket and serve closes AcceptReady.  When FdListen
\* fails its error is ignored, ListenAndServe opens the address itself, which
\* is in use, and the child ends.
ChildListens(k) ==
  /\ child[k] = "forked"
  /\ \E s \in {"serving", "failed"} : child' = [child EXCEPT ![k] = s]
  /\ UNCHANGED <<vars, sigPC, pending, dropped>>

ChildSignalsFirst(k) ==
  /\ child[k] = "forked"
  /\ pending' = IF ParentRuns THEN pending \cup {"USR1"} ELSE pending
  /\ UNCHANGED <<vars, sigPC, dropped, child>>

ChildKeepsSignalling(k) ==
  /\ child[k] = "serving"
  /\ pending' = IF ParentRuns THEN pending \cup {"USR1"} ELSE pending
  /\ UNCHANGED <<vars, sigPC, dropped, child>>

\* childReady: SIGUSR1 to the parent; when the parent has gone, Getppid names
\* another process.
ChildSignals(k) ==
  /\ child[k] = "serving"
  /\ child' = [child EXCEPT ![k] = "signalled"]
  /\ pending' = IF ParentRuns THEN pending \cup {"USR1"} ELSE pending
  /\ UNCHANGED <<vars, sigPC, dropped>>

\* A child takes a connection from the shared queue; its place is free for
\* another one.
ChildAccepts(k, c) ==
  /\ k \in Serving
  /\ c \in Backlog
  /\ client' = [client EXCEPT ![c] = "new"]
  /\ unread' = [unread EXCEPT ![c] = 0]
  /\ UNCHANGED <<serverVars, handlerWaitGroup, handlerVars, guardVars, restartVars>>

ChildDies(k) ==
  /\ k \in Serving
  /\ child' = [child EXCEPT ![k] = IF @ = "serving" THEN "failed" ELSE "dead"]
  /\ UNCHANGED <<vars, sigPC, pending, dropped>>

-----------------------------------------------------------------------------
HotNext ==
  \/ ServerNext \/ Hangup \/ Terminate \/ Fork \/ ForkReturns \/ StopOnSignal
  \/ \E sig \in {"HUP", "USR1"} : Deliver(sig)
  \/ \E k \in Child :
       \/ ChildListens(k) \/ ChildSignals(k) \/ ChildDies(k)
       \/ \E c \in Conn : ChildAccepts(k, c)

\* Signals are delivered, goroutines that can run do run, in every process.
\* Nothing is assumed of the operator, or of a child before it serves.
HotSpec ==
  /\ HotInit /\ [][HotNext]_allVars
  /\ WF_allVars(ParentRuns /\ ServeStep /\ UNCHANGED restartVars)
  /\ WF_allVars(Fork) /\ WF_allVars(ForkReturns) /\ WF_allVars(StopOnSignal)
  /\ \A sig \in {"HUP", "USR1"} : WF_allVars(Deliver(sig))
  /\ \A c \in Conn :
       /\ WF_allVars(ParentRuns /\ HandlerStep(c) /\ UNCHANGED restartVars)
       /\ WF_allVars(ParentRuns /\ Sentinel(c) /\ UNCHANGED restartVars)
  /\ \A k \in Child : WF_allVars(ChildSignals(k))

-----------------------------------------------------------------------------
(* Properties.                                                             *)

\* A handover does not interrupt service: when the parent stops accepting, a
\* child accepts in its place; only the child's own death can leave nobody.
NoOutage ==
  stopAccepting => Serving # {} \/ \E k \in Child : child[k] = "dead"

\* A second StopAccepting would kill the parent with its requests in flight: one
\* restart cannot do it, it takes the signals of two children.
OneRestartIsSafe ==
  process = "closedTwice" =>
    \E j, k \in Child : j # k /\ {child[j], child[k]} \subseteq {"signalled", "dead"}

\* A restart completes: when a child serves, its parent drains and ends, unless
\* the signal is dropped, the child dies, or one of the parent's requests hangs.
RestartCompletes ==
  \A k \in Child :
    (child[k] = "serving")
      ~> (~ParentRuns \/ stuck # {} \/ dropped \/ child[k] = "failed")
=============================================================================
