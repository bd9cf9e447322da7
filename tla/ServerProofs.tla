---------------------------- MODULE ServerProofs ----------------------------
(* Proofs about the server, for any finite set of connections: types, the  *)
(* drained return, the bounds on late work, panics, and the refinement of  *)
(* GracefulServer.  They rest on one inductive invariant, Inv.             *)
(*                                                                         *)
(* Then proofs about the hot restart, for any children and signals: a      *)
(* parent drains, a handover leaves no moment without anybody who accepts, *)
(* and it takes two children to make the parent close stopAccepting twice. *)
EXTENDS HotRestart, FiniteSetTheorems, TLAPS

-----------------------------------------------------------------------------
(* The inductive invariant, part by part.                                  *)

\* Done is called once per Add: the wait group counts the active connections.
WaitGroupCountsActive == handlerWaitGroup = Cardinality(Active)

\* The accept loop is left only because of a stop.
StopBeforeWait == servePC \in {"wait", "returned"} => stopAccepting

\* After the late request the handler cannot get back to reading: it has not
\* reached its stop check yet, or has given up keep-alive.
LateRequestIsLast ==
  \A c \in Conn :
    \/ lateRequests[c] = 0
    \/ /\ lateRequests[c] = 1
       /\ stopAccepting
       /\ pc[c] \notin {"none", "start", "read"}
       /\ pc[c] = "write" => ~keepAlive[c]

\* After the late connection the accept loop cannot get back to Accept.
LateAcceptIsLast ==
  \/ lateAccepts = 0
  \/ lateAccepts = 1 /\ stopAccepting /\ servePC \in {"select", "wait", "returned"}

\* With a PanicHandler no panic survives connectionFinished.
PanicRecovered ==
  /\ PanicContained
  /\ \A c \in Finished : panicHandler => c \notin panicking

Inv ==
  /\ TypeOK
  /\ WaitGroupCountsActive
  /\ StopBeforeWait
  /\ DrainedOnReturn
  /\ LateRequestIsLast
  /\ LateAcceptIsLast
  /\ PanicRecovered

-----------------------------------------------------------------------------
(* Sets of connections are finite, so they can be counted.                 *)

LEMMA ConnSubsetFinite ==
  ASSUME NEW S \in SUBSET Conn
  PROVE  IsFiniteSet(S) /\ Cardinality(S) \in Nat
  BY ConnAssumption, FS_Subset, FS_CardinalityType, Zenon

\* What handlerWaitGroup.Add(1) must match.
LEMMA CountAdd ==
  ASSUME NEW S \in SUBSET Conn, NEW c \in Conn, c \notin S
  PROVE  Cardinality(S \cup {c}) = Cardinality(S) + 1
  BY ConnSubsetFinite, FS_AddElement

\* What handlerWaitGroup.Done() must match: the counter is never negative.
LEMMA CountDone ==
  ASSUME NEW S \in SUBSET Conn, NEW c \in S
  PROVE  /\ Cardinality(S \ {c}) = Cardinality(S) - 1
         /\ Cardinality(S) - 1 \in Nat
<1>1. IsFiniteSet(S) /\ S \ {c} \in SUBSET Conn
  BY ConnSubsetFinite
<1>2. Cardinality(S \ {c}) = Cardinality(S) - 1
  BY <1>1, FS_RemoveElement
<1> QED
  BY <1>1, <1>2, ConnSubsetFinite

-----------------------------------------------------------------------------
(* What each action does to the set of active connections.                 *)

LEMMA AcceptActivates ==
  ASSUME TypeOK, NEW c \in Conn, Accept(c)
  PROVE  Active' = Active \cup {c} /\ c \notin Active /\ Finished' = Finished
  BY DEF TypeOK, Accept, Goto, Active, Finished, Backlog

LEMMA FinishRetires ==
  ASSUME TypeOK, NEW c \in Conn, ConnectionFinished(c)
  PROVE  /\ Active' = Active \ {c} /\ c \in Active
         /\ Finished' = Finished \cup {c}
  BY DEF TypeOK, ConnectionFinished, Goto, Active, Finished

\* The steps of a connection that neither admit nor retire it.
InnerStep(c) ==
  \/ Connect(c) \/ Send(c) \/ Leave(c)
  \/ HandlerStart(c) \/ ReadRequest(c) \/ ReadFails(c) \/ ExecutePipeline(c)
  \/ Panic(c) \/ Hang(c) \/ StopCheck(c) \/ WriteResponse(c) \/ GiveBuffers(c)
  \/ Sentinel(c)

\* The steps of the accept loop and of StopAccepting, Accept apart.
OuterStep ==
  \/ StopAccepting \/ FdListen \/ SocketFd \/ ListenAndServe \/ ListenAndServeTLS
  \/ AcceptTimeout \/ AcceptError \/ Select \/ Wait

LEMMA NextCases ==
  Next <=> /\ process = "running"
           /\ \/ OuterStep
              \/ \E c \in Conn : InnerStep(c) \/ Accept(c) \/ ConnectionFinished(c)
  BY DEF Next, OuterStep, InnerStep

LEMMA InnerKeepsActive ==
  ASSUME TypeOK, NEW c \in Conn, InnerStep(c)
  PROVE  /\ Active' = Active /\ Finished' = Finished
         /\ UNCHANGED <<handlerWaitGroup, servePC, stops, lateAccepts, listener,
                        panicHandler>>
<1> USE DEF TypeOK, Active, Finished, Goto, HandlerPC
<1>1. CASE Connect(c) \/ Send(c) \/ Leave(c) \/ Sentinel(c) \/ Hang(c)
  BY <1>1 DEF Connect, Send, Leave, Sentinel, Hang, serverVars, handlerVars
<1>2. CASE HandlerStart(c) \/ ReadRequest(c) \/ ReadFails(c)
  BY <1>2 DEF HandlerStart, ReadRequest, ReadFails, serverVars
<1>3. CASE ExecutePipeline(c) \/ Panic(c) \/ StopCheck(c)
  BY <1>3 DEF ExecutePipeline, Panic, StopCheck, serverVars
<1>4. CASE WriteResponse(c)
  BY <1>4 DEF WriteResponse, serverVars
<1>5. CASE GiveBuffers(c)
  BY <1>5 DEF GiveBuffers
<1> QED
  BY <1>1, <1>2, <1>3, <1>4, <1>5 DEF InnerStep

LEMMA OuterKeepsActive ==
  ASSUME OuterStep
  PROVE  /\ Active' = Active /\ Finished' = Finished
         /\ UNCHANGED <<handlerWaitGroup, handlerVars, panicHandler, clientVars,
                        guardVars>>
  BY DEF OuterStep, StopAccepting, FdListen, SocketFd, ListenAndServe, ListenAndServeTLS,
      AcceptTimeout, AcceptError,
         Select, Wait, Active, Finished, handlerVars, clientVars, guardVars

LEMMA StutterKeepsActive ==
  ASSUME UNCHANGED vars
  PROVE  Active' = Active /\ Finished' = Finished
  BY DEF vars, handlerVars, Active, Finished

-----------------------------------------------------------------------------
(* Each part of Inv is kept by every step.                                 *)

LEMMA InitInv == Init => Inv
<1> SUFFICES ASSUME Init PROVE Inv
  OBVIOUS
<1>1. TypeOK
  BY BoundsAssumption DEF Init, TypeOK, Deaths, ServePC, HandlerPC
<1>2. Active = {} /\ Finished = {}
  BY DEF Init, Active, Finished
<1>3. WaitGroupCountsActive
  BY <1>2, FS_EmptySet DEF Init, WaitGroupCountsActive
<1> QED
  BY <1>1, <1>2, <1>3 DEF Init, Inv, StopBeforeWait, DrainedOnReturn,
     LateRequestIsLast, LateAcceptIsLast, PanicRecovered, PanicContained

LEMMA CountStep ==
  ASSUME TypeOK, WaitGroupCountsActive, [Next]_vars
  PROVE  WaitGroupCountsActive' /\ handlerWaitGroup' \in Nat
<1> USE DEF WaitGroupCountsActive
<1>0. Active \in SUBSET Conn
  BY DEF Active
<1>1. ASSUME NEW c \in Conn, Accept(c)
      PROVE  WaitGroupCountsActive' /\ handlerWaitGroup' \in Nat
  BY <1>0, <1>1, AcceptActivates, CountAdd DEF Accept, TypeOK
<1>2. ASSUME NEW c \in Conn, ConnectionFinished(c)
      PROVE  WaitGroupCountsActive' /\ handlerWaitGroup' \in Nat
  BY <1>0, <1>2, FinishRetires, CountDone DEF ConnectionFinished
<1>3. ASSUME NEW c \in Conn, InnerStep(c)
      PROVE  WaitGroupCountsActive' /\ handlerWaitGroup' \in Nat
  BY <1>3, InnerKeepsActive DEF TypeOK
<1>4. CASE OuterStep
  BY <1>4, OuterKeepsActive DEF TypeOK
<1>5. CASE UNCHANGED vars
  BY <1>5, StutterKeepsActive DEF vars, TypeOK
<1> QED
  BY <1>1, <1>2, <1>3, <1>4, <1>5, NextCases

LEMMA TypeStep ==
  ASSUME TypeOK, WaitGroupCountsActive, [Next]_vars
  PROVE  TypeOK'
<1> USE DEF TypeOK, Goto, Late, stopAccepting, ServePC, HandlerPC, Deaths, serverVars, clientVars,
            handlerVars, guardVars
<1>0. handlerWaitGroup' \in Nat
  BY CountStep
<1>1. CASE StopAccepting
  BY <1>1, BoundsAssumption DEF StopAccepting
<1>2. CASE FdListen \/ SocketFd \/ ListenAndServe
           \/ ListenAndServeTLS \/ AcceptTimeout \/ AcceptError \/ Select \/ Wait
  BY <1>2 DEF FdListen, SocketFd, ListenAndServe, ListenAndServeTLS, AcceptTimeout, AcceptError, Select, Wait
<1>3. ASSUME NEW c \in Conn, Connect(c) \/ Leave(c)
      PROVE  TypeOK'
  BY <1>3, BoundsAssumption DEF Connect, Leave
<1>4. ASSUME NEW c \in Conn, Send(c)
      PROVE  TypeOK'
  BY <1>4, BoundsAssumption DEF Send
<1>5. ASSUME NEW c \in Conn, Accept(c)
      PROVE  TypeOK'
  BY <1>0, <1>5 DEF Accept
<1>6. ASSUME NEW c \in Conn, HandlerStart(c) \/ ReadFails(c) \/ ExecutePipeline(c)
      PROVE  TypeOK'
  BY <1>6 DEF HandlerStart, ReadFails, ExecutePipeline
<1>7. ASSUME NEW c \in Conn, ReadRequest(c)
      PROVE  TypeOK'
  <2>1. unread' \in [Conn -> 0..MaxUnread]
    BY <1>7, BoundsAssumption DEF ReadRequest
  <2>2. keepAlive' \in [Conn -> BOOLEAN]
    BY <1>7 DEF ReadRequest
  <2>3. pc' \in [Conn -> HandlerPC] /\ lateRequests' \in [Conn -> Nat]
    BY <1>7 DEF ReadRequest
  <2>4. UNCHANGED <<serverVars, handlerWaitGroup, client, stuck, panicking, guardVars>>
    BY <1>7 DEF ReadRequest
  <2> QED
    BY <2>1, <2>2, <2>3, <2>4
<1>8. ASSUME NEW c \in Conn, Panic(c) \/ Hang(c) \/ StopCheck(c) \/ WriteResponse(c)
      PROVE  TypeOK'
  BY <1>8 DEF Panic, Hang, StopCheck, WriteResponse
<1>9. ASSUME NEW c \in Conn, ConnectionFinished(c) \/ GiveBuffers(c) \/ Sentinel(c)
      PROVE  TypeOK'
  BY <1>0, <1>9 DEF ConnectionFinished, GiveBuffers, Sentinel
<1>10. CASE UNCHANGED vars
  BY <1>10 DEF vars
<1> QED
  BY <1>1, <1>2, <1>3, <1>4, <1>5, <1>6, <1>7, <1>8, <1>9, <1>10 DEF Next

LEMMA StopStep ==
  ASSUME TypeOK, StopBeforeWait, [Next]_vars
  PROVE  StopBeforeWait'
<1> USE DEF StopBeforeWait, stopAccepting, TypeOK
<1>1. CASE OuterStep
  BY <1>1, BoundsAssumption
     DEF OuterStep, StopAccepting, FdListen, SocketFd, ListenAndServe, ListenAndServeTLS,
         AcceptTimeout, AcceptError, Select, Wait
<1>2. ASSUME NEW c \in Conn, InnerStep(c)
      PROVE  StopBeforeWait'
  BY <1>2, InnerKeepsActive
<1>3. ASSUME NEW c \in Conn, Accept(c) \/ ConnectionFinished(c)
      PROVE  StopBeforeWait'
  BY <1>3 DEF Accept, ConnectionFinished, serverVars
<1>4. CASE UNCHANGED vars
  BY <1>4 DEF vars, serverVars
<1> QED
  BY <1>1, <1>2, <1>3, <1>4, NextCases

LEMMA DrainedStep ==
  ASSUME TypeOK, WaitGroupCountsActive, DrainedOnReturn, [Next]_vars
  PROVE  DrainedOnReturn'
<1> USE DEF DrainedOnReturn
<1>1. CASE Wait
  <2>1. Active \in SUBSET Conn /\ Cardinality(Active) = 0
    BY <1>1 DEF Wait, WaitGroupCountsActive, Active
  <2>2. Active = {}
    BY <2>1, ConnSubsetFinite, FS_EmptySet
  <2> QED
    BY <1>1, <2>2, OuterKeepsActive DEF OuterStep
<1>2. CASE StopAccepting \/ FdListen \/ SocketFd \/ ListenAndServe
           \/ ListenAndServeTLS \/ AcceptTimeout \/ AcceptError \/ Select
  <2>1. Active' = Active
    BY <1>2, OuterKeepsActive DEF OuterStep
  <2> QED
    BY <1>2, <2>1 DEF StopAccepting, FdListen, SocketFd, ListenAndServe, ListenAndServeTLS,
        AcceptTimeout, AcceptError, Select
<1>3. ASSUME NEW c \in Conn, Accept(c)
      PROVE  DrainedOnReturn'
  BY <1>3 DEF Accept
<1>4. ASSUME NEW c \in Conn, ConnectionFinished(c)
      PROVE  DrainedOnReturn'
  BY <1>4, FinishRetires DEF ConnectionFinished, serverVars
<1>5. ASSUME NEW c \in Conn, InnerStep(c)
      PROVE  DrainedOnReturn'
  BY <1>5, InnerKeepsActive
<1>6. CASE UNCHANGED vars
  BY <1>6, StutterKeepsActive DEF vars, serverVars
<1> QED
  BY <1>1, <1>2, <1>3, <1>4, <1>5, <1>6, NextCases DEF OuterStep

LEMMA LateRequestStep ==
  ASSUME TypeOK, LateRequestIsLast, [Next]_vars
  PROVE  LateRequestIsLast'
<1> USE DEF TypeOK, LateRequestIsLast, stopAccepting, Goto, serverVars, handlerVars
<1>1. CASE StopAccepting
  BY <1>1, BoundsAssumption DEF StopAccepting
<1>2. CASE FdListen \/ SocketFd \/ ListenAndServe
           \/ ListenAndServeTLS \/ AcceptTimeout \/ AcceptError \/ Select \/ Wait
  BY <1>2 DEF FdListen, SocketFd, ListenAndServe, ListenAndServeTLS, AcceptTimeout, AcceptError, Select, Wait
<1>3. ASSUME NEW c \in Conn, Connect(c) \/ Send(c) \/ Leave(c) \/ Hang(c) \/ Sentinel(c)
      PROVE  LateRequestIsLast'
  BY <1>3 DEF Connect, Send, Leave, Hang, Sentinel
<1>4. ASSUME NEW c \in Conn, Accept(c)
      PROVE  LateRequestIsLast'
  BY <1>4 DEF Accept, Backlog
<1>5. ASSUME NEW c \in Conn, HandlerStart(c) \/ ReadFails(c)
      PROVE  LateRequestIsLast'
  BY <1>5 DEF HandlerStart, ReadFails
<1>6. ASSUME NEW c \in Conn, ReadRequest(c)
      PROVE  LateRequestIsLast'
  BY <1>6 DEF ReadRequest, Late
<1>7. ASSUME NEW c \in Conn, ExecutePipeline(c) \/ Panic(c)
      PROVE  LateRequestIsLast'
  BY <1>7 DEF ExecutePipeline, Panic
<1>8. ASSUME NEW c \in Conn, StopCheck(c)
      PROVE  LateRequestIsLast'
  BY <1>8 DEF StopCheck
<1>9. ASSUME NEW c \in Conn, WriteResponse(c)
      PROVE  LateRequestIsLast'
  BY <1>9 DEF WriteResponse
<1>10. ASSUME NEW c \in Conn, ConnectionFinished(c) \/ GiveBuffers(c)
       PROVE  LateRequestIsLast'
  BY <1>10 DEF ConnectionFinished, GiveBuffers
<1>11. CASE UNCHANGED vars
  BY <1>11 DEF vars
<1> QED
  BY <1>1, <1>2, <1>3, <1>4, <1>5, <1>6, <1>7, <1>8, <1>9, <1>10, <1>11 DEF Next

LEMMA LateAcceptStep ==
  ASSUME TypeOK, LateAcceptIsLast, [Next]_vars
  PROVE  LateAcceptIsLast'
<1> USE DEF TypeOK, LateAcceptIsLast, stopAccepting
<1>1. CASE OuterStep
  BY <1>1, BoundsAssumption
     DEF OuterStep, StopAccepting, FdListen, SocketFd, ListenAndServe, ListenAndServeTLS,
         AcceptTimeout, AcceptError, Select, Wait
<1>2. ASSUME NEW c \in Conn, Accept(c)
      PROVE  LateAcceptIsLast'
  BY <1>2 DEF Accept, Late
<1>3. ASSUME NEW c \in Conn, InnerStep(c)
      PROVE  LateAcceptIsLast'
  BY <1>3, InnerKeepsActive
<1>4. ASSUME NEW c \in Conn, ConnectionFinished(c)
      PROVE  LateAcceptIsLast'
  BY <1>4 DEF ConnectionFinished, serverVars
<1>5. CASE UNCHANGED vars
  BY <1>5 DEF vars, serverVars
<1> QED
  BY <1>1, <1>2, <1>3, <1>4, <1>5, NextCases

LEMMA PanicStep ==
  ASSUME TypeOK, PanicRecovered, [Next]_vars
  PROVE  PanicRecovered'
<1> USE DEF TypeOK, PanicRecovered, PanicContained, Finished
<1>1. CASE OuterStep
  BY <1>1, OuterKeepsActive
     DEF OuterStep, stopAccepting, StopAccepting, FdListen, SocketFd, ListenAndServe, ListenAndServeTLS,
         AcceptTimeout, AcceptError, Select,
         Wait, handlerVars
<1>2. ASSUME NEW c \in Conn, ConnectionFinished(c)
      PROVE  PanicRecovered'
  BY <1>2 DEF ConnectionFinished, Goto, serverVars
<1>3. ASSUME NEW c \in Conn, GiveBuffers(c)
      PROVE  PanicRecovered'
  BY <1>3 DEF GiveBuffers, Goto
<1>4. ASSUME NEW c \in Conn, Panic(c)
      PROVE  PanicRecovered'
  BY <1>4 DEF Panic, Goto, serverVars
<1>5. ASSUME NEW c \in Conn,
             \/ Connect(c) \/ Send(c) \/ Leave(c) \/ HandlerStart(c) \/ ReadRequest(c)
             \/ ReadFails(c) \/ ExecutePipeline(c) \/ Hang(c) \/ StopCheck(c)
             \/ WriteResponse(c) \/ Sentinel(c)
      PROVE  PanicRecovered'
  <2>1. Finished' = Finished /\ panicHandler' = panicHandler
    BY <1>5, InnerKeepsActive DEF InnerStep
  <2>2. UNCHANGED <<panicking, process>>
    BY <1>5 DEF Connect, Send, Leave, HandlerStart, ReadRequest, ReadFails,
       ExecutePipeline, Hang, StopCheck, WriteResponse, Sentinel, serverVars, handlerVars
  <2> QED
    BY <2>1, <2>2
<1>6. ASSUME NEW c \in Conn, Accept(c)
      PROVE  PanicRecovered'
  BY <1>6, AcceptActivates DEF Accept
<1>7. CASE UNCHANGED vars
  BY <1>7 DEF vars, serverVars, handlerVars
<1> QED
  BY <1>1, <1>2, <1>3, <1>4, <1>5, <1>6, <1>7 DEF Next, OuterStep
LEMMA InvStep == Inv /\ [Next]_vars => Inv'
  BY CountStep, TypeStep, StopStep, DrainedStep, LateRequestStep, LateAcceptStep,
     PanicStep DEF Inv

-----------------------------------------------------------------------------
(* The theorems about the server.                                          *)

\* Inv is an invariant of the server.
THEOREM Invariance == Spec => []Inv
  BY InitInv, InvStep, PTL DEF Spec

\* Every variable keeps its type; in particular handlerWaitGroup, which Add and
\* Done change in different goroutines, never goes negative, which would panic.
THEOREM TypeCorrect == Spec => []TypeOK
<1>1. Inv => TypeOK
  BY DEF Inv
<1> QED
  BY Invariance, <1>1, PTL

\* ListenAndServe returns only when no accepted connection is being served.
THEOREM Drained == Spec => []DrainedOnReturn
<1>1. Inv => DrainedOnReturn
  BY DEF Inv
<1> QED
  BY Invariance, <1>1, PTL

\* A connection gets at most one more request after StopAccepting.
THEOREM OneLateRequest == Spec => []AtMostOneLateRequest
<1>1. Inv => AtMostOneLateRequest
  BY DEF Inv, LateRequestIsLast, AtMostOneLateRequest
<1> QED
  BY Invariance, <1>1, PTL

\* At most one more connection is accepted after StopAccepting.
THEOREM OneLateAccept == Spec => []AtMostOneLateAccept
<1>1. Inv => AtMostOneLateAccept
  BY DEF Inv, LateAcceptIsLast, AtMostOneLateAccept
<1> QED
  BY Invariance, <1>1, PTL

\* A PanicHandler keeps a panicking handler from killing the process.
THEOREM PanicsContained == Spec => []PanicContained
<1>1. Inv => PanicContained
  BY DEF Inv, PanicRecovered
<1> QED
  BY Invariance, <1>1, PTL

-----------------------------------------------------------------------------
(* The server implements GracefulServer: every step of the server is one   *)
(* of its actions, or changes nothing it can see.                          *)

LEMMA GracefulInit == Init => Graceful!Init
  BY DEF Init, Graceful!Init, stopAccepting, Active, Finished

LEMMA OuterRefines ==
  ASSUME Inv, process = "running", OuterStep
  PROVE  [Graceful!Next]_(Graceful!vars)
<1> USE DEF Graceful!vars, stopAccepting
<1>1. Active' = Active /\ Finished' = Finished
  BY OuterKeepsActive
<1>2. CASE StopAccepting
  <2>1. CASE stopAccepting
    BY <1>1, <1>2, <2>1 DEF StopAccepting, Graceful!Next, Graceful!Die, Inv, TypeOK
  <2>2. CASE ~stopAccepting
    BY <1>1, <1>2, <2>2 DEF StopAccepting, Graceful!Next, Graceful!RequestStop, Inv, TypeOK
  <2> QED
    BY <2>1, <2>2
<1>3. CASE ListenAndServe \/ ListenAndServeTLS
  BY <1>1, <1>3 DEF ListenAndServe, ListenAndServeTLS, Graceful!Next, Graceful!Serve
<1>4. CASE FdListen \/ AcceptTimeout \/ Select
  BY <1>1, <1>4 DEF FdListen, AcceptTimeout, Select
<1>5. CASE AcceptError
  BY <1>1, <1>5 DEF AcceptError, Graceful!Next, Graceful!Die
<1>7. CASE SocketFd
  BY <1>1, <1>7 DEF SocketFd, Graceful!Next, Graceful!Die
<1>6. CASE Wait
  <2>1. stopAccepting
    BY <1>6 DEF Wait, Inv, StopBeforeWait
  <2>2. Active' = {}
    <3>1. Inv'
      BY <1>6, CountStep, TypeStep, StopStep, DrainedStep, LateRequestStep,
         LateAcceptStep, PanicStep DEF Inv, Next
    <3> QED
      BY <1>6, <3>1 DEF Inv, DrainedOnReturn, Wait
  <2> QED
    BY <1>1, <1>6, <2>1, <2>2 DEF Wait, Graceful!Next, Graceful!Return
<1> QED
  BY <1>2, <1>3, <1>4, <1>5, <1>6, <1>7 DEF OuterStep

LEMMA InnerRefines ==
  ASSUME Inv, process = "running", NEW c \in Conn, InnerStep(c)
  PROVE  [Graceful!Next]_(Graceful!vars)
<1> USE DEF Graceful!vars, stopAccepting
<1>1. /\ Active' = Active /\ Finished' = Finished
      /\ UNCHANGED <<servePC, stops, lateAccepts>>
  BY InnerKeepsActive DEF Inv
<1>2. CASE process' = "running"
  BY <1>1, <1>2
<1>3. CASE process' # "running"
  BY <1>1, <1>3 DEF Graceful!Next, Graceful!Die
<1> QED
  BY <1>2, <1>3

LEMMA AcceptRefines ==
  ASSUME Inv, process = "running", NEW c \in Conn, Accept(c)
  PROVE  Graceful!Admit(c)
<1>1. /\ Active' = Active \cup {c} /\ c \notin Active \cup Finished
      /\ Finished' = Finished
  BY AcceptActivates DEF Inv, Accept, Backlog, Finished
<1>2. stopAccepting => lateAccepts = 0
  BY DEF Inv, LateAcceptIsLast, Accept
<1>3. lateAccepts' = (IF stopAccepting THEN 1 ELSE lateAccepts)
  BY <1>2 DEF Accept, Late, Inv, TypeOK
<1> QED
  BY <1>1, <1>2, <1>3 DEF Graceful!Admit, Accept, stopAccepting

LEMMA FinishedRefines ==
  ASSUME Inv, process = "running", NEW c \in Conn, ConnectionFinished(c)
  PROVE  Graceful!Retire(c)
<1>1. Active' = Active \ {c} /\ c \in Active /\ Finished' = Finished \cup {c}
  BY FinishRetires DEF Inv
<1> QED
  BY <1>1 DEF Graceful!Retire, ConnectionFinished, serverVars, stopAccepting

\* Every step of the server that its process still takes is one of its promise.
LEMMA StepRefines ==
  ASSUME process = "running" => Inv, [Next]_vars
  PROVE  [Graceful!Next]_(Graceful!vars)
<1>1. CASE process = "running" /\ OuterStep
  BY <1>1, OuterRefines
<1>2. ASSUME process = "running", NEW c \in Conn,
             InnerStep(c) \/ Accept(c) \/ ConnectionFinished(c)
      PROVE  [Graceful!Next]_(Graceful!vars)
  BY <1>2, InnerRefines, AcceptRefines, FinishedRefines DEF Graceful!Next
<1>3. CASE UNCHANGED vars
  BY <1>3, StutterKeepsActive
     DEF vars, serverVars, Graceful!vars, stopAccepting
<1> QED
  BY <1>1, <1>2, <1>3, NextCases

\* The server implements its promise: connections are admitted, at most one of
\* them after a stop request, and serving ends when all have been retired.
THEOREM Refinement == Spec => GracefulSpec
<1>1. Inv /\ [Next]_vars => [Graceful!Next]_(Graceful!vars)
  BY StepRefines
<1> QED
  BY GracefulInit, Invariance, <1>1, PTL DEF Spec, GracefulSpec, Graceful!Spec

-----------------------------------------------------------------------------
(* The parent of a restart is the server still.                            *)

\* A step of a restart is one of the parent's server, or a child takes a
\* connection from the queue, or a signal ends the parent.
LEMMA HotNextCases ==
  ASSUME [HotNext]_allVars
  PROVE  \/ [Next]_vars
         \/ \E k \in Child, c \in Conn : ChildAccepts(k, c)
         \/ Terminate
<1>1. ServerNext => Next
  BY DEF ServerNext
<1>2. StopOnSignal => Next
  BY DEF StopOnSignal, ParentRuns, Next
<1>3. Fork \/ ForkReturns => [Next]_vars
  BY DEF Fork, ForkReturns, ParentRuns, Next
<1>4. Hangup \/ (\E sig \in {"HUP", "USR1"} : Deliver(sig)) => UNCHANGED vars
  BY DEF Hangup, Deliver
<1>5. (\E k \in Child : ChildListens(k) \/ ChildSignals(k) \/ ChildDies(k)) => UNCHANGED vars
  BY DEF ChildListens, ChildSignals, ChildDies
<1> QED
  BY <1>1, <1>2, <1>3, <1>4, <1>5 DEF HotNext, allVars

LEMMA ChildAcceptsInv ==
  ASSUME Inv, NEW k \in Child, NEW c \in Conn, ChildAccepts(k, c)
  PROVE  Inv'
<1>1. /\ client' = [client EXCEPT ![c] = "new"] /\ unread' = [unread EXCEPT ![c] = 0]
      /\ UNCHANGED <<serverVars, handlerWaitGroup, handlerVars, guardVars>>
  BY DEF ChildAccepts
<1>2. TypeOK'
  BY <1>1, BoundsAssumption DEF Inv, TypeOK, serverVars, handlerVars, guardVars
<1>3. Active' = Active /\ Finished' = Finished
  BY <1>1 DEF Active, Finished, handlerVars
<1> QED
  BY <1>1, <1>2, <1>3 DEF Inv, WaitGroupCountsActive, StopBeforeWait, DrainedOnReturn,
     LateRequestIsLast, LateAcceptIsLast, PanicRecovered, PanicContained, stopAccepting,
     serverVars, handlerVars, guardVars

\* The server's invariant lasts until a signal ends the parent.
RestartInv == (process # "terminated" => Inv) /\ DrainedOnReturn

LEMMA RestartStep == RestartInv /\ [HotNext]_allVars => RestartInv'
<1> SUFFICES ASSUME RestartInv, [HotNext]_allVars PROVE RestartInv'
  OBVIOUS
<1>1. CASE Next
  <2>1. Inv'
    BY <1>1, InvStep DEF RestartInv, Next
  <2> QED
    BY <2>1 DEF Inv, RestartInv
<1>2. CASE UNCHANGED vars
  <2>1. process' = process /\ servePC' = servePC /\ Active' = Active
    BY <1>2 DEF vars, serverVars, handlerVars, Active
  <2>2. DrainedOnReturn'
    BY <2>1 DEF RestartInv, DrainedOnReturn
  <2> QED
    BY <1>2, <2>1, <2>2, InvStep DEF RestartInv
<1>3. ASSUME NEW k \in Child, NEW c \in Conn, ChildAccepts(k, c)
      PROVE  RestartInv'
  <2>1. process' = process /\ servePC' = servePC /\ Active' = Active
    BY <1>3 DEF ChildAccepts, serverVars, handlerVars, Active
  <2>2. DrainedOnReturn'
    BY <2>1 DEF RestartInv, DrainedOnReturn
  <2> QED
    BY <1>3, <2>1, <2>2, ChildAcceptsInv DEF RestartInv
<1>4. CASE Terminate
  <2>1. process' = "terminated" /\ servePC' = servePC /\ Active' = Active
    BY <1>4 DEF Terminate, handlerVars, Active
  <2> QED
    BY <2>1 DEF RestartInv, DrainedOnReturn
<1> QED
  BY <1>1, <1>2, <1>3, <1>4, HotNextCases

\* RestartInv holds in a restart with any number of connections and children.
THEOREM RestartInvariance == HotSpec => []RestartInv
<1>1. HotInit => RestartInv
  BY InitInv DEF HotInit, RestartInv, Inv
<1> QED
  BY <1>1, RestartStep, PTL DEF HotSpec

\* A parent that has been replaced drains before it exits: its server is the
\* same, though connections of its queue go to children.
THEOREM RestartDrains == HotSpec => []DrainedOnReturn
<1>1. RestartInv => DrainedOnReturn
  BY DEF RestartInv
<1> QED
  BY <1>1, RestartInvariance, PTL

\* The parent of a restart, from its start to its end, does what a server promises:
\* neither the signals nor the children that share its queue, nor the call of
\* StopAccepting from handleSignals, make it admit or drop more than that.
THEOREM RestartRefinement == HotSpec => GracefulSpec
<1>1. HotInit => Graceful!Init
  BY GracefulInit DEF HotInit
<1>2. RestartInv /\ [HotNext]_allVars => [Graceful!Next]_(Graceful!vars)
  <2> SUFFICES ASSUME RestartInv, [HotNext]_allVars
               PROVE  [Graceful!Next]_(Graceful!vars)
    OBVIOUS
  <2>1. CASE [Next]_vars
    BY <2>1, StepRefines DEF RestartInv
  <2>2. ASSUME NEW k \in Child, NEW c \in Conn, ChildAccepts(k, c)
        PROVE  UNCHANGED Graceful!vars
    BY <2>2 DEF ChildAccepts, serverVars, handlerVars, Active, Finished, Graceful!vars, stopAccepting
  <2>3. CASE Terminate
    <3>1. process = "running" /\ process' # "running"
      BY <2>3 DEF Terminate, ParentRuns
    <3>2. /\ Active' = Active /\ Finished' = Finished
          /\ UNCHANGED <<servePC, stops, lateAccepts>>
      BY <2>3 DEF Terminate, handlerVars, Active, Finished
    <3> QED
      BY <3>1, <3>2 DEF Graceful!Next, Graceful!Die, stopAccepting
  <2> QED
    BY <2>1, <2>2, <2>3, HotNextCases
<1> QED
  BY <1>1, <1>2, RestartInvariance, PTL DEF HotSpec, GracefulSpec, Graceful!Spec

-----------------------------------------------------------------------------
(* The hot restart: the inductive invariant of a handover, part by part.   *)

\* The children that have sent SIGUSR1.
Sent == {k \in Child : child[k] \in {"signalled", "dead"}}

\* Each SIGUSR1 stands for a child of its own: while it is pending, while
\* handleSignals acts on it, and afterwards, as a call of StopAccepting.
FirstSignal == "USR1" \in pending \/ sigPC = "stop" \/ stops > 0 => Sent # {}

SecondSignal ==
  (\/ "USR1" \in pending /\ sigPC = "stop"
   \/ "USR1" \in pending /\ stops > 0
   \/ sigPC = "stop" /\ stops > 0
   \/ stops > 1)
    => \E j, k \in Sent : j # k

HandoverInv ==
  /\ stops \in Nat
  /\ child \in [Child -> ChildState]
  /\ process = "closedTwice" => stops > 1
  /\ FirstSignal
  /\ SecondSignal

-----------------------------------------------------------------------------
LEMMA HandoverInit == HotInit => HandoverInv
  BY DEF HotInit, Init, HandoverInv, FirstSignal, SecondSignal, ChildState

\* A step of the server itself neither stops it nor closes the channel again.
LEMMA ServerKeepsStops ==
  ASSUME stops \in Nat, ServerNext
  PROVE  UNCHANGED <<stops, sigPC, pending, child>> /\ process' # "closedTwice"
<1> USE DEF serverVars
<1>1. process = "running" /\ UNCHANGED <<stops, sigPC, pending, child>>
  BY DEF ServerNext, ParentRuns, restartVars
<1>2. CASE StopAccepting
  BY <1>1, <1>2 DEF StopAccepting
<1>3. CASE FdListen \/ SocketFd \/ ListenAndServe
           \/ ListenAndServeTLS \/ AcceptTimeout \/ AcceptError \/ Select \/ Wait
  BY <1>1, <1>3 DEF FdListen, SocketFd, ListenAndServe, ListenAndServeTLS,
      AcceptTimeout, AcceptError, Select, Wait
<1>4. ASSUME NEW c \in Conn,
             \/ Connect(c) \/ Send(c) \/ Leave(c)
             \/ Accept(c) \/ HandlerStart(c) \/ ReadRequest(c) \/ ReadFails(c)
             \/ ExecutePipeline(c) \/ Panic(c) \/ Hang(c) \/ StopCheck(c)
             \/ WriteResponse(c) \/ ConnectionFinished(c) \/ GiveBuffers(c)
             \/ Sentinel(c)
      PROVE  process' # "closedTwice"
  BY <1>1, <1>4
     DEF Connect, Send, Leave, Accept, HandlerStart, ReadRequest, ReadFails,
         ExecutePipeline, Panic, Hang, StopCheck, WriteResponse, ConnectionFinished,
         GiveBuffers, Sentinel
<1> QED
  BY <1>1, <1>2, <1>3, <1>4 DEF ServerNext, Next

\* A child that signals is one more than those that have signalled before.
LEMMA SignalStep ==
  ASSUME HandoverInv, NEW k \in Child, ChildSignals(k)
  PROVE  HandoverInv'
<1>1. k \notin Sent /\ Sent' = Sent \cup {k}
  BY DEF HandoverInv, ChildSignals, Sent
<1>2. UNCHANGED <<stops, sigPC, process>> /\ child' \in [Child -> ChildState]
  BY DEF HandoverInv, ChildSignals, ChildState, vars, serverVars
<1>3. FirstSignal'
  BY <1>1 DEF FirstSignal
<1>4. CASE Sent # {}
  BY <1>1, <1>2, <1>3, <1>4 DEF HandoverInv, SecondSignal
<1>5. CASE Sent = {}
  <2>1. sigPC # "stop" /\ ~(stops > 0)
    BY <1>5 DEF HandoverInv, FirstSignal
  <2> QED
    BY <1>2, <1>3, <2>1 DEF HandoverInv, SecondSignal
<1> QED
  BY <1>4, <1>5

\* The other steps of children send nothing and forget nothing.
LEMMA ChildStep ==
  ASSUME HandoverInv, NEW k \in Child,
         ChildListens(k) \/ ChildDies(k) \/ \E c \in Conn : ChildAccepts(k, c)
  PROVE  HandoverInv'
<1>1. UNCHANGED <<stops, process, sigPC, pending>>
  BY DEF ChildListens, ChildDies, ChildAccepts, vars, serverVars, restartVars
<1>2. child' \in [Child -> ChildState] /\ Sent' = Sent
  BY DEF HandoverInv, ChildListens, ChildDies, ChildAccepts, ChildState, Sent, Serving, restartVars
<1> QED
  BY <1>1, <1>2 DEF HandoverInv, FirstSignal, SecondSignal

LEMMA ForkStep ==
  ASSUME HandoverInv, Fork \/ ForkReturns
  PROVE  HandoverInv'
<1>1. UNCHANGED <<stops, pending>> /\ sigPC' \in {"forked", "receive"}
  BY DEF Fork, ForkReturns, SocketFd, vars, serverVars
<1>2. process' # "closedTwice"
  BY DEF Fork, ForkReturns, SocketFd, ParentRuns, vars, serverVars
<1>3. child' \in [Child -> ChildState] /\ Sent' = Sent
  <2>1. CASE UNCHANGED child
    BY <2>1 DEF HandoverInv, Sent
  <2>2. CASE \E k \in Child : child[k] = "none" /\ child' = [child EXCEPT ![k] = "forked"]
    BY <2>2 DEF HandoverInv, Sent, ChildState
  <2> QED
    BY <2>1, <2>2 DEF Fork, ForkReturns
<1> QED
  BY <1>1, <1>2, <1>3 DEF HandoverInv, FirstSignal, SecondSignal

LEMMA SignalHandling ==
  ASSUME HandoverInv, Hangup \/ Terminate \/ StopOnSignal \/ \E sig \in {"HUP", "USR1"} : Deliver(sig)
  PROVE  HandoverInv'
<1> USE DEF HandoverInv, vars, serverVars, restartVars, Sent
<1>1. CASE Hangup
  BY <1>1 DEF Hangup, FirstSignal, SecondSignal
<1>2. CASE Terminate
  BY <1>2 DEF Terminate, FirstSignal, SecondSignal
<1>3. CASE StopOnSignal
  <2>1. stops' = stops + 1 /\ sigPC = "stop" /\ sigPC' = "receive" /\ UNCHANGED <<pending, child>>
    BY <1>3 DEF StopOnSignal, StopAccepting
  <2>2. process' = "closedTwice" => stops' > 1
    BY <1>3, <2>1 DEF StopOnSignal, StopAccepting, stopAccepting, ParentRuns
  <2> QED
    BY <2>1, <2>2 DEF FirstSignal, SecondSignal
<1>4. ASSUME NEW sig \in {"HUP", "USR1"}, Deliver(sig)
      PROVE  HandoverInv'
  BY <1>4 DEF Deliver, FirstSignal, SecondSignal
<1> QED
  BY <1>1, <1>2, <1>3, <1>4

LEMMA HandoverStep == HandoverInv /\ [HotNext]_allVars => HandoverInv'
<1> SUFFICES ASSUME HandoverInv, [HotNext]_allVars PROVE HandoverInv'
  OBVIOUS
<1>1. CASE ServerNext
  BY <1>1, ServerKeepsStops DEF HandoverInv, FirstSignal, SecondSignal, Sent
<1>2. CASE UNCHANGED allVars
  BY <1>2 DEF allVars, vars, serverVars, restartVars, HandoverInv, FirstSignal, SecondSignal, Sent
<1> QED
  BY <1>1, <1>2, SignalStep, ChildStep, ForkStep, SignalHandling DEF HotNext

-----------------------------------------------------------------------------
(* The theorems about the hot restart.                                     *)

\* HandoverInv holds throughout a restart.
THEOREM HandoverInvariance == HotSpec => []HandoverInv
  BY HandoverInit, HandoverStep, PTL DEF HotSpec

\* The parent stops accepting only when a child accepts in its place, or has
\* died since.
THEOREM HandoverWithoutOutage == HotSpec => []NoOutage
<1>1. HandoverInv => NoOutage
  BY DEF HandoverInv, FirstSignal, Sent, NoOutage, Serving, stopAccepting
<1> QED
  BY HandoverInvariance, <1>1, PTL

\* One restart never closes stopAccepting twice.
THEOREM SingleRestartSafe == HotSpec => []OneRestartIsSafe
<1>1. HandoverInv => OneRestartIsSafe
  <2> SUFFICES ASSUME HandoverInv, process = "closedTwice"
               PROVE  \E j, k \in Child :
                        j # k /\ {child[j], child[k]} \subseteq {"signalled", "dead"}
    BY DEF OneRestartIsSafe
  <2>1. PICK j \in Sent, k \in Sent : j # k
    BY DEF HandoverInv, SecondSignal
  <2> QED
    BY <2>1 DEF Sent
<1> QED
  BY HandoverInvariance, <1>1, PTL
=============================================================================
