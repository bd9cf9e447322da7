----------------------------- MODULE Throttler -----------------------------
(***************************************************************************)
(* filter.Throttler: requests wait for a tick of the current ticker, while *)
(* SetRPS replaces the ticker and tells the waiters by closing a channel.  *)
(*                                                                         *)
(* FilterRequest takes tickerM to read the field ticker, but reads the     *)
(* field tickerClose, and ticker a second time, without it; SetRPS writes  *)
(* both under the lock, one after the other.  Each such access is a step.  *)
(* The ticker and the channel that one call of SetRPS makes carry the same *)
(* number.  Rates differ only in being positive or not.                    *)
(***************************************************************************)
EXTENDS Integers, FiniteSets

CONSTANTS
  Request,  \* the requests that reach the filter
  MaxSets,  \* bound: calls to SetRPS after the one in NewThrottler
  Nil       \* no ticker: throttling is disabled

ASSUME ThrottlerAssumption ==
  IsFiniteSet(Request) /\ MaxSets \in Nat /\ Nil \notin 0..MaxSets

VARIABLES
  ticker,       \* t.ticker: its number, or Nil
  tickerClose,  \* t.tickerClose: its number
  setPC,        \* SetRPS: not under way, or what it has just stored under tickerM
  running,      \* tickers that have not been stopped
  ticked,       \* tickers with a tick in their channel, which holds one
  closed,       \* channels that have been closed
  count,        \* t.count
  pc,           \* per request: where its goroutine is
  tt,           \* per request: FilterRequest's tt
  watched       \* per request: the tickerClose channel its select waits for

setVars     == <<ticker, tickerClose, setPC, running, closed>>
requestVars == <<count, pc, tt, watched>>
vars == <<setVars, ticked, requestVars>>

Made == 0..MaxSets

RequestPC == {"new", "evaluate", "select", "reread", "test", "passed", "panicked"}

SetPC == {"idle", "ticker", "channel"}

\* SetRPS holds tickerM.
Locked == setPC # "idle"

Goto(r, to) == pc' = [pc EXCEPT ![r] = to]

-----------------------------------------------------------------------------
\* NewThrottler has called SetRPS.
Init ==
  /\ ticker \in {Nil, 0}
  /\ tickerClose = 0
  /\ setPC = "idle"
  /\ running = {ticker} \ {Nil}
  /\ ticked = {}
  /\ closed = {}
  /\ count = 0
  /\ pc = [r \in Request |-> "new"]
  /\ tt = [r \in Request |-> Nil]
  /\ watched = [r \in Request |-> 0]

-----------------------------------------------------------------------------
(* SetRPS.                                                                 *)

\* Take the lock, stop the old ticker, store the new one, if there is to be one.
SetTicker(positive) ==
  /\ ~Locked
  /\ tickerClose < MaxSets
  /\ setPC' = "ticker"
  /\ ticker' = IF positive THEN tickerClose + 1 ELSE Nil
  /\ running' = (running \ {ticker}) \cup ({ticker'} \ {Nil})
  /\ UNCHANGED <<tickerClose, closed, ticked, requestVars>>

\* Store a new tickerClose channel.
StoreChannel ==
  /\ setPC = "ticker"
  /\ setPC' = "channel"
  /\ tickerClose' = tickerClose + 1
  /\ UNCHANGED <<ticker, running, closed, ticked, requestVars>>

\* Close the old one, and give the lock back.
SignalWithoutClose ==
  /\ setPC = "channel"
  /\ setPC' = "idle"
  /\ UNCHANGED <<closed, ticker, tickerClose, running, ticked, requestVars>>

SignalWaiters ==
  /\ setPC = "channel"
  /\ setPC' = "idle"
  /\ closed' = closed \cup {tickerClose - 1}
  /\ UNCHANGED <<ticker, tickerClose, running, ticked, requestVars>>

\* A running ticker ticks; a tick that nobody has taken is not repeated.
Fire(n) ==
  /\ n \in running \ ticked
  /\ ticked' = ticked \cup {n}
  /\ UNCHANGED <<setVars, requestVars>>

-----------------------------------------------------------------------------
(* FilterRequest.                                                          *)

\* The Condition says that this request is not throttled.
Exempt(r) ==
  /\ pc[r] = "new"
  /\ Goto(r, "passed")
  /\ UNCHANGED <<setVars, ticked, count, tt, watched>>

\* Read the ticker under the lock; if there is none the request passes.
Arrive(r) ==
  /\ pc[r] = "new"
  /\ ~Locked
  /\ tt' = [tt EXCEPT ![r] = ticker]
  /\ IF ticker = Nil
       THEN Goto(r, "passed") /\ UNCHANGED count
       ELSE Goto(r, "evaluate") /\ count' = count + 1
  /\ UNCHANGED <<setVars, ticked, watched>>

\* The select evaluates tt.C, which panics without a ticker, and t.tickerClose.
Evaluate(r) ==
  /\ pc[r] = "evaluate"
  /\ IF tt[r] = Nil
       THEN Goto(r, "panicked") /\ UNCHANGED watched
       ELSE Goto(r, "select") /\ watched' = [watched EXCEPT ![r] = tickerClose]
  /\ UNCHANGED <<setVars, ticked, count, tt>>

TakeTick(r) ==
  /\ pc[r] = "select"
  /\ tt[r] \in ticked
  /\ ticked' = ticked \ {tt[r]}
  /\ count' = count - 1
  /\ Goto(r, "passed")
  /\ UNCHANGED <<setVars, tt, watched>>

SeeClosed(r) ==
  /\ pc[r] = "select"
  /\ watched[r] \in closed
  /\ Goto(r, "reread")
  /\ UNCHANGED <<setVars, ticked, count, tt, watched>>

\* Get the new ticker, under the lock.
Reread(r) ==
  /\ pc[r] = "reread"
  /\ ~Locked
  /\ tt' = [tt EXCEPT ![r] = ticker]
  /\ Goto(r, "test")
  /\ UNCHANGED <<setVars, ticked, count, watched>>

\* t.ticker is read again, without the lock: if throttling has been disabled
\* the request passes, else the loop goes on with tt.
TestKeepingCount(r) ==
  /\ pc[r] = "test"
  /\ IF ticker = Nil THEN Goto(r, "passed") ELSE Goto(r, "evaluate")
  /\ UNCHANGED <<count, setVars, ticked, tt, watched>>

Test(r) ==
  /\ pc[r] = "test"
  /\ IF ticker = Nil
       THEN Goto(r, "passed") /\ count' = count - 1
       ELSE Goto(r, "evaluate") /\ UNCHANGED count
  /\ UNCHANGED <<setVars, ticked, tt, watched>>

-----------------------------------------------------------------------------
RequestStep(r) ==
  Evaluate(r) \/ TakeTick(r) \/ SeeClosed(r) \/ Reread(r) \/ Test(r)

Next ==
  \/ \E positive \in BOOLEAN : SetTicker(positive)
  \/ StoreChannel \/ SignalWaiters
  \/ \E n \in Made : Fire(n)
  \/ \E r \in Request :
       \/ Exempt(r) \/ Arrive(r) \/ Evaluate(r) \/ TakeTick(r) \/ SeeClosed(r)
       \/ Reread(r) \/ Test(r)

Spec == Init /\ [][Next]_vars

\* Goroutines that can run do run (SetRPS finishes, too) and running tickers
\* tick.  Nothing makes requests arrive or SetRPS be called.
FairSpec ==
  /\ Spec
  /\ WF_vars(StoreChannel) /\ WF_vars(SignalWaiters)
  /\ \A n \in Made : WF_vars(Fire(n))
  /\ \A r \in Request : WF_vars(RequestStep(r)) /\ WF_vars(TakeTick(r))

-----------------------------------------------------------------------------
(* Properties.                                                             *)

Pending == {r \in Request : pc[r] \in {"evaluate", "select", "reread", "test"}}

\* The type of every variable.
TypeOK ==
  /\ ticker \in Made \cup {Nil}
  /\ tickerClose \in Made
  /\ setPC \in SetPC
  /\ running \subseteq Made
  /\ ticked \subseteq Made
  /\ closed \subseteq Made
  /\ count \in Nat
  /\ pc \in [Request -> RequestPC]
  /\ tt \in [Request -> Made \cup {Nil}]
  /\ watched \in [Request -> Made]

\* Pending(), which StartReporter logs, is the number of requests that wait,
\* except that a request that panics is counted for ever.
PendingIsExact ==
  count = Cardinality(Pending) + Cardinality({r \in Request : pc[r] = "panicked"})

\* The channels that are closed already, or that SetRPS will close: the current
\* one, and the one it has just replaced.
Signalled ==
  closed \cup {tickerClose} \cup (IF setPC = "channel" THEN {tickerClose - 1} ELSE {})

\* A request that sleeps hears of the next SetRPS, or of the one under way, at
\* whatever point of SetRPS it has read the field.
WatchersHear == \A r \in Request : pc[r] = "select" => watched[r] \in Signalled

\* The request sleeps on a channel that is newer than its ticker: SetRPS ran
\* between the two reads, and its ticker will tick no more.
Overtaken(r) == pc[r] = "select" /\ tt[r] # Nil /\ tt[r] # watched[r]

\* Every throttled request passes, at whatever moment the ticker it waits for
\* is replaced or removed, but for the two races on the fields: it is overtaken
\* by SetRPS, or it goes on without a ticker and panics.
PassesUnlessOvertaken ==
  \A r \in Request : (r \in Pending) ~> (pc[r] \in {"passed", "panicked"} \/ Overtaken(r))

\* Closing the channel signals waiting requests that they should look for a new
\* ticker, and if throttling has been disabled, they continue: so every throttled
\* request passes, however SetRPS and the reads of the two fields interleave.
WaitersFollowTicker == \A r \in Request : (r \in Pending) ~> (pc[r] = "passed")
=============================================================================
