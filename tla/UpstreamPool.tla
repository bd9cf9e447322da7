---------------------------- MODULE UpstreamPool ----------------------------
(***************************************************************************)
(* filter.UpstreamPool: one goroutine (nextServer) walks the pool round-   *)
(* robin and offers an entry on the unbuffered channel nextUpstream, the   *)
(* goroutines in FilterRequest and Shutdown take what is offered, and both *)
(* failed requests and pings change the weights under weightMutex.         *)
(*                                                                         *)
(* An entry is its index in the pool.  An upstream server is healthy when  *)
(* it answers pings with status 200.  A round trip of a request may fail   *)
(* whatever the pings say (a timeout, another URL), or succeed; the result *)
(* of either is used later, when the server may have changed.  The         *)
(* throttle of the entry's Upstream is a module of its own, Upstream.      *)
(***************************************************************************)
EXTENDS Integers, FiniteSets

CONSTANTS
  N,         \* len(up.pool)
  Pingable,  \* entries with a PingPath
  Weights,   \* the weights an entry may be configured with
  Request,   \* the requests that reach the filter
  MaxPings,  \* bound: pings of one entry at a time
  MaxFlips,  \* bound: changes of the servers' health
  None       \* no entry

Entry == 0 .. N-1

ASSUME PoolAssumption ==
  /\ N \in Nat \ {0}
  /\ Pingable \subseteq Entry
  /\ Weights \subseteq Int
  /\ MaxPings \in Nat /\ MaxFlips \in Nat
  /\ None \notin Entry

VARIABLES
  weight,      \* per entry: ue.Weight
  next,        \* up.rr_count % len(up.pool)
  loopCount,   \* entries skipped since the last offer, at most 2*N+1
  serverPC,    \* nextServer: "look", "offer" or "stopped"
  shutdown,    \* Shutdown: "no", "next" (closed the channel, is in Next), "returned"
  request,     \* per request: where its goroutine is, and its entry
  pinger,      \* pingUpstreams: "select" or "stopped"
  pings,       \* per entry and number: the state of a pingUpstream goroutine
  healthy,     \* environment: the servers that answer a ping with status 200
  flips,       \* environment: changes of healthy so far
  fallback,    \* history: the entry was found down when it was offered
  seenDown,    \* history: entries found down since the last offer
  stale        \* history: per entry, deliveries of an offer made before it went down

nextVars == <<next, loopCount, serverPC, fallback, seenDown>>
pingVars == <<pinger, pings>>
envVars  == <<healthy, flips>>
vars == <<weight, nextVars, shutdown, request, pingVars, envVars, stale>>

At(pc) == [pc |-> pc, entry |-> None]

RequestState ==
  {At(pc) : pc \in {"new", "next", "done"}}
    \cup [pc : {"sent", "failed"}, entry : Entry]

Ping == [entry : Pingable, number : 1..MaxPings]

PingState == {"idle", "sent", "up", "down", "setUp", "setDown"}

\* up.shutdown is closed.
IsShutdown == shutdown # "no"

\* updateUpstream; the history forgets late deliveries when the entry is up again.
UpdateUpstream(e, wgt) ==
  /\ weight' = [weight EXCEPT ![e] = wgt]
  /\ stale' = IF wgt > 0 THEN [stale EXCEPT ![e] = 0] ELSE stale

-----------------------------------------------------------------------------
\* Some entry may be offered: with negative weights only nextServer would spin.
Init ==
  /\ weight \in {w \in [Entry -> Weights] : \E e \in Entry : w[e] >= 0}
  /\ next = 0
  /\ loopCount = 0
  /\ serverPC = "look"
  /\ shutdown = "no"
  /\ request = [r \in Request |-> At("new")]
  /\ pinger = "select"
  /\ pings = [p \in Ping |-> "idle"]
  /\ healthy \in SUBSET Entry
  /\ flips = 0
  /\ fallback = FALSE
  /\ seenDown = {}
  /\ stale = [e \in Entry |-> 0]

-----------------------------------------------------------------------------
(* nextServer.                                                             *)

\* It reads the weight of the next entry, and offers the entry if it is up, or
\* if the list has been gone through twice and it is merely down; the offer is
\* made after the mutex has been released.
OfferableUpOnly(e) == weight[e] > 0

Offerable(e) == weight[e] > 0 \/ (loopCount > 2*N /\ weight[e] = 0)

Advance(i) == (i + 1) % N

LookForgettingReset ==
  /\ serverPC = "look"
  /\ IF Offerable(next)
       THEN /\ serverPC' = "offer"
            /\ fallback' = (weight[next] = 0)
            /\ seenDown' = IF fallback' THEN seenDown \cup {next} ELSE {}
            /\ UNCHANGED <<next, loopCount>>
       ELSE /\ loopCount' = IF loopCount > 2*N THEN loopCount ELSE loopCount + 1
            /\ seenDown' = seenDown \cup {next}
            /\ next' = Advance(next)
            /\ UNCHANGED <<serverPC, fallback>>
  /\ UNCHANGED <<weight, shutdown, request, pingVars, envVars, stale>>

Look ==
  /\ serverPC = "look"
  /\ IF Offerable(next)
       THEN /\ loopCount' = 0
            /\ serverPC' = "offer"
            /\ fallback' = (weight[next] = 0)
            /\ seenDown' = IF fallback' THEN seenDown \cup {next} ELSE {}
            /\ UNCHANGED next
       ELSE /\ loopCount' = IF loopCount > 2*N THEN loopCount ELSE loopCount + 1
            /\ seenDown' = seenDown \cup {next}
            /\ next' = Advance(next)
            /\ UNCHANGED <<serverPC, fallback>>
  /\ UNCHANGED <<weight, shutdown, request, pingVars, envVars, stale>>

\* The offer is taken: by whom is said in Next and in ShutdownNext.
DeliverOfferingAgain ==
  /\ serverPC = "offer"
  /\ stale' = IF ~fallback /\ weight[next] <= 0 THEN [stale EXCEPT ![next] = @ + 1] ELSE stale
  /\ UNCHANGED nextVars

Deliver ==
  /\ serverPC = "offer"
  /\ serverPC' = "look"
  /\ next' = Advance(next)
  /\ seenDown' = {}
  /\ stale' = IF ~fallback /\ weight[next] <= 0 THEN [stale EXCEPT ![next] = @ + 1] ELSE stale
  /\ UNCHANGED <<loopCount, fallback>>

\* The select of an offer finds the shutdown channel closed.
ServerStops ==
  /\ serverPC = "offer"
  /\ IsShutdown
  /\ serverPC' = "stopped"
  /\ UNCHANGED <<weight, next, loopCount, fallback, seenDown, shutdown, request,
                 pingVars, envVars, stale>>

-----------------------------------------------------------------------------
(* FilterRequest.                                                          *)

Arrive(r) ==
  /\ request[r] = At("new")
  /\ request' = [request EXCEPT ![r] = At("next")]
  /\ UNCHANGED <<weight, nextVars, shutdown, pingVars, envVars, stale>>

\* Next() returns what nextServer offers.
TakeNext(r) ==
  /\ request[r] = At("next")
  /\ Deliver
  /\ request' = [request EXCEPT ![r] = [pc |-> "sent", entry |-> next]]
  /\ UNCHANGED <<weight, shutdown, pingVars, envVars>>

\* The entry's Upstream answers the request, or its round trip fails, which sets
\* the stage's status to 2.
RoundTrip(r) ==
  /\ request[r].pc = "sent"
  /\ \E result \in {At("done"), [request[r] EXCEPT !.pc = "failed"]} :
       request' = [request EXCEPT ![r] = result]
  /\ UNCHANGED <<weight, nextVars, shutdown, pingVars, envVars, stale>>

\* The failed request marks its entry as down.
MarkDown(r) ==
  /\ request[r].pc = "failed"
  /\ UpdateUpstream(request[r].entry, 0)
  /\ request' = [request EXCEPT ![r] = At("done")]
  /\ UNCHANGED <<nextVars, shutdown, pingVars, envVars>>

-----------------------------------------------------------------------------
(* Shutdown.                                                               *)

\* close(up.shutdown).  Called once: a second close panics.
Shutdown ==
  /\ shutdown = "no"
  /\ shutdown' = "next"
  /\ UNCHANGED <<weight, nextVars, request, pingVars, envVars, stale>>

\* Its Next(), "to make sure we hit the shutdown code", is answered.
ShutdownNext ==
  /\ shutdown = "next"
  /\ Deliver
  /\ shutdown' = "returned"
  /\ UNCHANGED <<weight, request, pingVars, envVars>>

-----------------------------------------------------------------------------
(* Pings.                                                                  *)

\* The pinger ticks: one goroutine for each entry with a PingPath, in a free
\* place; without such entries pingUpstreams ends.
Tick ==
  /\ pinger = "select"
  /\ \A e \in Pingable : \E p \in Ping : p.entry = e /\ pings[p] = "idle"
  /\ pinger' = IF Pingable = {} THEN "stopped" ELSE "select"
  /\ pings' = [p \in Ping |->
       IF /\ pings[p] = "idle"
          /\ \A q \in Ping : q.entry = p.entry /\ pings[q] = "idle" => p.number <= q.number
         THEN "sent" ELSE pings[p]]
  /\ UNCHANGED <<weight, nextVars, shutdown, request, envVars, stale>>

PingerStopsWithNothingToPing ==
  /\ pinger = "select"
  /\ IsShutdown /\ Pingable = {}
  /\ pinger' = "stopped"
  /\ UNCHANGED <<weight, nextVars, shutdown, request, pings, envVars, stale>>

PingerStops ==
  /\ pinger = "select"
  /\ IsShutdown
  /\ pinger' = "stopped"
  /\ UNCHANGED <<weight, nextVars, shutdown, request, pings, envVars, stale>>

\* ping() returns whether the server answered with status 200.
PingReply(p) ==
  /\ pings[p] = "sent"
  /\ pings' = [pings EXCEPT ![p] = IF p.entry \in healthy THEN "up" ELSE "down"]
  /\ UNCHANGED <<weight, nextVars, shutdown, request, pinger, envVars, stale>>

\* The weight is read under the mutex, which is released; if the status has
\* changed the goroutine goes on to write it.
PingCheckOnlyDown(p) ==
  /\ pings[p] \in {"up", "down"}
  /\ pings' = [pings EXCEPT ![p] =
       IF pings[p] = "down" /\ weight[p.entry] > 0 THEN "setDown" ELSE "idle"]
  /\ UNCHANGED <<weight, nextVars, shutdown, request, pinger, envVars, stale>>

PingCheck(p) ==
  /\ pings[p] \in {"up", "down"}
  /\ pings' = [pings EXCEPT ![p] =
       CASE pings[p] = "up"   /\ ~(weight[p.entry] > 0) -> "setUp"
         [] pings[p] = "down" /\ weight[p.entry] > 0    -> "setDown"
         [] OTHER -> "idle"]
  /\ UNCHANGED <<weight, nextVars, shutdown, request, pinger, envVars, stale>>

PingUpdate(p) ==
  /\ pings[p] \in {"setUp", "setDown"}
  /\ UpdateUpstream(p.entry, IF pings[p] = "setUp" THEN 1 ELSE 0)
  /\ pings' = [pings EXCEPT ![p] = "idle"]
  /\ UNCHANGED <<nextVars, shutdown, request, pinger, envVars>>

\* A server stops answering pings with status 200, or does so again.
Flip(e) ==
  /\ flips < MaxFlips
  /\ flips' = flips + 1
  /\ healthy' = IF e \in healthy THEN healthy \ {e} ELSE healthy \cup {e}
  /\ UNCHANGED <<weight, nextVars, shutdown, request, pingVars, stale>>

-----------------------------------------------------------------------------
PingStep(p) == PingReply(p) \/ PingCheck(p) \/ PingUpdate(p)

Next ==
  \/ Look \/ ServerStops \/ Shutdown \/ ShutdownNext \/ Tick \/ PingerStops
  \/ \E r \in Request : Arrive(r) \/ TakeNext(r) \/ RoundTrip(r) \/ MarkDown(r)
  \/ \E p \in Ping : PingReply(p) \/ PingCheck(p) \/ PingUpdate(p)
  \/ \E e \in Entry : Flip(e)

Spec == Init /\ [][Next]_vars

\* Goroutines that can run do run, the pinger ticks, and round trips end.
\* Nothing is assumed of requests, of servers or of who calls Shutdown.
FairSpec ==
  /\ Spec
  /\ WF_vars(Look) /\ WF_vars(ServerStops) /\ WF_vars(ShutdownNext)
  /\ WF_vars(Tick) /\ WF_vars(PingerStops)
  /\ \A r \in Request : WF_vars(TakeNext(r)) /\ WF_vars(RoundTrip(r)) /\ WF_vars(MarkDown(r))
  /\ \A p \in Ping : WF_vars(PingStep(p))

-----------------------------------------------------------------------------
(* Properties.                                                             *)

\* The type of every variable.
TypeOK ==
  /\ weight \in [Entry -> Weights \cup {0, 1}]
  /\ next \in Entry
  /\ loopCount \in 0 .. 2*N+1
  /\ serverPC \in {"look", "offer", "stopped"}
  /\ shutdown \in {"no", "next", "returned"}
  /\ request \in [Request -> RequestState]
  /\ pinger \in {"select", "stopped"}
  /\ pings \in [Ping -> PingState]
  /\ healthy \subseteq Entry
  /\ flips \in 0..MaxFlips
  /\ fallback \in BOOLEAN
  /\ seenDown \subseteq Entry
  /\ stale \in [Entry -> Nat]

\* An entry that is down is offered only after every entry of the pool has been
\* found down since the previous offer, however the weights changed meanwhile.
FallbackOnlyWhenAllDown == serverPC = "offer" /\ fallback => seenDown = Entry

\* The offer waits for a taker without the mutex, so it may be taken after the
\* entry has been marked down; this happens to one request only, until a ping
\* marks the entry as up again.
OneStaleDelivery == \A e \in Entry : stale[e] <= 1

\* Next() returns: a request gets an entry even when every server is down,
\* until the pool is shut down.
NextAnswers == \A r \in Request : (request[r] = At("next")) ~> (request[r] # At("next") \/ IsShutdown)

\* Pings that overtake one another and failed requests, whether late or of a
\* healthy server, do not matter in the end: when the servers stop changing, the
\* weight of an entry that is pinged comes to say whether its server is healthy.
PingsConverge ==
  \A e \in Pingable : <>[](IsShutdown \/ (weight[e] > 0 <=> e \in healthy))

\* After Shutdown both goroutines of the pool end.
GoroutinesStop == IsShutdown ~> (serverPC = "stopped" /\ pinger = "stopped")

\* Shutdown returns when the pool is no longer active: no request is in it.
\* The comment on Shutdown warns of a deadlock in the other case only.
ShutdownReturns ==
  (shutdown = "next" /\ \A r \in Request : request[r] \in {At("new"), At("done")})
    ~> (shutdown = "returned" \/ \E r \in Request : request[r] \notin {At("new"), At("done")})
=============================================================================
