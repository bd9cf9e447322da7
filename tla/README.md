# A verification development for falcore

TLA+ models of [falcore](../src/README.md), a framework for modular HTTP servers in Go, with the TLC
configurations that check them on small instances and TLAPS proofs for every value of their constants.
Every definition is translated from the code in `src/`; `PROJECT.json` maps each one to its lines.

1. [The system](#1-the-system)
2. [Modules and how they correspond to the code](#2-modules-and-how-they-correspond-to-the-code)
3. [Runs: what is checked, on which instance](#3-runs-what-is-checked-on-which-instance)
4. [Proofs](#4-proofs)
5. [Findings](#5-findings)
6. [What is not modelled](#6-what-is-not-modelled)
7. [Plan](#7-plan)

## 1. The system

A program builds a `Pipeline` of filters, gives it to a `Server` and calls `ListenAndServe`. The server
accepts connections, each with a goroutine of its own (`handler`) that reads requests, executes the
pipeline on every one of them, and writes the response that comes out. Request filters may be anything;
those that falcore brings include a throttled round trip to an upstream server, a pool of such servers,
a rate limiter and a wrapper for `http.Handler`. Response filters change the response on its way back.

    client -- TCP --> Server.serve --go--> Server.handler <--deadline-- Server.sentinel
                        ^ stopAccepting (closed channel)     |
                                                             v
      Request (stages) <-- Pipeline.execute -- Router / nested Pipeline / RequestFilter
                                 |                              |        \
                                 | response                     |         Throttler (tickers)
                                 v                              |
                           Pipeline.down                        +-- HandlerFilter --go--> http.Handler
                           EtagFilter, CompressionFilter --go-->+-- UpstreamPool --> Upstream --> server
                                 |                                   ^ nextServer, pinger, pings (goroutines)
                                 v
                        handlerWriteResponse --> client

      Upstream --> http.Transport --> UpstreamTransport.dial (address cache) --> server
      Server.handler, StringBodyFilter --> BufferPool, WriteBufferPool (entries that outlive their users)
      operator --HUP--> old process --fork, listening socket--> new process --USR1--> old process: StopAccepting

### Components

| Component | State | Operations | Hard because |
|---|---|---|---|
| `Server` (`server.go`) | listener, `stopAccepting` channel, `handlerWaitGroup`; per connection `keepAlive`, `closeSentinelChan`, read deadline | `FdListen`, `ListenAndServe(TLS)`, `serve`, `handler`, `sentinel`, `connectionFinished`, `StopAccepting`, `SocketFd`, `ServeHTTP` | three goroutines per connection or server race with the stop; panics unwind through deferred calls; clients idle, stall, leave |
| `Pipeline`, `Router` (`pipeline.go`, `router.go`, `router/`) | two lists of `interface{}` | `execute`, `execFilter`, `down`, `SelectPipeline` | recursion: a nested pipeline's result decides what its parents do |
| `Request` (`request.go`) | `PipelineStageStats`, `CurrentStage`, `connection`, times | `startPipelineStage`, `finishPipelineStage`, `finishRequest` | one "current" stage shared by all levels of the recursion |
| `continueReader` (`continue.go`) | `req`, `opened` | `Read`, `Close` | read by a handler's goroutine, closed by the server's |
| `HandlerFilter` (`filter/handler_filter.go`) | response channel, pipe, `sentResponse` | `FilterRequest`, `Write`, `WriteHeader`, `finish` | the handler goes on after its response has been returned |
| `Upstream` (`filter/upstream.go`) | `throttleMax`, `throttleInFlight`, `throttleQueue`, a condition variable | `FilterRequest`, `SetMaxConcurrent`, `QueueLength`, `ping` | waiters and newcomers compete for slots; the limit changes under them |
| `UpstreamPool` (`filter/upstream_pool.go`) | weights, `rr_count`, an unbuffered channel, `shutdown`, a pinger | `Next`, `FilterRequest`, `updateUpstream`, `Shutdown`, `pingUpstreams` | the entry is chosen before it is asked for; pings overlap; everyone writes weights |
| `Throttler` (`filter/throttle.go`) | `ticker`, `tickerClose`, `count` | `FilterRequest`, `SetRPS`, `Pending` | fields read without the lock while `SetRPS` replaces them |
| `CompressionFilter`, `EtagFilter` (`filter/compression.go`, `filter/etag.go`) | a pipe and a copying goroutine | `FilterResponse` | closing order between goroutines; who closes a body that was replaced |
| `FileFilter` (`filter/file_filter.go`) | an open file | `FilterRequest` | whoever replaces or skips the body must close it |
| Buffer pools, `StringBodyFilter` (`buffer_pool.go`, `write_buffer_pool.go`, `filter/string_body.go`) | a channel of reusable buffers; a request body that can be read again | `Take`, `Give`; `ReturnBuffer` | an entry carries bytes and errors from one user to the next; panics and double returns leave it in two hands |
| `UpstreamTransport` (`filter/upstream_transport.go`) | cached address and its time, deadlines | `lookupIp`, `dial`, `timeoutConnWrapper.Write` | the cache has no lock; deadlines are set by writes only |
| Hot restart (`examples/hot_restart`) | the signal goroutine of each process, the inherited socket | `handleSignals`, `forker`, `childReady` | signals get lost, children fail, restarts overlap |
| helpers, date filter, logger, `setNoDelay`, other examples | - | - | - |

### Interactions

Calls: server → pipeline → filters, all on the connection's goroutine. Channels: `stopAccepting` (closed once,
seen by `serve`, every handler and every sentinel), `closeSentinelChan` (handler → its sentinel),
`nextUpstream` and `shutdown` (pool), `tickerClose` (throttler), the response channel of `HandlerFilter`,
`io.Pipe`s for bodies, the channels of the buffer pools, signals between processes. Shared memory under a mutex or not: weights, throttle counters, the throttler's fields,
`continueReader.req`, the cached address of `UpstreamTransport`, a buffer entry that two users hold. Time: `Accept`'s 3 s deadline, the read deadline 3 s after a stop, the pinger's ticker, the
throttler's tickers, the optional transport timeout.

### What makes the components correct

* Server: a stop drains. `ListenAndServe` returns only when no accepted connection is being served; little new
  work is admitted after the stop; the drain ends although clients are idle; panics are contained; no goroutine leaks.
* Pipeline: the first response is final; it passes exactly the response filters of the pipelines around the
  filter that made it, inside out; stages are started and finished in pairs.
* Bodies: what is written to its end is complete and, but for four places, did not break off; every source is closed; no goroutine waits for ever for another one.
* Upstream: no request beyond the limit, no lost wakeup, exact counters, nobody waits beside a free slot.
* Pool: an entry that is down is a last resort; a stale offer does little harm; pings converge; shutdown ends everything.
* Throttler: sleepers learn of a new rate; the count of pending requests is exact.
* Buffers: nobody reads another's bytes, sends another's output or suffers another's error.
* Transport: no half-written address is dialled, no older one than has been in use; a timeout ends a round trip.
* Hot restart: at every moment some process accepts; one restart never kills the process that drains; it completes.

## 2. Modules and how they correspond to the code

| Module | Models | Extends / instantiates |
|---|---|---|
| `GracefulServer` | abstract promise of a server with a graceful stop | - |
| `Server` | `server.go`: accept loop, handlers, sentinels, stop | `INSTANCE GracefulServer` (refinement) |
| `ServerProofs` | proofs about `Server`, and about `HotRestart` on top of it | `HotRestart` |
| `Pipeline` | `pipeline.go`, `router.go`, stages of `request.go`, the server's frame around them | - |
| `PipelineProofs` | proofs about `Pipeline` | `Pipeline` |
| `ResponseBody` | `handler_filter.go`, `file_filter.go`, `upstream.go` 72-131, `etag.go`, `compression.go`, `continue.go`, and what the server (`ServeHTTP`, too) does with bodies, composed | - |
| `ResponseBodyProofs` | proofs about `ResponseBody` | `ResponseBody` |
| `RequestLimiter` | abstract promise of the throttle | - |
| `Upstream` | the throttle of `upstream.go` | `INSTANCE RequestLimiter` (refinement) |
| `UpstreamProofs` | proofs about `Upstream` | `Upstream` |
| `UpstreamPool` | `upstream_pool.go` and the outcome of `Upstream.ping` | - |
| `UpstreamPoolProofs` | proofs about `UpstreamPool` | `UpstreamPool` |
| `UpstreamTransport` | `upstream_transport.go` | - |
| `UpstreamTransportProofs` | proofs about `UpstreamTransport` | `UpstreamTransport` |
| `Throttler` | `throttle.go` | - |
| `ThrottlerProofs` | proofs about `Throttler` | `Throttler` |
| `BufferPool` | `buffer_pool.go`, `write_buffer_pool.go` with their users: the handlers of `server.go`, `string_body.go` | - |
| `BufferPoolProofs` | proofs about `BufferPool` | `BufferPool` |
| `HotRestart` | `examples/hot_restart`, composed with the server that restarts | `Server` |
| `MCServer`, `MCHotRestart`, `MCPipeline`, `MCUpstream`, `MCUpstreamPool`, `MCUpstreamTransport`, `MCThrottler`, `MCBufferPool` | constants for TLC | the module named |

Definitions whose comment does not speak of the code and whose name says what they get wrong
(`AcceptWithoutAdd`, `ReleaseSignallingWhenFull`, ...) are not part of any specification: each is a plausible bug that one
property of a run detects, and `PROJECT.json` "mutants" says which.

**Server.** `servePC` is the position in `serve`, `pc[c]` in the handler of connection `c`, `sentinel[c]` in its
sentinel. `listener` tells what kind it is: `FdListen` may adopt a Unix socket, which it rejects with an error but keeps. A channel that is only ever closed is a Boolean or a set (`stopAccepting` is `stops > 0`; `closedChans`).
A request consists of what decides keep-alive, a response of `res.Close`. The deferred calls of a handler are
`ConnectionFinished` and `GiveBuffers`, which run after a panic, too. A read deadline that has passed fails
reads of the socket but not of what is in the `bufio.Reader`, so with a request unread both are possible. Filters
may hang or panic, writes may hang while the client does not read: `Hang`, `Panic`. A second `StopAccepting` panics in
its caller (`closedTwice`), as does `SocketFd` without a listener or with one that TLS wraps (`HasFd`, `socketFd`); an accept error that is no timeout ends the process (`acceptError`).
`GracefulServer` knows connections that are admitted and retired, a stop request and a return, and no mechanism.

**Pipeline.** The recursion of `execute` is the variable `stack`; `pos` is the list element of the loop of `execute` or, once there is
a response, of `down`. A filter returns nil, returns a response or panics; a router returns nil, a filter or a later pipeline
(a pipeline that contains itself recurses for ever if nothing responds, so nesting is well-founded). Lists are `interface{}` lists: an entry
`Other` implements no interface of its list; upstream it is skipped, downstream it ends the list. `Due` are the filters that a response should pass as
documented, and `CutOff` those of them that stand behind an `Other`, which the code leaves out (section 5).
The server adds the completed `server.Init` stage, the 404 and `server.ResponseWrite`.

**HotRestart.** `HotNext` interleaves the actions of `Server`, which is the old process, with its signal goroutine (`sigPC`) and with
the children. `os/signal` sends to the unbuffered channel without waiting: `Deliver` drops a signal that comes while `sigPC` is not
"receive": while it forks (`Fork`), until it is back at the receive (`ForkReturns`), and while it stops. A child that has adopted the socket accepts from the same queue (`ChildAccepts`); what it then does with the connection is `Server` again and is not
repeated. A child may fail to adopt the socket, and die at any time. When `ListenAndServe` returns, main ends and every
goroutine with it (`ParentRuns`). The example was written against an earlier `SocketFd`, which returned the descriptor only; the model follows what it means.

**ResponseBody.** Three goroutines joined by pipes. An `io.Pipe` write is a state of the writer ("offers") that the reader or a
`Close` of the reader ends. A "stream" is the body of an upstream response or a file: it may break off at any time
(`broken`). `eof` says that the response was ended as complete: also by `ServeHTTP` after a break, whose error it drops (`EndedAfterBreak`), and `FixBody` may lose
the break of a file in its probe. `BreakHidden` lists the places that hide a break. `sourceBody` remembers the body that the request filter made, whatever has replaced it since. `status` keeps what the filters test (200, 304 or other). `order` is the list of
response filters, `match` and `compress` the outcomes of the header tests. A panic outside the handler's `PanicHandler`
ends the process.

**Upstream.** Critical sections of `throttleC.L` are atomic. `Wait` is `parked`, then `woken` until the goroutine has
the mutex again, and tests the condition again (the loop). `Release` is the deferred function; the round trip ends or hangs.
`RequestLimiter` knows who waits, who is admitted and the limit, and neither counters nor wakeups.

**UpstreamPool.** `Look` is one iteration of `nextServer` under the mutex, `Deliver` the rendezvous (taken by `TakeNext` or `ShutdownNext`) on `nextUpstream`, in which a select with a
closed `shutdown` may still choose to send. A server is `healthy` when it answers pings with status 200; the round trip of a request may end either way. A ping's read and its write of the weight are two steps, as in the code.
`loopCount` and `next` are kept modulo what matters.

**Throttler.** Steps are accesses to shared fields: `Arrive` reads `ticker` under the lock, `Evaluate` reads `tickerClose`
without it, `Test` reads `ticker` again without it; `SetTicker`, `StoreChannel` and `SignalWaiters` are the three stores of `SetRPS`,
with the lock held from the first to the last (`Locked`). The unlocked reads are data races of word-sized fields: the model lets them see the old or the
new value at any moment between the locked writes.

**BufferPool.** A behaviour is about the server's two pools or about a `StringBodyFilter`'s (`use`). A byte is a pair of its
owner and its index, so that a read shows whose byte it got; an entry keeps its `buffer`, its `source` and its `kept` error, as a `bufio.Reader`
does. `Fill` is one Read of whatever the source is by now. `Peek` swallows the kept error, because `handler` ignores what `Peek(1)` returns: this is what makes reuse safe for the
server, and `StringBodyFilter`, which does not peek, inherits an EOF (exception of `BodyComplete`). Of a `bufio.Writer` the model keeps
whose output is pending and whose socket made it fail. `StartHandler` gives the request to any goroutine but the connection's that may read its body: a
`HandlerFilter`'s, or that of the `http.Transport` of `Upstream`.

**UpstreamTransport.** Each read or write of `tcpaddr`, of a field behind it, or of `tcpaddrCacheTime` is a step; `heap` holds the addresses. Answers of
`LookupIP` are numbered by age. A connection is used by one request at a time, writes set its deadline, and its pending read fails when that passes.
The three races that defeat the cache are history variables (`overlapped`, `expiredLate`) or a configuration (`forever`), and the properties name them as their exceptions:
anything else that led to an incomplete or older address would be found.

## 3. Runs: what is checked, on which instance

| Run | Module, configuration | Checks | Distinct states | Shows |
|---|---|---|---|---|
| `server_safety` | `MCServer`, `MCServer.cfg` | `TypeOK`, `DrainedOnReturn`, `AtMostOneLateRequest`, `AtMostOneLateAccept`, `PanicContained`, `GracefulSpec` | 3,921,540 | Two connections in every interleaving with the accept loop, the sentinels and up to two StopAccepting calls: the stop is graceful, panics are contained, and the server implements GracefulServer. |
| `hot_restart` | `MCHotRestart`, `MCHotRestart.cfg` | `NoOutage`, `OneRestartIsSafe`, `DrainCompletes`, `SentinelsExit`, `RestartCompletes` | 586,418 | A server with one connection is restarted up to twice, with overlapping restarts: somebody always accepts, one restart never closes the stop channel twice, the old process drains and leaks no sentinel, and the restart completes but for the dropped signal. |
| `upstream_throttle` | `MCUpstream`, `MCUpstream.cfg` | `CountersAreExact`, `NoLostWakeup`, `NeverOverAdmits`, `LimiterSpec`, `WaitersAdmitted` | 23,360 | Five requests compete for the throttle while the limit is raised, lowered and lifted and round trips hang: no over-admission, no lost wakeup, the throttle implements RequestLimiter, and everyone is admitted unless hung round trips hold every slot. |
| `pool` | `MCUpstreamPool`, `MCUpstreamPool.cfg` | `FallbackOnlyWhenAllDown`, `OneStaleDelivery`, `NextAnswers`, `PingsConverge`, `GoroutinesStop` | 477,728 | Two entries, one pinged by up to two goroutines at once while its server changes: down entries are handed out only as a last resort, a stale offer is used at most once, Next always answers, overlapping pings and failed requests converge to the truth, and Shutdown ends both goroutines. |
| `pool_shutdown` | `MCUpstreamPool`, `MCPoolShutdown.cfg` | `ShutdownReturns` | violated | Shutdown of an idle pool blocks for ever in its own Next. |
| `throttler` | `MCThrottler`, `MCThrottler.cfg` | `PendingIsExact`, `WatchersHear`, `PassesUnlessOvertaken` | 93,192 | Two requests and three changes of the rate, on and off: the pending count is exact, sleepers hear of the next change, and every request passes but for the two races on the fields. |
| `throttler_signal` | `MCThrottler`, `MCThrottlerSignal.cfg` | `WaitersFollowTicker` | violated | The same races without an exception: a request that reads the ticker before SetRPS and the channel after it waits for a stopped ticker, and one that finds throttling enabled again goes on with a nil ticker and panics. |
| `pipeline` | `MCPipeline`, `MCPipeline.cfg` | `StagesDoNotOverlap`, `DownstreamInsideOut`, `FirstResponseIsFinal` | 183,981 | Three nested pipelines in 1860 configurations, every outcome of every filter and router: the first response is the answer, the response filters of the pipelines around it see it, those behind an alien entry excepted, and stages are started and finished in pairs. |
| `response_body` | `ResponseBody`, `MCResponseBody.cfg` | `NoTruncation`, `SourceClosed`, `ContinueReadSafe`, `ServerFinishes`, `GoroutinesEnd` | 143,586 | All orders of the two response filters over handlers, upstream servers and files, with HEAD, ServeHTTP, clients that leave, streams that break off and 100-continue requests: a body written to its end is complete, and did not break off but in the four places named, every source is closed, nobody waits for ever, no goroutine is left behind. |
| `etag_first` | `ResponseBody`, `MCEtagFirst.cfg` | `EtagFirst` | violated | A 304 of EtagFilter reaches CompressionFilter, whose goroutine reads from a nil body and takes the process down. |
| `buffers` | `MCBufferPool`, `MCBufferPool.cfg` | `OwnBytes`, `BodyComplete`, `NoInheritedError`, `WriterIsClean` | 925,586 | Connections and requests that inherit each other's buffers, with pipelined data, broken sources, panics and buffers returned twice: nobody reads another's bytes, inherits his error or sends his output. |
| `transport` | `MCUpstreamTransport`, `MCUpstreamTransport.cfg` | `CompleteAddress`, `NoGoingBack`, `RoundTripEnds` | 1,854,925 | Two dialling goroutines share the cached address while it expires and the upstream moves: which races are needed to dial an incomplete or an older address, and a timeout ends every round trip. |

`violated` marks the runs of section 5, which exhibit a disagreement between the code and what the repository says. Where a property of another run has to leave such a case
out, it names it: `CutOff` in `DownstreamInsideOut`, `dropped` in `RestartCompletes`, `Overtaken` and the panic in `PassesUnlessOvertaken`, the EOF of a NUL in `BodyComplete`.

`CHECK_DEADLOCK FALSE` stands in every configuration but `MCUpstream.cfg`: a server returns or dies, requests end, a pool, a throttler or a buffer nobody
calls any more is at rest. That they do not stop earlier is what the liveness properties say. The throttle's model never
stops, since its limit may always be set.

### Bounds, and why they are enough

* *server_safety*: two connections (symmetric), one unread request each, two calls of `StopAccepting`. Connections interact
  only through the wait group, the accept loop and the stop; two are the least that can have one finishing while another is
  accepted or active. A second stop call suffices for the double close. `MaxUnread` bounds pipelined requests, not the number of
  requests, which is unbounded because `unread` is refilled. The proofs hold for every number of connections and bound.
* *hot_restart*: one connection with at most one unread request, since handlers do not wait for one another; two children, so that a second restart can overlap the first and a
  second SIGUSR1 can follow; no symmetry, because of the liveness properties. The theorems about safety hold for any number of either.
* *pipeline*: three pipelines, so that a response can come out of depth three and a sibling can follow a nested
  pipeline that declined; outer lists of every kind with up to two entries; downstream lists with none, one, two filters and
  with an alien entry first or in the middle. 1860 configurations.
* *response_body*: two chunks: one that is taken by the first `Write`, which also returns the response, and one later. All combinations of source, order, match, compression, HEAD,
  `ServeHTTP` and 100-continue (a request through `ServeHTTP` has no `continueReader`).
* *upstream_throttle*: five requests with limits -1, 0, 1, 2, 3: the largest limit can be full with two requests left to queue, to be
  signalled and to be overtaken.
* *pool*: two entries, one pinged, at most two pings of it at once, one change of a server (the starting sets are all enumerated), one request. Two overlapping pings are
  needed for the lost update between reading and writing a weight, and one change between them. The proofs hold for pools of every size with any number of requests.
* *pool_shutdown*: the same pool with two requests, one ping and no change, where the deadlock does not need more.
* *throttler*: two requests, three calls to `SetRPS` after the first: enough to disable, enable and replace in every order. For the two races one and
  two calls do (*throttler_signal*).

* *buffers*: two connections, of which the second gets what the first has left in reader and writer; three requests with bodies, because an entry that was returned twice by the first is
  shared by two others; pools of one entry. Streams pipeline two requests, with and without a body; bodies are shorter and longer than the limit, with a NUL at the end and before it.
* *transport*: two connections, so that lookups can overlap each other, the use of the cache and its expiry; the upstream moves once, which is enough to tell an old answer from a new one.

### Fairness

* `Server`: weak fairness of the accept loop, of every handler and of every sentinel: the Go scheduler runs
  goroutines that can run, and deadlines expire, which makes a blocked read or Accept fail. Nothing is assumed of clients, of callers of
  `StopAccepting`, of filters or of writes to the socket: these may `Hang`, and `DrainCompletes` names that exception, together with the TLS listener and the inherited Unix
  socket, which have no deadline.
* `HotRestart`: the same within the old process as long as it runs; signals are delivered (or dropped), the signal goroutine proceeds (and returns from forking), a child that serves gets to signal.
  Nothing is assumed of the operator, or of a child before it serves: it may hang in its start.
* `UpstreamTransport`: deadlines pass and fail the pending reads. Nothing is assumed of the upstream server or of lookups: `RoundTripEnds` is about the use of a connection.
* `Upstream`: a woken goroutine gets the mutex and a round trip that does not hang ends. No strong fairness:
  newcomers may overtake, and `WaitersAdmitted` holds nevertheless because finitely many requests arrive in the instance. With an
  endless stream of them a waiter could be overtaken for ever: the code gives it no place in a queue that newcomers respect.
* `UpstreamPool`: the goroutines run, the ticker ticks, round trips and pings end (the transport's timeout). Nothing is assumed of requests, of how their round trips end, of servers and of Shutdown.
* `Throttler`: goroutines run, `SetRPS` finishes, a running ticker ticks. A request that can take the tick takes it if it always can; that is weak fairness of each request
  on its own ticker's channel, with finitely many competitors.
* `ResponseBody`: the goroutines run and application code returns or panics. Code that does not return is the server's `Hang`.

## 4. Proofs

The theorems hold for every value of the constants that satisfies the named assumptions: finitely many connections
(`ConnAssumption`), natural bounds (`BoundsAssumption`), finitely many requests (`RequestAssumption`), integer limits
(`LimitsAssumption`), well-typed lists with well-founded nesting (`ConfigAssumption`), and the like for the other modules; each is named in its module. Each group rests on one inductive invariant, whose parts are named.

**ServerProofs** (`Inv`): types; `WaitGroupCountsActive`, the counter equals the number of active connections
(without it neither `handlerWaitGroup \in Nat` nor the drained return is inductive); `StopBeforeWait`; `LateRequestIsLast`, after a late request the handler is
past its read and, when it writes, has given up keep-alive; `LateAcceptIsLast`; `PanicRecovered`.

| Theorem | States |
|---|---|
| `TypeCorrect` | `TypeOK`; the wait group's counter is never negative |
| `Drained` | `DrainedOnReturn` |
| `OneLateRequest`, `OneLateAccept` | the bounds on work after the stop |
| `PanicsContained` | `PanicContained` |
| `Refinement` | `Server` implements `GracefulServer`: every step is one of its steps or a stutter |

The second half is about the hot restart. `RestartInv` says that `Inv` holds of the parent until a signal terminates it, since every step of a restart is a step of the server,
changes nothing of it, or takes a connection from its queue (`HotNextCases`). `HandoverInv`: `stops` counts the calls of `StopAccepting`, and a closed-twice death needs two of
them; `FirstSignal`, a SIGUSR1 that is pending, or a stop in progress or done, has a child that signalled; `SecondSignal`, when one stop is done and another is pending or in
progress two children have. The server's own steps touch none of these, which is one lemma.

| Theorem | States |
|---|---|
| `RestartDrains` | `DrainedOnReturn`, for the parent of a restart |
| `RestartRefinement` | the parent of a restart implements `GracefulServer` as well |
| `HandoverWithoutOutage` | `NoOutage` |
| `SingleRestartSafe` | `OneRestartIsSafe` |

**UpstreamProofs** (`Inv` = types, exact counters, no lost wakeup, inductive together: the wakeup argument compares the limit with the counter
and with the number of woken goroutines). The lemmas say how each action moves requests between the sets that are counted.

| Theorem | States |
|---|---|
| `ExactCounters` | `CountersAreExact` |
| `WakeupsNotLost` | `NoLostWakeup` |
| `AdmissionBounded` | `NeverOverAdmits`, an action property |
| `Refinement` | `Upstream` implements `RequestLimiter`, which has sets of requests and no counters: by `RoomIsNotFull` the condition of the loop, which reads a counter, is about the requests in flight |

**PipelineProofs** (`Inv`): types; `Executing`, the stack is not empty while pipelines run; `StagesMatchPC`, the
last stage is open exactly in calls of application code and the final write; `NoResponseUpstream`.

| Theorem | States |
|---|---|
| `TypeCorrect` | `TypeOK` |
| `StagesPaired` | `StagesDoNotOverlap` |
| `FirstResponse` | `FirstResponseIsFinal`, an action property |
| `InsideOut` | `DownstreamInsideOut`: the filters that are due and not cut off are called, inside out |
| `AllFilters` | without an alien entry in the lists of downstream every response filter that is due is called |

`InsideOut` needs `DownstreamInv` besides. Pipelines are nested in pipelines with smaller numbers (`Nested`), so that the order of the numbers is the order of nesting; downstream
the frames are a prefix of the path (`OnPath`); a call that has been made had its turn (`HasTurn`: due, with response filters only in front of it) and is `Passed`, which means that its place is behind the response (`CallsHaveTurn`), and a
place that has its turn and is passed has been called (`TurnsAreCalled`); as far as a list has been processed its entries had their turn (`ReachedHaveTurn`). At the end of a list everything in this pipeline is behind the response (`ListDone`), which makes
"passed" in this frame the same as "passed" in the one around it.

**ResponseBodyProofs** (`Inv`): types; `BeforeResponse`, what cannot have happened before there is a response, and that the server writes only when there is a body; `OneCompressor`, the
compressor starts once, and its pipe is the response's body unless a 304 has replaced it since; `Complete`, the server has everything that was produced, except while a compressor
keeps it; `BreakSeen`, when a source has broken off the server does not have it as its body, but for an empty file, unless its reading has failed, and then the response is ended by `ServeHTTP` only; `SourceHeld`, the source has been closed,
or is the body of the response, or the compressor has it and will close it; `ContinueOnce`, until the server closes the request's body it is nil only if it has been opened.

| Theorem | States |
|---|---|
| `BodiesComplete` | `NoTruncation` |
| `SourcesClosed` | `SourceClosed` |
| `ContinueSafe` | `ContinueReadSafe` |

**UpstreamPoolProofs** (`Inv`): types; `SkippedWereDown`, the last `loopCount` entries before `next`, cyclically, have been found down since the last offer, so
that a count beyond the length of the pool means all of them; `LateIsDown`, an entry with a late delivery is down and not on offer as if it were up.

| Theorem | States |
|---|---|
| `TypeCorrect` | `TypeOK` |
| `FallbackWhenAllDown` | `FallbackOnlyWhenAllDown` |
| `StaleOnce` | `OneStaleDelivery` |

**ThrottlerProofs** (`Inv` = types, the exact count, who watches which channel, and `RoomForChannel`, that `SetRPS` has a channel left to make and then one to close). As in `UpstreamProofs` the lemmas say how each action moves
requests between the sets that are counted.

| Theorem | States |
|---|---|
| `ExactPending` | `PendingIsExact` |
| `NextSetRPSHeard` | `WatchersHear` |
| `TypeCorrect` | `TypeOK` |

**BufferPoolProofs**. For the writers (`WriterInv`): only clean writers are in the pool, and a writer that is in use holds output and errors of its user only.

For the readers (`ReaderInv`), as long as no entry has been in two hands (`InTwoHands`): `TypeOK`; `Places`, where users of each pool can be; `Owned`, which says that an entry belongs to one user
or to the pool, that nothing is named for a user who has not begun, and that what a user has read, what his entry holds and what his source has left are one after the other (`Stream`);
`ReadsOnce`; `Errors`, which says what an entry may keep when it is in the pool (nothing, or the EOF of a body with a NUL), in use, and after the end of a body.
A step of one user through his entry leaves the others alone (`OneUser`, `OneEntry`), so that each part is proved for the user who acts. The first NUL of a body is the least
element of a set of natural numbers, which exists by the well-foundedness of `<` (`Least`); `Run` and its lemmas say how consecutive bytes are appended, taken and split.

| Theorem | States |
|---|---|
| `CleanWriters` | `WriterIsClean` |
| `ReadersKeepApart` | `OwnBytes` |
| `BodiesWhole` | `BodyComplete` |
| `ErrorsStayAtHome` | `NoInheritedError`, which is about the server's readers: an inherited error does not survive the first `Peek`. What one does in a `StringBodyFilter` is in `BodiesWhole` |

**UpstreamTransportProofs** (`Inv`): types, what each goroutine holds, and `OneLookup`, without an overlap one lookup is under way at a time. Then
`FreshIsComplete`, a fresh address is complete and nobody replaces it, for a lookup stores the time last; and `Known` and `LatestStored`, a lookup stores an
answer as new as any that has been stored or dialled, so that who reads the cache does not go back. `FreeAddress` shows by counting that the `CHOOSE` of `Publish` always finds an
address nobody points to.

| Theorem | States |
|---|---|
| `CompleteDials` | `CompleteAddress` |
| `DialsGoForward` | `NoGoingBack` |

Every invariant and every action property that a passing run checks is stated by a theorem. Only model-checked are the liveness properties
(`DrainCompletes`, `SentinelsExit`, `RestartCompletes`, `WaitersAdmitted`, `NextAnswers`, `PingsConverge`, `GoroutinesStop`, `PassesUnlessOvertaken`, `ServerFinishes`, `GoroutinesEnd`,
`RoundTripEnds`: fairness and ENABLED are out of the prover's reach) and the violations of section 5. The induction theorems of the library, which are parameterised by a predicate, are out of reach too; where
a proof needs induction over data it is over a set of natural numbers (`Least`), and properties of sequences are stated by quantifiers over their
indices, as `DownstreamInsideOut` is, and not by folds.

## 5. Findings

Where the code and what the repository says of it disagree. Three have a run that exhibits them, and a property without exceptions.

1. **`UpstreamPool.Shutdown` blocks on an idle pool** (`pool_shutdown`). Its comment warns of a deadlock when the pool is *active*. In an idle
   pool `nextServer` sits in its select, sees the closed channel and returns, and Shutdown's own `Next()` has nobody to receive from. It
   returns only if the select happens to choose the send, or if `nextServer` was busy looking.
2. **Throttled requests miss the change of rate** (`throttler_signal`). `SetRPS` between the locked read of `ticker` and the unlocked read of
   `tickerClose` leaves a request waiting for a stopped ticker and on the new channel. And "If throttling has been disabled, continue" tests the field again, not the
   ticker that was read under the lock: enabled in between, the request goes on with a nil ticker and panics. In `throttler` both are explicit exceptions.
3. **Etag before compression** (`etag_first`). The filter's comment recommends Etag filtering first; the 304 it makes has a nil body, from which
   CompressionFilter's goroutine reads, outside any PanicHandler.

The others are in the models as exceptions that a property of a passing run names, or as transitions:

4. **Response filters are left out** (`CutOff` in `DownstreamInsideOut`). `Pipeline`'s comment (`pipeline.go:13-15`) says that `FilterResponse` is called for ALL ResponseFilters of the
   Downstream list, in order; `down` ends the list at the first entry that is none (a TODO), while `execute` skips such an entry of Upstream. The theorem `AllFilters` says that
   this is the only case.
5. **A restart that does not end the old process** (`dropped` in `RestartCompletes`). `childReady` signals the parent so that it knows that it can exit. The parent's channel has no buffer, and a
   signal that arrives before `handleSignals` is back from forking, in a single restart, too, is dropped: both processes serve on.
6. **A body vanishes** (`BodyComplete`, second disjunct). `StringBodyFilter` keeps the body of a request, which should have no NUL (`string_body.go:11, 53`). One that has leaves its EOF in the
   pooled reader, and a later request, whose body has none, gets an empty one.
7. **A disabled entry is enabled by a ping** (`PingUpdate`). The comment at `upstream_pool.go:30` says that the weight 0 disables a server. The pool uses the same
   field to remember that an entry is down, and the first ping that is answered sets it to 1.

Behaviour that the models contain and on which the repository takes no position: an upstream slot is given back
when the response headers are there, before the body has been streamed; a response filter that panics leaves its body open and the goroutines behind it waiting; the handler of a `HandlerFilter` that reads a
100-continue body after its response was returned can meet a request that has been forgotten (`ContinueReadSafe` says that it is safe before). A body that breaks off is taken for one that
has ended in four places (`BreakHidden`): `ServeHTTP` drops the error of `io.Copy`, the compressor makes a complete stream of it, and the probes of `Upstream` and of the server make an empty body
of one whose first byte cannot be read. A body is cut at its first NUL and at the limit of `StringBodyFilter`.
When all entries of a pool are down, one is offered after `2*len+1` have been skipped: `rr_count` advances by an even number per
delivery, and half of the entries of a pool of even size are never tried. A panic leaves the connection's reader to the next connection while the goroutine of a `HandlerFilter`, or the
`http.Transport` of an `Upstream`, may still read from it (`InTwoHands`). A cached address that is looked up by two goroutines at once, expires at the wrong moment or is kept for ever
may be dialled half-written (a missing IP is the local host). The SIGUSR1s of two children kill the old process with its requests in flight.
`CompletionCallback` runs in a goroutine of its own, which the wait group does not count: a program may exit before the last callback is done.

## 6. What is not modelled

* HTTP parsing and formatting, headers beyond what decides control flow, logging, statistics and the text of `Trace`.
* How the routers of `router/` match hosts and paths: a router may select anything.
* Helpers and `DateFilter` (their results enter the models as responses), the logger (pure output), `setNoDelay` (a system call without
  consequence for the state), and the example programs but hot restart. Of hot restart: SIGTSTP, and signals that arrive before `signal.Notify`.
* What a file's length was when it was opened: a file that shrinks meanwhile is a stream that breaks off. What a keep-alive client makes of a body shorter than declared.
* Memory models weaker than the order of the program's stores, for the unsynchronised accesses of `UpstreamTransport` and `Throttler`.
* A pool whose weights are all negative (`nextServer` spins) or that is empty (it divides by zero); rates above 10^9, for which `NewTicker`
  panics; the overflow of `rr_count`. They are listed under "hazards" where they bite.

## 7. Plan

Done: every component with a state of its own is modelled, checked and proved about: server, hot restart, pipelines, response bodies, throttle, throttler, pool, buffers
and transport. No invariant is left to the model checker alone.

1. An abstract pool of exclusive buffers that `BufferPool` implements as long as nothing is in two hands (`Exclusive` of `BufferPoolProofs` is its invariant).
2. The safety half of the liveness properties: that a state in which nobody can go on is one of the exceptions that they name.
