----------------------------- MODULE BufferPool -----------------------------
(***************************************************************************)
(* BufferPool and WriteBufferPool, and the two places that use them: the   *)
(* server's connection handlers, which take a reader and a writer each,    *)
(* and StringBodyFilter, which reads request bodies through readers of a   *)
(* pool of its own.  A behaviour is about one of the two, as use says.     *)
(*                                                                         *)
(* What matters of a bufio.Reader is what it carries from one user to the  *)
(* next: unread bytes, and an error that it keeps for the read after the   *)
(* one it arrived with.  A byte is <<user, index in the user's stream>>,   *)
(* so that every byte read tells whose it was.                             *)
(***************************************************************************)
EXTENDS Integers, Sequences

CONSTANTS
  Connection, \* the connections of the server, the users of its two pools
  Post,      \* requests with a body, the users of a StringBodyFilter's pool
  PoolSize,  \* capacity of the channel of a pool
  MaxForm,   \* maxFormSize
  Bodies,    \* the bodies of requests: sequences of "x" and "nul"
  Streams    \* what connections send: sequences of "get", "post" and "body",
             \* the single piece of body that belongs to the "post" before it

User == Connection \cup Post

ASSUME BufferAssumption ==
  /\ PoolSize \in Nat /\ MaxForm \in Nat
  /\ \A b \in Bodies : b \in Seq({"x", "nul"})
  /\ \A s \in Streams : s \in Seq({"get", "post", "body"})

None == "none"

\* A bufio.Writer with nothing buffered and no error kept.
Clean == [pending |-> {}, err |-> None]

VARIABLES
  use,       \* "server" or "filter"
  returns,   \* how often the program returns the buffer of one request
  data,      \* per user: what its source delivers
  pos,       \* per user: how much of data has been read from the source
  pool,      \* BufferPool.pool
  source,    \* per entry: the user it reads from; an entry is named by the
             \* user it was created for
  buffer,    \* per entry: bytes in the bufio.Reader
  kept,      \* per entry: None, or the error the bufio.Reader has kept
  pc,        \* per user: where its goroutine is
  bpe,       \* per user: its entry
  got,       \* per user: the bytes that were read for it
  returned,  \* per user: ReturnBuffer calls
  bodyLeft,  \* per connection: its current request's body has an unread piece
  loose,     \* connections whose request another goroutine has, to read the body
  panicked,  \* connections whose handler panicked
  closed,    \* connections that have been closed
  ended,     \* history: users whose own source has returned an error
  writerPool, \* WriteBufferPool.pool: the state of each bufio.Writer in it
  wbpe       \* per connection: the state of its writer: pending holds the
             \* connections whose output is buffered, err is None or whose
             \* socket it was that failed

configVars == <<use, returns, data>>
readerVars == <<pos, source, buffer, kept, ended>>
bodyVars   == <<bodyLeft, loose, panicked, closed>>
writerVars == <<writerPool, wbpe>>
vars == <<configVars, readerVars, pool, pc, bpe, got, returned, bodyVars, writerVars>>

Goto(u, to) == pc' = [pc EXCEPT ![u] = to]

-----------------------------------------------------------------------------
Init ==
  /\ \/ /\ use = "server"
        /\ returns = 0
        /\ data \in {d \in [User -> Streams \cup {<<>>}] :
                      \A u \in User : d[u] = <<>> <=> u \notin Connection}
     \/ /\ use = "filter"
        /\ returns \in 0..2
        /\ data \in {d \in [User -> Bodies \cup {<<>>}] :
                      \A u \in User : d[u] = <<>> <=> u \notin Post}
  /\ pos = [u \in User |-> 0]
  /\ pool = <<>>
  /\ source = [e \in User |-> e]
  /\ buffer = [e \in User |-> <<>>]
  /\ kept = [e \in User |-> None]
  /\ pc = [u \in User |-> "new"]
  /\ bpe = [u \in User |-> u]
  /\ got = [u \in User |-> <<>>]
  /\ returned = [u \in User |-> 0]
  /\ bodyLeft = {}
  /\ loose = {}
  /\ panicked = {}
  /\ closed = {}
  /\ ended = {}
  /\ writerPool = <<>>
  /\ wbpe = [u \in User |-> Clean]

-----------------------------------------------------------------------------
(* BufferPool and WriteBufferPool.                                         *)

\* Take: an entry of the pool, drained and made to read from the new source; a
\* kept error stays.  An empty pool gives a new entry.
TakeUndrained(u) ==
  IF pool = <<>>
    THEN UNCHANGED <<pool, bpe, source, buffer>>
    ELSE /\ bpe' = [bpe EXCEPT ![u] = Head(pool)]
         /\ pool' = Tail(pool)
         /\ source' = [source EXCEPT ![Head(pool)] = u]
         /\ UNCHANGED buffer

Take(u) ==
  IF pool = <<>>
    THEN UNCHANGED <<pool, bpe, source, buffer>>
    ELSE /\ bpe' = [bpe EXCEPT ![u] = Head(pool)]
         /\ pool' = Tail(pool)
         /\ source' = [source EXCEPT ![Head(pool)] = u]
         /\ buffer' = [buffer EXCEPT ![Head(pool)] = <<>>]

\* Give: a full pool discards the entry.
Give(u) == pool' = IF Len(pool) < PoolSize THEN Append(pool, bpe[u]) ELSE pool

\* WriteBufferPool.Take; its writers are not cleaned here ...
TakeWriter(u) ==
  IF writerPool = <<>>
    THEN UNCHANGED <<writerPool, wbpe>>
    ELSE /\ wbpe' = [wbpe EXCEPT ![u] = Head(writerPool)]
         /\ writerPool' = Tail(writerPool)

\* ... but must have nothing buffered and flush without error to be kept.
GiveWriterUnflushed(u) ==
  writerPool' = IF wbpe[u].pending = {} /\ Len(writerPool) < PoolSize
                  THEN Append(writerPool, wbpe[u]) ELSE writerPool

GiveWriter(u) ==
  writerPool' = IF wbpe[u] = Clean /\ Len(writerPool) < PoolSize
                  THEN Append(writerPool, wbpe[u]) ELSE writerPool

-----------------------------------------------------------------------------
(* The bufio.Reader.                                                       *)

\* A body is read through a LimitReader of maxFormSize+1.
Limit(s) == IF use = "filter" /\ Len(data[s]) > MaxForm + 1
              THEN MaxForm + 1 ELSE Len(data[s])

\* fill: one Read of the source, whatever the source of the entry is by now.
\* It returns some bytes, or an error, or an error along with the last bytes, as
\* an http body and a TLS connection may do.  EOF comes at the end of the source
\* or at the limit; anything else that ends the reading may come earlier.
Fill(e) ==
  LET s == source[e]
      available == IF s \in closed THEN 0 ELSE Limit(s) - pos[s]
  IN
  /\ kept[e] = None
  /\ \E n \in 0..available, end \in {None, "EOF", "error"} :
       /\ n > 0 \/ end # None
       /\ end = "EOF" => s \notin closed /\ n = available
       /\ end = "error" => n < available \/ Limit(s) = Len(data[s])
       /\ pos' = [pos EXCEPT ![s] = @ + n]
       /\ buffer' = [buffer EXCEPT ![e] = @ \o [i \in 1..n |-> <<s, pos[s] + i>>]]
       /\ kept' = [kept EXCEPT ![e] = end]
       /\ ended' = IF end = None THEN ended ELSE ended \cup {s}
  /\ UNCHANGED source

Kind(b) == data[b[1]][b[2]]

\* readErr: the kept error is returned, once.
ReadErr(e) == kept' = [kept EXCEPT ![e] = None]

-----------------------------------------------------------------------------
(* StringBodyFilter.                                                       *)

NulAt(bytes) == {i \in DOMAIN bytes : Kind(bytes[i]) = "nul"}

FirstNul(bytes) == CHOOSE i \in NulAt(bytes) : \A j \in NulAt(bytes) : i <= j

\* A POST or PUT with a body that is not multipart; other requests pass by.
TakeForBody(u) ==
  /\ use = "filter" /\ u \in Post
  /\ pc[u] = "new"
  /\ Take(u)
  /\ Goto(u, "reading")
  /\ UNCHANGED <<configVars, pos, kept, ended, got, returned, bodyVars, writerVars>>

\* ReadBytes(0) fills the buffer while it holds no NUL and no error is kept.
FillForBody(u) ==
  /\ pc[u] = "reading"
  /\ NulAt(buffer[bpe[u]]) = {}
  /\ Fill(bpe[u])
  /\ UNCHANGED <<configVars, pool, pc, bpe, got, returned, bodyVars, writerVars>>

ReadBytesIgnoringErrors(u) ==
  LET e == bpe[u] IN
  /\ pc[u] = "reading"
  /\ NulAt(buffer[e]) = {}
  /\ kept[e] # None
  /\ got' = [got EXCEPT ![u] = buffer[e]]
  /\ buffer' = [buffer EXCEPT ![e] = <<>>]
  /\ ReadErr(e)
  /\ Goto(u, "installed")
  /\ UNCHANGED <<configVars, pos, source, ended, pool, bpe, returned, bodyVars, writerVars>>

\* It returns at a NUL with what precedes it, the NUL included; otherwise with
\* everything and the kept error.  EOF is as good as a NUL; after another error
\* the body stays as it was and the entry is not given back.
ReadBytes(u) ==
  LET e == bpe[u] IN
  /\ pc[u] = "reading"
  /\ \/ /\ NulAt(buffer[e]) # {}
        /\ got' = [got EXCEPT ![u] = SubSeq(buffer[e], 1, FirstNul(buffer[e]))]
        /\ buffer' = [buffer EXCEPT ![e] = SubSeq(@, FirstNul(@) + 1, Len(@))]
        /\ Goto(u, "installed")
        /\ UNCHANGED kept
     \/ /\ NulAt(buffer[e]) = {}
        /\ kept[e] # None
        /\ got' = [got EXCEPT ![u] = buffer[e]]
        /\ buffer' = [buffer EXCEPT ![e] = <<>>]
        /\ ReadErr(e)
        /\ Goto(u, IF kept[e] = "EOF" THEN "installed" ELSE "ignored")
  /\ UNCHANGED <<configVars, pos, source, ended, pool, bpe, returned, bodyVars, writerVars>>

\* ReturnBuffer, called by the program or by FilterResponse: the request's Body
\* is a *StringBody once it has been installed, and for ever.
ReturnBuffer(u) ==
  /\ pc[u] = "installed"
  /\ returned[u] < returns
  /\ returned' = [returned EXCEPT ![u] = @ + 1]
  /\ Give(u)
  /\ UNCHANGED <<configVars, readerVars, pc, bpe, got, bodyVars, writerVars>>

-----------------------------------------------------------------------------
(* The connection handler.                                                 *)

HandlerTake(u) ==
  /\ use = "server" /\ u \in Connection
  /\ pc[u] = "new"
  /\ Take(u)
  /\ TakeWriter(u)
  /\ Goto(u, "peek")
  /\ UNCHANGED <<configVars, pos, kept, ended, got, returned, bodyVars>>

\* Reading a request, or closing the body of one that has some left, needs bytes.
FillForRequest(u) ==
  /\ \/ pc[u] \in {"peek", "read"}
     \/ pc[u] = "pipeline" /\ u \in bodyLeft
  /\ buffer[bpe[u]] = <<>>
  /\ Fill(bpe[u])
  /\ UNCHANGED <<configVars, pool, pc, bpe, got, returned, bodyVars, writerVars>>

\* Peek(1) of an empty buffer returns the kept error, which the handler ignores
\* and which is thereby gone.
PeekNothing(u) ==
  /\ pc[u] = "peek"
  /\ Goto(u, "read")
  /\ UNCHANGED <<kept, configVars, pos, source, buffer, ended, pool, bpe, got, returned,
                 bodyVars, writerVars>>

Peek(u) ==
  /\ pc[u] = "peek"
  /\ \/ buffer[bpe[u]] # <<>> /\ UNCHANGED kept
     \/ buffer[bpe[u]] = <<>> /\ kept[bpe[u]] # None /\ ReadErr(bpe[u])
  /\ Goto(u, "read")
  /\ UNCHANGED <<configVars, pos, source, buffer, ended, pool, bpe, got, returned,
                 bodyVars, writerVars>>

\* The next byte of the entry goes to u.
Consume(u) ==
  /\ buffer[bpe[u]] # <<>>
  /\ got' = [got EXCEPT ![u] = Append(@, Head(buffer[bpe[u]]))]
  /\ buffer' = [buffer EXCEPT ![bpe[u]] = Tail(@)]

\* http.ReadRequest finds a request, or something that is none.
ReadRequest(u) ==
  /\ pc[u] = "read"
  /\ Consume(u)
  /\ LET kind == Kind(Head(buffer[bpe[u]])) IN
     /\ Goto(u, IF kind = "body" THEN "close" ELSE "pipeline")
     /\ bodyLeft' = IF kind = "post" THEN bodyLeft \cup {u} ELSE bodyLeft
  /\ UNCHANGED <<configVars, pos, source, kept, ended, pool, bpe, returned, loose,
                 panicked, closed, writerVars>>

ReadFails(u) ==
  /\ pc[u] = "read"
  /\ buffer[bpe[u]] = <<>>
  /\ kept[bpe[u]] # None
  /\ ReadErr(bpe[u])
  /\ Goto(u, "close")
  /\ UNCHANGED <<configVars, pos, source, buffer, ended, pool, bpe, got, returned,
                 bodyVars, writerVars>>

\* A filter of the pipeline hands the request to another goroutine, as HandlerFilter
\* does to that of its handler and Upstream to its http.Transport, which may go on
\* with the body after it has returned a response ...
StartHandler(u) ==
  /\ pc[u] = "pipeline"
  /\ u \in bodyLeft
  /\ loose' = loose \cup {u}
  /\ UNCHANGED <<configVars, readerVars, pool, pc, bpe, got, returned, bodyLeft,
                 panicked, closed, writerVars>>

\* ... and that goroutine may read the body through the connection's entry, at any
\* time until the body has been closed.
ReadBody(u) ==
  /\ u \in loose \cap bodyLeft
  /\ \/ /\ Consume(u)
        /\ UNCHANGED <<pos, source, kept, ended>>
        /\ bodyLeft' = bodyLeft \ {u}
     \/ /\ buffer[bpe[u]] = <<>>
        /\ Fill(bpe[u])
        /\ UNCHANGED <<bodyLeft, got>>
     \/ /\ buffer[bpe[u]] = <<>>
        /\ kept[bpe[u]] # None
        /\ ReadErr(bpe[u])
        /\ bodyLeft' = bodyLeft \ {u}
        /\ UNCHANGED <<pos, source, buffer, ended, got>>
  /\ UNCHANGED <<configVars, pool, pc, bpe, returned, loose, panicked, closed, writerVars>>

\* A filter panics, and the server has a PanicHandler: the body is not closed.
Panic(u) ==
  /\ pc[u] = "pipeline"
  /\ panicked' = panicked \cup {u}
  /\ Goto(u, "close")
  /\ UNCHANGED <<configVars, readerVars, pool, bpe, got, returned, bodyLeft, loose,
                 closed, writerVars>>

\* The end of handlerExecutePipeline: Body.Close() discards what is left.
CloseBody(u) ==
  /\ pc[u] = "pipeline"
  /\ \/ u \notin bodyLeft /\ UNCHANGED <<got, buffer, kept>>
     \/ u \in bodyLeft /\ Consume(u) /\ UNCHANGED kept
     \/ /\ u \in bodyLeft
        /\ buffer[bpe[u]] = <<>>
        /\ kept[bpe[u]] # None
        /\ ReadErr(bpe[u])
        /\ UNCHANGED <<got, buffer>>
  /\ bodyLeft' = bodyLeft \ {u}
  /\ loose' = loose \ {u}
  /\ Goto(u, "write")
  /\ UNCHANGED <<configVars, pos, source, ended, pool, bpe, returned, panicked, closed, writerVars>>

\* A bufio.Writer that has kept an error swallows all output.
Output(u, p) ==
  wbpe' = [wbpe EXCEPT ![u] =
    IF @.err # None THEN @
    ELSE CASE p = "sent"     -> Clean
           [] p = "failed"   -> [pending |-> @.pending \cup {u}, err |-> u]
           [] p = "direct"   -> [pending |-> {}, err |-> u]
           [] p = "panicked" -> [pending |-> @.pending \cup {u}, err |-> None]]

\* handlerWriteResponse: written and flushed; or the client has gone and a flush
\* fails, or a write that bypassed the buffer, which nobody notices; or the
\* response's body panics.  The loop goes on or not, as keepAlive says.
WriteResponse(u) ==
  /\ pc[u] = "write"
  /\ \E p \in {"sent", "failed", "direct", "panicked"} :
       /\ Output(u, p)
       /\ \/ p # "panicked" /\ Goto(u, "peek")
          \/ Goto(u, "close")
  /\ UNCHANGED <<configVars, readerVars, pool, bpe, got, returned, bodyVars, writerPool>>

\* The deferred calls: c.Close(), then the writer is given back, then the reader.
CloseConnection(u) ==
  /\ pc[u] = "close"
  /\ closed' = closed \cup {u}
  /\ Goto(u, "giveWriter")
  /\ UNCHANGED <<configVars, readerVars, pool, bpe, got, returned, bodyLeft, loose,
                 panicked, writerVars>>

GiveWriterBack(u) ==
  /\ pc[u] = "giveWriter"
  /\ GiveWriter(u)
  /\ Goto(u, "give")
  /\ UNCHANGED <<configVars, readerVars, pool, bpe, got, returned, bodyVars, wbpe>>

GiveBack(u) ==
  /\ pc[u] = "give"
  /\ Give(u)
  /\ Goto(u, "done")
  /\ UNCHANGED <<configVars, readerVars, bpe, got, returned, bodyVars, writerVars>>

-----------------------------------------------------------------------------
Next ==
  \E u \in User :
    \/ TakeForBody(u) \/ FillForBody(u) \/ ReadBytes(u) \/ ReturnBuffer(u)
    \/ HandlerTake(u) \/ FillForRequest(u) \/ Peek(u) \/ ReadRequest(u)
    \/ ReadFails(u) \/ StartHandler(u) \/ ReadBody(u) \/ Panic(u) \/ CloseBody(u)
    \/ WriteResponse(u) \/ CloseConnection(u) \/ GiveWriterBack(u) \/ GiveBack(u)

Spec == Init /\ [][Next]_vars

-----------------------------------------------------------------------------
(* Properties.                                                             *)

\* A reader may be in two hands: a program that calls ReturnBuffer and inserts
\* the filter's FilterResponse too gives a request's entry to the pool twice;
\* and a panic leaves the body of the request open for the goroutine
\* of a HandlerFilter or of a http.Transport, while the connection's entry goes to
\* the next connection.
InTwoHands == returns > 1 \/ panicked \cap loose # {}

\* Nobody reads bytes that were meant for another, or misses some of his own:
\* what was read for a user are the first bytes of his own stream, in order,
\* whatever earlier users of the entry left in it.
OwnBytes ==
  ~InTwoHands =>
    \A u \in User : got[u] = [i \in 1..Len(got[u]) |-> <<u, i>>]

\* What StringBodyFilter should read: up to the first NUL, or to the limit.
Wanted(u) ==
  LET upTo == {i \in DOMAIN data[u] : data[u][i] = "nul"} \cup {Len(data[u]), MaxForm + 1}
      last == CHOOSE i \in upTo : \A j \in upTo : i <= j
  IN  [i \in 1..last |-> <<u, i>>]

\* A body that has been replaced is complete up to its first NUL or the limit
\* of maxFormSize+1.  The exception is an entry that has kept the EOF of an
\* earlier body with a NUL: it makes the whole body of a later request vanish.
BodyComplete ==
  ~InTwoHands =>
    \A u \in User :
      pc[u] = "installed" =>
        \/ got[u] = Wanted(u)
        \/ got[u] = <<>> /\ \E v \in User \ {u} : \E i \in DOMAIN data[v] : data[v][i] = "nul"

\* An error that an earlier connection left in the reader is dropped by the first
\* Peek and never reaches the next: whatever error the reader keeps while the
\* connection reads requests and bodies came from the connection's own source, and
\* it is closed without a request only when that source ended or sent no request.
NoInheritedError ==
  use = "server" /\ ~InTwoHands =>
    \A u \in User :
      /\ pc[u] \in {"read", "pipeline", "write", "close"} /\ kept[bpe[u]] # None => u \in ended
      /\ pc[u] \in {"close", "giveWriter", "give", "done"} /\ got[u] = <<>> => u \in ended

\* A writer carries nothing from one connection to the next: what it would
\* flush is the connection's own output, and it swallows responses only after
\* the connection's own socket failed, although errors of the writer are ignored.
WriterIsClean ==
  \A u \in User : wbpe[u].pending \subseteq {u} /\ wbpe[u].err \in {None, u}
=============================================================================
