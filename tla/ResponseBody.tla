---------------------------- MODULE ResponseBody ----------------------------
(***************************************************************************)
(* Where the body of a response comes from and where it goes: FileFilter,  *)
(* HandlerFilter or Upstream produces it, EtagFilter and CompressionFilter *)
(* replace it, the server writes it to the client and closes it.           *)
(*                                                                         *)
(* Up to three goroutines take part: the server's (spc), the one in which  *)
(* HandlerFilter runs the http.Handler (hpc), and the one in which         *)
(* CompressionFilter copies (cpc).  They are joined by io.Pipes: a Write   *)
(* lasts until it is read or the reader is closed, so a goroutine "offers" *)
(* while it is in a Write.  The handler also reads the request's body,     *)
(* which for a 100-continue request is a continueReader, while the server  *)
(* closes it.  Contents are counted in chunks.                             *)
(***************************************************************************)
EXTENDS Naturals, Sequences

CONSTANT MaxChunks   \* bound: chunks in a body

ASSUME MaxChunksAssumption == MaxChunks \in Nat

\* order is the Downstream list; match says that If-None-Match is the response's
\* Etag, compress that CompressionFilter applies, serveHTTP that the request came
\* through Server.ServeHTTP, expect that it has a continueReader for its body,
\* which only a request with a connection of its own has.
Request ==
  {r \in [source : {"handler", "upstream", "file"},
         order : {<<>>, <<"etag">>, <<"compression">>, <<"etag", "compression">>,
                  <<"compression", "etag">>},
         head : BOOLEAN, match : BOOLEAN, compress : BOOLEAN,
         serveHTTP : BOOLEAN, expect : BOOLEAN] : ~(r.serveHTTP /\ r.expect)}

VARIABLES
  request,        \* the request and the configuration, as above
  process,        \* "running", or the panic that ended the process
  gone,           \* the client has closed the connection
  spc,            \* the server's goroutine
  left,           \* response filters that have not run yet
  resBody,        \* res.Body
  status,         \* res.StatusCode; "none" until there is one
  hpc,            \* the handler's goroutine
  writes,         \* Writes of the handler so far
  opened,         \* continueReader.opened
  contReq,        \* continueReader.req # nil
  continues,      \* "100 Continue" responses written
  cpc,            \* the compressor's goroutine
  rdr,            \* what it reads: the res.Body that it has replaced
  closedReaders,  \* bodies whose reading end has been closed
  produced,       \* chunks that the source has delivered
  received,       \* chunks that the client can decode
  trailer,        \* the compressed stream has been ended
  eof,            \* the response has been ended as one whose body is at its end
  sourceBody,     \* history: the body that the request filter made or got
  broken          \* history: that body has broken off with an error

serverVars   == <<spc, left, resBody, status>>
handlerVars  == <<hpc, writes>>
continueVars == <<opened, contReq, continues>>
compressVars == <<cpc, rdr>>
histVars     == <<sourceBody, broken>>
bodyVars     == <<produced, received, trailer, eof, histVars>>
vars == <<request, process, gone, serverVars, handlerVars, continueVars,
          compressVars, closedReaders, bodyVars>>

\* HandlerFilter has returned the response: populateResponse.sentResponse.
sentResponse == spc \notin {"request", "wait"}

Init ==
  /\ request \in Request
  /\ process = "running"
  /\ gone = FALSE
  /\ spc = "request" /\ left = request.order /\ resBody = "nil" /\ status = "none"
  /\ hpc = "none" /\ writes = 0
  /\ opened = FALSE /\ contReq = TRUE /\ continues = 0
  /\ cpc = "none" /\ rdr = "nil"
  /\ closedReaders = {}
  /\ produced = 0 /\ received = 0 /\ trailer = FALSE /\ eof = FALSE
  /\ sourceBody = "nil" /\ broken = FALSE

\* The client closes its connection.
Leave ==
  /\ ~gone
  /\ gone' = TRUE
  /\ UNCHANGED <<request, process, serverVars, handlerVars, continueVars,
                 compressVars, closedReaders, bodyVars>>

-----------------------------------------------------------------------------
(* Reading a body: by the server, or by the compressor's goroutine.        *)

\* One chunk: a Write of the handler is over when it has been read; the stream
\* of an upstream server, or of a file, has some number of chunks, and none after
\* it has failed.
ReadChunk(body) ==
  /\ \/ body = "handler" /\ hpc = "write" /\ hpc' = "run"
     \/ body = "stream" /\ produced < MaxChunks /\ ~broken /\ UNCHANGED hpc
  /\ produced' = produced + 1
  /\ UNCHANGED writes

\* The end: of a pipe, when its writing end has been closed.
AtEnd(body) ==
  \/ body \in {"empty", "string", "stream"}
  \/ body = "handler" /\ hpc = "exited"
  \/ body = "compressor" /\ cpc \in {"closeSource", "exited"}

-----------------------------------------------------------------------------
(* The http.Handler, in the goroutine of HandlerFilter.                    *)

\* WriteHeader, for an application that calls it.
WriteHeader(code) ==
  /\ hpc = "run" /\ status = "none"
  /\ status' = code
  /\ UNCHANGED <<request, process, gone, spc, left, resBody, handlerVars, continueVars,
                 compressVars, closedReaders, bodyVars>>

\* Write: the first one sends the response on the unbuffered channel.
HandlerWrite ==
  /\ hpc = "run" /\ writes < MaxChunks
  /\ writes' = writes + 1
  /\ status' = IF status = "none" THEN "200" ELSE status
  /\ hpc' = IF sentResponse THEN "write" ELSE "sendWrite"
  /\ UNCHANGED <<request, process, gone, spc, left, resBody, continueVars,
                 compressVars, closedReaders, bodyVars>>

\* The reader of the pipe has been closed: Write returns an error.
HandlerWriteFails ==
  /\ hpc = "write" /\ "handler" \in closedReaders
  /\ hpc' = "run"
  /\ UNCHANGED <<request, process, gone, serverVars, writes, continueVars,
                 compressVars, closedReaders, bodyVars>>

\* ServeHTTP returns, and finish() runs: a status, the response, pw.Close().
FinishWithoutResponse ==
  /\ hpc = "run"
  /\ status' = IF status = "none" THEN "other" ELSE status
  /\ hpc' = "close"
  /\ UNCHANGED <<request, process, gone, spc, left, resBody, writes, continueVars,
                 compressVars, closedReaders, bodyVars>>

Finish ==
  /\ hpc = "run"
  /\ status' = IF status = "none" THEN "other" ELSE status
  /\ hpc' = IF sentResponse THEN "close" ELSE "sendFinish"
  /\ UNCHANGED <<request, process, gone, spc, left, resBody, writes, continueVars,
                 compressVars, closedReaders, bodyVars>>

ClosePipe ==
  /\ hpc = "close"
  /\ hpc' = "exited"
  /\ UNCHANGED <<request, process, gone, serverVars, writes, continueVars,
                 compressVars, closedReaders, bodyVars>>

\* Nothing recovers a panic of the handler.
HandlerPanic ==
  /\ hpc = "run"
  /\ process' = "handlerPanic"
  /\ UNCHANGED <<request, gone, serverVars, handlerVars, continueVars,
                 compressVars, closedReaders, bodyVars>>

\* The handler reads the request's body for the first time: continueReader.Read
\* makes the response 100 from r.req, which Close has set to nil.
ReadRequestBody ==
  /\ hpc = "run" /\ request.expect /\ ~opened
  /\ IF contReq THEN hpc' = "continue" /\ UNCHANGED process
                ELSE process' = "continuePanic" /\ UNCHANGED hpc
  /\ UNCHANGED <<request, gone, serverVars, writes, continueVars,
                 compressVars, closedReaders, bodyVars>>

\* Then it writes it to r.req.connection.  When the server has run
\* Close meanwhile, r.req may have been read before or after that.
SendContinueForgettingOpened ==
  /\ hpc = "continue"
  /\ \/ ~contReq /\ process' = "continuePanic" /\ UNCHANGED <<hpc, continueVars>>
     \/ /\ continues' = continues + 1
        /\ contReq' = FALSE
        /\ hpc' = "run"
        /\ UNCHANGED <<process, opened>>
  /\ UNCHANGED <<request, gone, serverVars, writes, compressVars, closedReaders, bodyVars>>

SendContinue ==
  /\ hpc = "continue"
  /\ \/ ~contReq /\ process' = "continuePanic" /\ UNCHANGED <<hpc, continueVars>>
     \/ /\ continues' = continues + 1
        /\ opened' = TRUE /\ contReq' = FALSE
        /\ hpc' = "run"
        /\ UNCHANGED process
  /\ UNCHANGED <<request, gone, serverVars, writes, compressVars, closedReaders, bodyVars>>

\* It cannot be written, and Read fails; the handler then returns.
ContinueFails ==
  /\ hpc = "continue" /\ gone
  /\ status' = IF status = "none" THEN "other" ELSE status
  /\ hpc' = IF sentResponse THEN "close" ELSE "sendFinish"
  /\ UNCHANGED <<request, process, gone, spc, left, resBody, writes, continueVars,
                 compressVars, closedReaders, bodyVars>>

-----------------------------------------------------------------------------
(* The server's goroutine: request filters.                                *)

\* HandlerFilter.FilterRequest starts the handler and waits for its response.
StartHandler ==
  /\ spc = "request" /\ request.source = "handler"
  /\ hpc' = "run"
  /\ spc' = "wait"
  /\ UNCHANGED <<request, process, gone, left, resBody, status, writes, continueVars,
                 compressVars, closedReaders, bodyVars>>

ReceiveResponse ==
  /\ spc = "wait" /\ hpc \in {"sendWrite", "sendFinish"}
  /\ hpc' = IF hpc = "sendWrite" THEN "write" ELSE "close"
  /\ resBody' = "handler" /\ sourceBody' = "handler"
  /\ spc' = "down"
  /\ UNCHANGED <<request, process, gone, left, status, writes, continueVars,
                 compressVars, closedReaders, produced, received, trailer, eof, broken>>

\* Upstream.FilterRequest translates what the upstream server answered: a
\* response with a length or, when its body has been probed, with a first byte;
\* one without a byte, or whose first byte could not be read, and whose body is
\* closed here; an error.
UpstreamResponds ==
  /\ spc = "request" /\ request.source = "upstream"
  /\ \/ /\ resBody' = "stream" /\ sourceBody' = "stream" /\ status' \in {"200", "other"}
        /\ UNCHANGED <<closedReaders, broken>>
     \/ /\ resBody' = "nil" /\ sourceBody' = "stream" /\ status' \in {"200", "other"}
        /\ closedReaders' = closedReaders \cup {"stream"}
        /\ broken' \in BOOLEAN
     \/ resBody' = "string" /\ status' = "other" /\ UNCHANGED <<closedReaders, histVars>>
  /\ spc' = "down"
  /\ UNCHANGED <<request, process, gone, left, handlerVars, continueVars,
                 compressVars, produced, received, trailer, eof>>

\* FileFilter.FilterRequest opens a file; what is none it closes again and
\* returns nil, as it does when there is nothing to open, and the server answers
\* 404 without response filters; a path or a configuration that is wrong is
\* answered at once.
FileResponds ==
  /\ spc = "request" /\ request.source = "file"
  /\ \/ /\ resBody' = "stream" /\ sourceBody' = "stream" /\ status' = "200"
        /\ spc' = "down"
        /\ UNCHANGED closedReaders
     \/ /\ resBody' = "string" /\ status' = "other" /\ spc' \in {"down", "fix"}
        /\ UNCHANGED <<sourceBody, closedReaders>>
     \/ /\ resBody' = "string" /\ status' = "other" /\ spc' = "fix"
        /\ sourceBody' = "stream" /\ closedReaders' = closedReaders \cup {"stream"}
  /\ UNCHANGED <<request, process, gone, left, handlerVars, continueVars,
                 compressVars, produced, received, trailer, eof, broken>>

-----------------------------------------------------------------------------
(* The server's goroutine: response filters.                               *)

\* A match turns a 200 into a 304 without a body; a 200 that has no body to be
\* closed makes the filter panic.
EtagFilter ==
  /\ spc = "down" /\ left # <<>> /\ Head(left) = "etag"
  /\ left' = Tail(left)
  /\ IF ~request.match \/ status # "200"
       THEN UNCHANGED <<spc, status, resBody, closedReaders>>
     ELSE IF resBody = "nil"
       THEN spc' = "panicked" /\ UNCHANGED <<status, resBody, closedReaders>>
     ELSE /\ status' = "304"
          /\ closedReaders' = closedReaders \cup {resBody}
          /\ resBody' = "nil"
          /\ UNCHANGED spc
  /\ UNCHANGED <<request, process, gone, handlerVars, continueVars, compressVars, bodyVars>>

\* Error responses have no content type that is compressed.
CompressionFilter ==
  /\ spc = "down" /\ left # <<>> /\ Head(left) = "compression"
  /\ left' = Tail(left)
  /\ IF request.compress /\ resBody # "string"
       THEN rdr' = resBody /\ cpc' = "read" /\ resBody' = "compressor"
       ELSE UNCHANGED <<rdr, cpc, resBody>>
  /\ UNCHANGED <<request, process, gone, spc, status, handlerVars, continueVars,
                 closedReaders, bodyVars>>

\* A response filter of the application panics; PanicHandler may recover this.
FilterPanic ==
  /\ spc = "down"
  /\ spc' = "panicked"
  /\ UNCHANGED <<request, process, gone, left, resBody, status, handlerVars, continueVars,
                 compressVars, closedReaders, bodyVars>>

DownstreamEnds ==
  /\ spc = "down" /\ left = <<>>
  /\ spc' = "fix"
  /\ UNCHANGED <<request, process, gone, left, resBody, status, handlerVars, continueVars,
                 compressVars, closedReaders, bodyVars>>

-----------------------------------------------------------------------------
(* The compressor's goroutine.                                             *)

\* io.Copy reads; the compressor keeps the chunk, or writes what it has.
CompressChunk ==
  /\ cpc = "read"
  /\ ReadChunk(rdr)
  /\ cpc' \in {"read", "write"}
  /\ UNCHANGED <<request, process, gone, serverVars, continueVars, rdr, closedReaders,
                 received, trailer, eof, histVars>>

\* io.Copy ends: the body does, or a stream breaks off, which is logged in the
\* end and otherwise no different.
CopyEndsWithoutTrailer ==
  /\ cpc = "read"
  /\ AtEnd(rdr)
  /\ cpc' = "closeWriter"
  /\ UNCHANGED <<request, process, gone, serverVars, handlerVars, continueVars, rdr,
                 closedReaders, bodyVars>>

CopyEnds ==
  /\ cpc = "read"
  /\ AtEnd(rdr)
  /\ cpc' = "trailer"
  /\ broken' \in (IF rdr = "stream" THEN BOOLEAN ELSE {FALSE})
  /\ UNCHANGED <<request, process, gone, serverVars, handlerVars, continueVars, rdr,
                 closedReaders, produced, received, trailer, eof, sourceBody>>

\* io.Copy from nil.
CompressNil ==
  /\ cpc = "read" /\ rdr = "nil"
  /\ process' = "compressorPanic"
  /\ UNCHANGED <<request, gone, serverVars, handlerVars, continueVars, compressVars,
                 closedReaders, bodyVars>>

\* The pipe's reader has been closed: io.Copy ends, compressor.Close() fails.
CompressWriteFails ==
  /\ cpc \in {"write", "trailer"} /\ "compressor" \in closedReaders
  /\ cpc' = IF cpc = "write" THEN "trailer" ELSE "closeWriter"
  /\ UNCHANGED <<request, process, gone, serverVars, handlerVars, continueVars, rdr,
                 closedReaders, bodyVars>>

\* compressor.Close() has written the trailer: pWriter.Close(), rdr.Close().
CloseWriter ==
  /\ cpc = "closeWriter"
  /\ cpc' = "closeSource"
  /\ UNCHANGED <<request, process, gone, serverVars, handlerVars, continueVars, rdr,
                 closedReaders, bodyVars>>

LeaveSourceOpen ==
  /\ cpc = "closeSource"
  /\ cpc' = "exited"
  /\ UNCHANGED <<closedReaders, request, process, gone, serverVars, handlerVars, continueVars,
                 rdr, bodyVars>>

CloseSource ==
  /\ cpc = "closeSource"
  /\ cpc' = "exited"
  /\ closedReaders' = closedReaders \cup {rdr}
  /\ UNCHANGED <<request, process, gone, serverVars, handlerVars, continueVars, rdr, bodyVars>>

-----------------------------------------------------------------------------
(* The server's goroutine: handlerExecutePipeline and handlerWriteResponse. *)

\* No body becomes an empty one.  A body of length 0 is probed, which waits for
\* the end of a handler's; some statuses are exempt.  A file of length 0 may fail
\* then, and the error is dropped.
FixBody ==
  /\ spc = "fix"
  /\ resBody = "handler" /\ writes = 0 => status = "other" \/ hpc = "exited"
  /\ resBody' = IF resBody = "nil" THEN "empty" ELSE resBody
  /\ \/ UNCHANGED broken
     \/ resBody = "stream" /\ request.source = "file" /\ broken' = TRUE
  /\ spc' = "closeReq"
  /\ UNCHANGED <<request, process, gone, left, status, handlerVars, continueVars,
                 compressVars, closedReaders, produced, received, trailer, eof, sourceBody>>

\* Close of the request's body, which a continueReader takes as its end.
CloseRequest ==
  /\ spc = "closeReq"
  /\ contReq' = FALSE
  /\ spc' = "write"
  /\ UNCHANGED <<request, process, gone, left, resBody, status, handlerVars, opened,
                 continues, compressVars, closedReaders, bodyVars>>

\* res.Write copies no body for HEAD; io.Copy in ServeHTTP does, for the
\* http.ResponseWriter to discard.
CopiesBody == ~request.head \/ request.serveHTTP

\* A chunk is copied from the body, out of whichever Write offers it.
WriteChunk ==
  /\ spc = "write" /\ CopiesBody
  /\ \/ ReadChunk(resBody) /\ received' = received + 1 /\ UNCHANGED <<cpc, trailer>>
     \/ /\ resBody = "compressor" /\ cpc \in {"write", "trailer"}
        /\ received' = produced
        /\ trailer' = (cpc = "trailer")
        /\ cpc' = IF cpc = "write" THEN "read" ELSE "closeWriter"
        /\ UNCHANGED <<handlerVars, produced>>
  /\ UNCHANGED <<request, process, gone, serverVars, continueVars, rdr, closedReaders, eof,
                 histVars>>

\* After a stream has broken off ServeHTTP returns as usual, for io.Copy's error
\* is ignored, and net/http ends the response.  res.Write does not end it.
EndedAfterBreak == request.serveHTTP

\* The copy ends: at the end of the body, without one, or with an error of the
\* connection or of a stream.
WriteEnds ==
  /\ spc = "write"
  /\ \/ CopiesBody /\ AtEnd(resBody) /\ eof' = TRUE /\ UNCHANGED broken
     \/ (~CopiesBody \/ gone) /\ UNCHANGED <<eof, broken>>
     \/ CopiesBody /\ resBody = "stream" /\ ~broken /\ broken' = TRUE /\ eof' = EndedAfterBreak
  /\ spc' = "close"
  /\ UNCHANGED <<request, process, gone, left, resBody, status, handlerVars, continueVars,
                 compressVars, closedReaders, produced, received, trailer, sourceBody>>

CloseBodyOfPipeIgnored ==
  /\ spc = "close"
  /\ closedReaders' = closedReaders \cup ({resBody} \ {"compressor"})
  /\ spc' = "done"
  /\ UNCHANGED <<request, process, gone, left, resBody, status, handlerVars, continueVars,
                 compressVars, bodyVars>>

CloseBody ==
  /\ spc = "close"
  /\ closedReaders' = closedReaders \cup {resBody}
  /\ spc' = "done"
  /\ UNCHANGED <<request, process, gone, left, resBody, status, handlerVars, continueVars,
                 compressVars, bodyVars>>

-----------------------------------------------------------------------------
HandlerStep ==
  \/ \E code \in {"200", "other"} : WriteHeader(code)
  \/ HandlerWrite \/ HandlerWriteFails \/ Finish \/ ClosePipe
  \/ ReadRequestBody \/ SendContinue \/ ContinueFails

ServerStep ==
  \/ StartHandler \/ ReceiveResponse \/ UpstreamResponds \/ FileResponds
  \/ EtagFilter \/ CompressionFilter \/ DownstreamEnds
  \/ FixBody \/ CloseRequest \/ WriteChunk \/ WriteEnds \/ CloseBody

CompressStep ==
  CompressChunk \/ CopyEnds \/ CompressNil \/ CompressWriteFails \/ CloseWriter \/ CloseSource

Next ==
  /\ process = "running"
  /\ HandlerStep \/ ServerStep \/ CompressStep \/ HandlerPanic \/ FilterPanic \/ Leave

Spec == Init /\ [][Next]_vars

\* Goroutines that can run do run.  An http.Handler returns and an upstream
\* server ends its answer: if they do not, that is a Hang in Server.
FairSpec ==
  /\ Spec
  /\ WF_vars(process = "running" /\ HandlerStep)
  /\ WF_vars(process = "running" /\ ServerStep)
  /\ WF_vars(process = "running" /\ CompressStep)

-----------------------------------------------------------------------------
(* Properties.                                                             *)

\* Where the code takes a source that breaks off for one that has ended: ServeHTTP,
\* the probe in Upstream, which makes the body an empty one, the compressor,
\* which ends its stream all the same, and the probe of a file of length 0.
BreakHidden ==
  \/ request.serveHTTP
  \/ resBody \in {"empty", "compressor"}
  \/ resBody = "stream" /\ request.source = "file" /\ produced = 0

\* A body that the server has written to its end is complete: the client has
\* every chunk of the source, a handler has returned, a compressed stream has its
\* trailer, and, but for the places named above, the source did not break off,
\* whichever goroutine was ahead.
NoTruncation ==
  eof /\ status # "304" =>
    /\ received = produced
    /\ resBody = "handler" => hpc = "exited"
    /\ resBody = "compressor" => trailer /\ (rdr = "handler" => hpc = "exited")
    /\ broken => BreakHidden

\* Nothing stays open: an upstream connection, a file or a handler's pipe has
\* been closed when the server and the compressor have done with it, whoever has
\* replaced it and whether or not it has been read.
SourceClosed ==
  spc = "done" /\ cpc \in {"none", "exited"} => sourceBody \in closedReaders \cup {"nil"}

\* Reading the request's body is safe while the server has not closed it, that
\* is, until a response has been returned.
ContinueReadSafe == process = "continuePanic" => spc \in {"write", "close", "done"}

\* The server's goroutine gets a response and gets rid of it: it never waits for
\* ever for the handler or for the compressor.
ServerFinishes == <>(spc \in {"done", "panicked"} \/ process # "running")

\* No goroutine is left behind in a Write, whatever became of the body: replaced,
\* not read for HEAD, closed by a filter, or the client has left.  When a filter
\* panics nobody closes the body, and they do stay behind.
GoroutinesEnd ==
  spc = "done" ~>
    ((hpc \in {"none", "exited"} /\ cpc \in {"none", "exited"}) \/ process # "running")

\* Etag filtering may be done first, so that the body need not be generated: the
\* filters after it cope with the response it leaves.
EtagFirst ==
  process = "compressorPanic"
    => ~(request.source = "handler" /\ request.order = <<"etag", "compression">>)
=============================================================================
