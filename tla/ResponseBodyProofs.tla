-------------------------- MODULE ResponseBodyProofs --------------------------
(* Proofs about response bodies, for every number of chunks: what has been *)
(* written to its end is complete, the source is closed in the end, and a  *)
(* late read of a 100-continue body is the only one that panics.           *)
EXTENDS ResponseBody, TLAPS

-----------------------------------------------------------------------------
(* The inductive invariant, part by part.                                  *)

Body == {"nil", "empty", "string", "stream", "handler", "compressor"}

\* What can be left of a Downstream list.
Suffix == {<<>>, <<"etag">>, <<"compression">>, <<"etag", "compression">>,
           <<"compression", "etag">>}

TypeOK ==
  /\ request \in Request
  /\ spc \in {"request", "wait", "down", "panicked", "fix", "closeReq", "write", "close", "done"}
  /\ left \in Suffix
  /\ resBody \in Body
  /\ cpc \in {"none", "read", "write", "trailer", "closeWriter", "closeSource", "exited"}
  /\ rdr \in Body
  /\ closedReaders \subseteq Body
  /\ produced \in Nat /\ received \in Nat
  /\ eof \in BOOLEAN /\ broken \in BOOLEAN

\* Nothing exists before the request filter has answered, and a stream that has not
\* been replaced is read by the server only.
BeforeResponse ==
  /\ spc = "request" => hpc = "none" /\ status = "none"
  /\ spc \in {"request", "wait"} =>
       /\ cpc = "none" /\ closedReaders = {} /\ resBody = "nil" /\ sourceBody = "nil"
       /\ produced = 0 /\ received = 0 /\ ~broken
  /\ eof => spc \in {"close", "done"}
  /\ spc \in {"closeReq", "write", "close", "done"} => resBody # "nil"
  /\ resBody = "stream" /\ spc \notin {"write", "close", "done"} => produced = 0

\* CompressionFilter runs once at most, and whoever replaces the body again
\* after it has made the response a 304.
OneCompressor ==
  /\ cpc # "none" => left \in {<<>>, <<"etag">>}
  /\ cpc # "none" => resBody = "compressor" \/ (status = "304" /\ resBody \in {"nil", "empty"})
  /\ resBody = "compressor" \/ "compressor" \in closedReaders => cpc # "none"
  /\ rdr # "compressor"

\* The server has everything that was produced, except while a compressor keeps
\* or offers some of it.  A compressor that was not interrupted has ended its
\* stream, after its source had ended.
Complete ==
  status # "304" =>
    /\ resBody # "compressor" => received = produced
    /\ resBody = "handler" /\ eof => hpc = "exited"
    /\ resBody = "compressor" =>
         /\ "compressor" \in closedReaders => spc = "done"
         /\ cpc \in {"trailer", "closeWriter", "closeSource", "exited"} /\ rdr = "handler"
              => hpc = "exited" \/ ("compressor" \in closedReaders /\ ~eof)
         /\ cpc \in {"closeWriter", "closeSource", "exited"}
              => (received = produced /\ trailer) \/ ("compressor" \in closedReaders /\ ~eof)
         /\ eof => cpc \in {"closeSource", "exited"}

\* A break is seen by the server when it writes, or by one of the places that hide it.
BreakSeen ==
  broken =>
    \/ resBody \in {"nil", "empty", "compressor"}
    \/ resBody = "stream" /\ request.source = "file" /\ produced = 0
    \/ spc \in {"close", "done"} /\ (eof => request.serveHTTP)

\* Somebody has the source and will close it.
SourceHeld ==
  \/ sourceBody \in closedReaders \cup {"nil"}
  \/ resBody = sourceBody /\ spc # "done"
  \/ rdr = sourceBody /\ cpc \notin {"none", "exited"}

\* Until the server closes the request's body, r.req is nil only after the body
\* has been opened.
ContinueOnce ==
  /\ hpc = "continue" => ~opened
  /\ ~contReq => opened \/ spc \in {"write", "close", "done"}
  /\ process = "continuePanic" => spc \in {"write", "close", "done"}

Inv == TypeOK /\ BeforeResponse /\ OneCompressor /\ Complete /\ BreakSeen /\ SourceHeld /\ ContinueOnce

-----------------------------------------------------------------------------
LEMMA InitInv == Init => Inv
<1> SUFFICES ASSUME Init PROVE Inv
  OBVIOUS
<1> USE DEF Init
<1>1. TypeOK
  BY DEF TypeOK, Body, Suffix, Request
<1>2. BeforeResponse /\ OneCompressor /\ Complete /\ BreakSeen /\ SourceHeld /\ ContinueOnce
  BY DEF BeforeResponse, OneCompressor, Complete, BreakSeen, SourceHeld, ContinueOnce
<1> QED
  BY <1>1, <1>2 DEF Inv

\* Taking a filter off the list.
LEMMA TakeFilter ==
  ASSUME NEW s \in Suffix, s # <<>>
  PROVE  /\ Tail(s) \in Suffix
         /\ s = <<"etag">> => Head(s) = "etag" /\ Tail(s) = <<>>
         /\ Head(s) = "compression" => Tail(s) \in {<<>>, <<"etag">>} /\ s \notin {<<>>, <<"etag">>}
<1>1. CASE s = <<"etag">>
  BY <1>1 DEF Suffix
<1>2. CASE s = <<"compression">>
  BY <1>2 DEF Suffix
<1>3. CASE s = <<"etag", "compression">>
  BY <1>3 DEF Suffix
<1>4. CASE s = <<"compression", "etag">>
  BY <1>4 DEF Suffix
<1> QED
  BY <1>1, <1>2, <1>3, <1>4 DEF Suffix

-----------------------------------------------------------------------------
(* The handler's goroutine.                                                *)

\* What the handler's steps leave alone: the bodies, and what became of them.
HandlerLeaves ==
  UNCHANGED <<request, spc, left, resBody, compressVars, closedReaders, bodyVars>>

LEMMA HandlerStepInv ==
  ASSUME Inv, process = "running", HandlerStep
  PROVE  Inv'
<1> USE DEF compressVars, bodyVars, histVars, serverVars, handlerVars, continueVars
<1>1. HandlerLeaves
  BY DEF HandlerStep, HandlerLeaves, WriteHeader, HandlerWrite, HandlerWriteFails, Finish,
         ClosePipe, ReadRequestBody, SendContinue, ContinueFails
<1>2. /\ hpc # "none" /\ (hpc = "exited" => hpc' = "exited")
      /\ status' = "304" <=> status = "304"
  BY DEF HandlerStep, WriteHeader, HandlerWrite, HandlerWriteFails, Finish,
         ClosePipe, ReadRequestBody, SendContinue, ContinueFails
<1>3. TypeOK'
  BY <1>1 DEF Inv, TypeOK, HandlerLeaves
<1>4. BeforeResponse' /\ OneCompressor' /\ Complete' /\ BreakSeen' /\ SourceHeld'
  BY <1>1, <1>2 DEF Inv, HandlerLeaves, BeforeResponse, OneCompressor, Complete, BreakSeen, SourceHeld
<1>5. ContinueOnce'
  BY <1>1 DEF Inv, ContinueOnce, HandlerLeaves, HandlerStep, WriteHeader, HandlerWrite,
              HandlerWriteFails, Finish, ClosePipe, ReadRequestBody, SendContinue, ContinueFails
<1> QED
  BY <1>3, <1>4, <1>5 DEF Inv

\* A panic of the handler or of a filter, and the client's leaving.
LEMMA PanicOrLeaveInv ==
  ASSUME Inv, HandlerPanic \/ FilterPanic \/ Leave
  PROVE  Inv'
<1> USE DEF Inv, compressVars, bodyVars, histVars, serverVars, handlerVars, continueVars
<1>1. TypeOK'
  BY DEF HandlerPanic, FilterPanic, Leave, TypeOK
<1>2. BeforeResponse' /\ OneCompressor' /\ Complete' /\ BreakSeen' /\ SourceHeld' /\ ContinueOnce'
  BY DEF HandlerPanic, FilterPanic, Leave, BeforeResponse, OneCompressor, Complete, BreakSeen,
         SourceHeld, ContinueOnce
<1> QED
  BY <1>1, <1>2

-----------------------------------------------------------------------------
(* The server's goroutine.                                                 *)

\* The request filter answers.
LEMMA RequestFilterInv ==
  ASSUME Inv, StartHandler \/ ReceiveResponse \/ UpstreamResponds \/ FileResponds
  PROVE  Inv'
<1> USE DEF Inv, compressVars, bodyVars, histVars, serverVars, handlerVars, continueVars
<1>1. TypeOK'
  BY DEF StartHandler, ReceiveResponse, UpstreamResponds, FileResponds, TypeOK, Body
<1>2. CASE StartHandler
  BY <1>1, <1>2 DEF StartHandler, BeforeResponse, OneCompressor, Complete, BreakSeen, SourceHeld,
                    ContinueOnce
<1>3. CASE ReceiveResponse
  BY <1>1, <1>3 DEF ReceiveResponse, BeforeResponse, OneCompressor, Complete, BreakSeen, SourceHeld,
                    ContinueOnce
<1>4. CASE UpstreamResponds
  BY <1>1, <1>4 DEF UpstreamResponds, BeforeResponse, OneCompressor, Complete, BreakSeen,
                    SourceHeld, ContinueOnce
<1>5. CASE FileResponds
  BY <1>1, <1>5 DEF FileResponds, BeforeResponse, OneCompressor, Complete, BreakSeen,
                    SourceHeld, ContinueOnce
<1> QED
  BY <1>2, <1>3, <1>4, <1>5

LEMMA EtagFilterInv ==
  ASSUME Inv, EtagFilter
  PROVE  Inv'
<1> USE DEF Inv, compressVars, bodyVars, histVars, serverVars, handlerVars, continueVars
<1>1. spc = "down" /\ left \in Suffix /\ left # <<>> /\ left' = Tail(left)
      /\ UNCHANGED <<request, process, handlerVars, continueVars, compressVars, bodyVars>>
  BY DEF EtagFilter, TypeOK
<1>2. left' \in Suffix /\ (left \in {<<>>, <<"etag">>} => left' \in {<<>>, <<"etag">>})
  BY <1>1, TakeFilter
<1>3. \/ spc' \in {"down", "panicked"} /\ UNCHANGED <<status, resBody, closedReaders>>
      \/ /\ status' = "304" /\ resBody' = "nil" /\ spc' = spc
         /\ closedReaders' = closedReaders \cup {resBody}
  BY <1>1 DEF EtagFilter
<1>4. TypeOK'
  BY <1>1, <1>2, <1>3 DEF TypeOK, Body
<1>5. BeforeResponse' /\ OneCompressor' /\ BreakSeen' /\ ContinueOnce'
  BY <1>1, <1>2, <1>3 DEF BeforeResponse, OneCompressor, BreakSeen, ContinueOnce
<1>6. Complete' /\ SourceHeld'
  BY <1>1, <1>3 DEF Complete, SourceHeld
<1> QED
  BY <1>4, <1>5, <1>6

LEMMA CompressionFilterInv ==
  ASSUME Inv, CompressionFilter
  PROVE  Inv'
<1> USE DEF Inv, compressVars, bodyVars, histVars, serverVars, handlerVars, continueVars
<1>1. /\ spc = "down" /\ left \in Suffix /\ left # <<>> /\ left' = Tail(left)
      /\ Head(left) = "compression"
      /\ UNCHANGED <<request, process, spc, status, handlerVars, continueVars, closedReaders, bodyVars>>
  BY DEF CompressionFilter, TypeOK
<1>2. left' \in {<<>>, <<"etag">>} /\ left' \in Suffix /\ cpc = "none"
  BY <1>1, TakeFilter DEF OneCompressor
<1>3. \/ rdr' = resBody /\ cpc' = "read" /\ resBody' = "compressor"
      \/ UNCHANGED <<rdr, cpc, resBody>>
  BY DEF CompressionFilter
<1>4. TypeOK'
  BY <1>1, <1>2, <1>3 DEF TypeOK, Body
<1>5. BeforeResponse' /\ OneCompressor' /\ BreakSeen' /\ ContinueOnce'
  BY <1>1, <1>2, <1>3 DEF BeforeResponse, OneCompressor, BreakSeen, ContinueOnce
<1>6. Complete' /\ SourceHeld'
  BY <1>1, <1>2, <1>3 DEF Complete, SourceHeld, BeforeResponse, OneCompressor
<1> QED
  BY <1>4, <1>5, <1>6

\* From the end of the response filters to the writing of the body.
LEMMA BeforeWriteInv ==
  ASSUME Inv, DownstreamEnds \/ FixBody \/ CloseRequest
  PROVE  Inv'
<1> USE DEF Inv, compressVars, bodyVars, histVars, serverVars, handlerVars, continueVars
<1>1. TypeOK'
  BY DEF DownstreamEnds, FixBody, CloseRequest, TypeOK, Body
<1>2. CASE DownstreamEnds
  BY <1>2, <1>1 DEF DownstreamEnds, BeforeResponse, OneCompressor, Complete, BreakSeen, SourceHeld,
                    ContinueOnce
<1>3. CASE FixBody
  BY <1>3, <1>1 DEF FixBody, BeforeResponse, OneCompressor, Complete, BreakSeen, SourceHeld,
                    ContinueOnce
<1>4. CASE CloseRequest
  BY <1>4, <1>1 DEF CloseRequest, BeforeResponse, OneCompressor, Complete, BreakSeen, SourceHeld,
                    ContinueOnce
<1> QED
  BY <1>2, <1>3, <1>4

LEMMA WriteChunkInv ==
  ASSUME Inv, WriteChunk
  PROVE  Inv'
<1> USE DEF Inv, compressVars, bodyVars, histVars, serverVars, handlerVars, continueVars
<1>1. /\ spc = "write"
      /\ UNCHANGED <<request, process, gone, serverVars, continueVars, rdr, closedReaders, eof, histVars>>
  BY DEF WriteChunk
<1>2. CASE ReadChunk(resBody) /\ received' = received + 1 /\ UNCHANGED <<cpc, trailer>>
  <2>1. /\ produced' = produced + 1 /\ resBody \in {"handler", "stream"}
        /\ resBody = "stream" => ~broken
        /\ hpc' = hpc \/ (hpc = "write" /\ hpc' = "run")
    BY <1>2 DEF ReadChunk
  <2>2. TypeOK'
    BY <1>1, <1>2, <2>1 DEF TypeOK
  <2>3. BeforeResponse' /\ OneCompressor' /\ BreakSeen' /\ SourceHeld' /\ ContinueOnce'
    BY <1>1, <1>2, <2>1 DEF BeforeResponse, OneCompressor, BreakSeen, SourceHeld, ContinueOnce
  <2>4. Complete'
    BY <1>1, <1>2, <2>1 DEF BeforeResponse, Complete, TypeOK
  <2> QED
    BY <2>2, <2>3, <2>4
<1>3. CASE /\ resBody = "compressor" /\ cpc \in {"write", "trailer"}
           /\ received' = produced
           /\ trailer' = (cpc = "trailer")
           /\ cpc' = IF cpc = "write" THEN "read" ELSE "closeWriter"
           /\ UNCHANGED <<handlerVars, produced>>
  <2>1. TypeOK'
    BY <1>1, <1>3 DEF TypeOK
  <2>2. BeforeResponse' /\ OneCompressor' /\ BreakSeen' /\ SourceHeld' /\ ContinueOnce'
    BY <1>1, <1>3 DEF BeforeResponse, OneCompressor, BreakSeen, SourceHeld, ContinueOnce
  <2>3. Complete'
    BY <1>1, <1>3 DEF BeforeResponse, Complete, TypeOK
  <2> QED
    BY <2>1, <2>2, <2>3
<1> QED
  BY <1>2, <1>3 DEF WriteChunk

LEMMA AfterWriteInv ==
  ASSUME Inv, WriteEnds \/ CloseBody
  PROVE  Inv'
<1> USE DEF Inv, compressVars, bodyVars, histVars, serverVars, handlerVars, continueVars
<1>1. CASE WriteEnds
  <2>1. /\ spc = "write" /\ spc' = "close"
        /\ UNCHANGED <<request, process, gone, left, resBody, status, handlerVars, continueVars,
                       compressVars, closedReaders, produced, received, trailer, sourceBody>>
        /\ \/ AtEnd(resBody) /\ eof' = TRUE /\ UNCHANGED broken
           \/ UNCHANGED <<eof, broken>>
           \/ resBody = "stream" /\ broken' = TRUE /\ eof' = request.serveHTTP
    BY <1>1 DEF WriteEnds, EndedAfterBreak
  <2>2. TypeOK'
    <3>1. request.serveHTTP \in BOOLEAN
      BY DEF TypeOK, Request
    <3> QED
      BY <2>1, <3>1 DEF TypeOK
  <2>3. BeforeResponse' /\ OneCompressor' /\ BreakSeen' /\ SourceHeld' /\ ContinueOnce'
    BY <2>1 DEF BeforeResponse, OneCompressor, BreakSeen, SourceHeld, ContinueOnce
  <2>4. Complete'
    BY <2>1 DEF Complete, AtEnd, BeforeResponse
  <2> QED
    BY <2>2, <2>3, <2>4
<1>2. CASE CloseBody
  <2>1. TypeOK'
    BY <1>2 DEF CloseBody, TypeOK
  <2>2. BeforeResponse' /\ OneCompressor' /\ BreakSeen' /\ SourceHeld' /\ ContinueOnce'
    BY <1>2 DEF CloseBody, BeforeResponse, OneCompressor, BreakSeen, SourceHeld, ContinueOnce
  <2>3. Complete'
    BY <1>2 DEF CloseBody, Complete, BeforeResponse
  <2> QED
    BY <2>1, <2>2, <2>3
<1> QED
  BY <1>1, <1>2

-----------------------------------------------------------------------------
(* The compressor's goroutine.                                             *)

LEMMA CompressReadInv ==
  ASSUME Inv, CompressChunk \/ CopyEnds \/ CompressNil
  PROVE  Inv'
<1> USE DEF Inv, compressVars, bodyVars, histVars, serverVars, handlerVars, continueVars
<1>1. CASE CompressChunk
  <2>1. /\ cpc = "read" /\ cpc' \in {"read", "write"} /\ produced' = produced + 1
        /\ hpc' = hpc \/ (hpc = "write" /\ hpc' = "run")
        /\ UNCHANGED <<request, process, gone, serverVars, continueVars, rdr, closedReaders,
                       received, trailer, eof, histVars>>
    BY <1>1 DEF CompressChunk, ReadChunk
  <2>2. TypeOK'
    BY <2>1 DEF TypeOK
  <2>3. BeforeResponse' /\ OneCompressor' /\ BreakSeen' /\ SourceHeld' /\ ContinueOnce'
    BY <2>1 DEF BeforeResponse, OneCompressor, BreakSeen, SourceHeld, ContinueOnce
  <2>4. Complete'
    BY <2>1 DEF OneCompressor, Complete
  <2> QED
    BY <2>2, <2>3, <2>4
<1>2. CASE CopyEnds
  <2>1. /\ cpc = "read" /\ cpc' = "trailer" /\ broken' \in BOOLEAN
        /\ rdr = "handler" => hpc = "exited"
        /\ UNCHANGED <<request, process, gone, serverVars, handlerVars, continueVars, rdr,
                       closedReaders, produced, received, trailer, eof, sourceBody>>
    BY <1>2 DEF CopyEnds, AtEnd
  <2>2. TypeOK'
    BY <2>1 DEF TypeOK
  <2>3. BeforeResponse' /\ OneCompressor' /\ BreakSeen' /\ SourceHeld' /\ ContinueOnce'
    BY <2>1 DEF BeforeResponse, OneCompressor, BreakSeen, SourceHeld, ContinueOnce
  <2>4. Complete'
    BY <2>1 DEF OneCompressor, Complete
  <2> QED
    BY <2>2, <2>3, <2>4
<1>3. CASE CompressNil
  BY <1>3 DEF CompressNil, TypeOK, BeforeResponse, OneCompressor, Complete, BreakSeen, SourceHeld,
              ContinueOnce
<1> QED
  BY <1>1, <1>2, <1>3

LEMMA CompressEndInv ==
  ASSUME Inv, CompressWriteFails \/ CloseWriter \/ CloseSource
  PROVE  Inv'
<1> USE DEF Inv, compressVars, bodyVars, histVars, serverVars, handlerVars, continueVars
<1>1. TypeOK'
  BY DEF CompressWriteFails, CloseWriter, CloseSource, TypeOK
<1>2. CASE CompressWriteFails
  BY <1>1, <1>2 DEF CompressWriteFails, BeforeResponse, OneCompressor, Complete, BreakSeen,
                    SourceHeld, ContinueOnce
<1>3. CASE CloseWriter
  BY <1>1, <1>3 DEF CloseWriter, BeforeResponse, OneCompressor, Complete, BreakSeen,
                    SourceHeld, ContinueOnce
<1>4. CASE CloseSource
  BY <1>1, <1>4 DEF CloseSource, BeforeResponse, OneCompressor, Complete, BreakSeen,
                    SourceHeld, ContinueOnce
<1> QED
  BY <1>2, <1>3, <1>4

-----------------------------------------------------------------------------
LEMMA InvStep == Inv /\ [Next]_vars => Inv'
<1> SUFFICES ASSUME Inv, [Next]_vars PROVE Inv'
  OBVIOUS
<1>1. CASE UNCHANGED vars
  BY <1>1 DEF vars, compressVars, bodyVars, histVars, serverVars, handlerVars, continueVars, Inv,
              TypeOK, BeforeResponse, OneCompressor, Complete, BreakSeen, SourceHeld, ContinueOnce
<1>2. CASE process = "running" /\ ServerStep
  BY <1>2, RequestFilterInv, EtagFilterInv, CompressionFilterInv, BeforeWriteInv, WriteChunkInv,
     AfterWriteInv DEF ServerStep
<1>3. CASE process = "running" /\ CompressStep
  BY <1>3, CompressReadInv, CompressEndInv DEF CompressStep
<1> QED
  BY <1>1, <1>2, <1>3, HandlerStepInv, PanicOrLeaveInv DEF Next

-----------------------------------------------------------------------------
(* The theorems.                                                           *)

\* Inv holds throughout a response, whichever goroutine is ahead.
THEOREM Invariance == Spec => []Inv
  BY InitInv, InvStep, PTL DEF Spec

\* What the server has written to its end is the whole body, with the trailer
\* of a compressed stream, and of a source that did not break off or whose break
\* was hidden in one of the places of BreakHidden.
THEOREM BodiesComplete == Spec => []NoTruncation
<1>1. Inv => NoTruncation
  <2> SUFFICES ASSUME Inv, eof, status # "304"
               PROVE  /\ received = produced
                      /\ resBody = "handler" => hpc = "exited"
                      /\ resBody = "compressor" => trailer /\ (rdr = "handler" => hpc = "exited")
                      /\ broken => BreakHidden
    BY DEF NoTruncation
  <2>1. broken => BreakHidden
    BY DEF Inv, BreakSeen, BreakHidden, BeforeResponse
  <2> QED
    BY <2>1 DEF Inv, Complete
<1> QED
  BY Invariance, <1>1, PTL

\* The source's body is closed when nobody works on the response any more.
THEOREM SourcesClosed == Spec => []SourceClosed
<1>1. Inv => SourceClosed
  BY DEF Inv, SourceHeld, SourceClosed
<1> QED
  BY Invariance, <1>1, PTL

\* continueReader.Read finds r.req nil only after the server has closed the body.
THEOREM ContinueSafe == Spec => []ContinueReadSafe
<1>1. Inv => ContinueReadSafe
  BY DEF Inv, ContinueOnce, ContinueReadSafe
<1> QED
  BY Invariance, <1>1, PTL
=============================================================================
