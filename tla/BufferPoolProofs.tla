-------------------------- MODULE BufferPoolProofs --------------------------
(* Proofs about BufferPool for any connections, bodies, streams and         *)
(* capacity.  First the writers: no output and no error passes from one    *)
(* connection to the next.  Then the readers, for as long as no entry has  *)
(* been in two hands: every user reads its own bytes, in their order, a    *)
(* body is read whole, and no connection suffers an error of another.      *)
EXTENDS BufferPool, SequenceTheorems, WellFoundedInduction, TLAPS

-----------------------------------------------------------------------------
(* The writers.                                                            *)

\* Only writers that Give has found clean are in the pool.
PoolIsClean == writerPool \in Seq({Clean})

\* The state a writer may be in while u has it.
OwnWriter(u) == [pending : SUBSET {u}, err : {None, u}]

OwnWriters == wbpe \in [User -> UNION {OwnWriter(u) : u \in User}] /\ \A u \in User : wbpe[u] \in OwnWriter(u)

WriterInv == PoolIsClean /\ OwnWriters

-----------------------------------------------------------------------------
LEMMA CleanIsOwn ==
  ASSUME NEW u \in User
  PROVE  Clean \in OwnWriter(u) /\ OwnWriter(u) \subseteq UNION {OwnWriter(v) : v \in User}
  BY DEF Clean, OwnWriter

LEMMA WriterInit == Init => WriterInv
<1> SUFFICES ASSUME Init PROVE WriterInv
  OBVIOUS
<1>1. writerPool = <<>> /\ wbpe = [u \in User |-> Clean]
  BY DEF Init
<1>2. PoolIsClean
  BY <1>1 DEF PoolIsClean
<1>3. OwnWriters
  BY <1>1, CleanIsOwn DEF OwnWriters
<1> QED
  BY <1>2, <1>3 DEF WriterInv

\* A writer that is replaced by one u may have leaves the others alone.
LEMMA ReplaceWriter ==
  ASSUME OwnWriters, NEW u \in User, NEW w \in OwnWriter(u), wbpe' = [wbpe EXCEPT ![u] = w]
  PROVE  OwnWriters'
<1>1. w \in UNION {OwnWriter(v) : v \in User}
  BY CleanIsOwn
<1> QED
  BY <1>1 DEF OwnWriters

LEMMA TakeWriterKeeps ==
  ASSUME WriterInv, NEW u \in User, TakeWriter(u)
  PROVE  WriterInv'
<1>1. CASE writerPool = <<>>
  BY <1>1 DEF TakeWriter, WriterInv, PoolIsClean, OwnWriters
<1>2. CASE writerPool # <<>>
  <2>1. Head(writerPool) = Clean /\ Tail(writerPool) \in Seq({Clean})
    BY <1>2 DEF WriterInv, PoolIsClean
  <2>2. wbpe' = [wbpe EXCEPT ![u] = Clean] /\ writerPool' = Tail(writerPool)
    BY <1>2, <2>1 DEF TakeWriter
  <2>3. OwnWriters'
    BY <2>2, CleanIsOwn, ReplaceWriter DEF WriterInv
  <2> QED
    BY <2>1, <2>2, <2>3 DEF WriterInv, PoolIsClean
<1> QED
  BY <1>1, <1>2

LEMMA GiveWriterKeeps ==
  ASSUME WriterInv, NEW u \in User, GiveWriter(u), UNCHANGED wbpe
  PROVE  WriterInv'
<1>1. CASE wbpe[u] = Clean /\ writerPool' = Append(writerPool, wbpe[u])
  BY <1>1 DEF WriterInv, PoolIsClean, OwnWriters
<1>2. CASE UNCHANGED writerPool
  BY <1>2 DEF WriterInv, PoolIsClean, OwnWriters
<1> QED
  BY <1>1, <1>2 DEF GiveWriter

\* Whatever becomes of a response, it touches the writer of its connection only.
LEMMA OutputKeeps ==
  ASSUME WriterInv, NEW u \in User, NEW p \in {"sent", "failed", "direct", "panicked"},
         Output(u, p), UNCHANGED writerPool
  PROVE  WriterInv'
<1>1. wbpe[u] \in OwnWriter(u) /\ wbpe \in [User -> UNION {OwnWriter(v) : v \in User}]
  BY DEF WriterInv, OwnWriters
<1>2. wbpe[u].pending \subseteq {u} /\ wbpe[u].err \in {None, u}
  BY <1>1 DEF OwnWriter
<1>3. \E w \in OwnWriter(u) : wbpe' = [wbpe EXCEPT ![u] = w]
  <2>1. CASE wbpe[u].err # None
    <3>1. wbpe' = [wbpe EXCEPT ![u] = wbpe[u]]
      BY <2>1 DEF Output
    <3> QED
      BY <1>1, <3>1
  <2>2. CASE wbpe[u].err = None /\ p = "sent"
    <3>1. wbpe' = [wbpe EXCEPT ![u] = Clean]
      BY <2>2 DEF Output
    <3> QED
      BY <3>1, CleanIsOwn
  <2>3. CASE wbpe[u].err = None /\ p = "failed"
    <3> DEFINE w == [pending |-> wbpe[u].pending \cup {u}, err |-> u]
    <3>1. wbpe' = [wbpe EXCEPT ![u] = w]
      BY <2>3 DEF Output
    <3>2. w \in OwnWriter(u)
      BY <1>2 DEF OwnWriter
    <3> HIDE DEF w
    <3> QED
      BY <3>1, <3>2
  <2>4. CASE wbpe[u].err = None /\ p = "direct"
    <3> DEFINE w == [pending |-> {}, err |-> u]
    <3>1. wbpe' = [wbpe EXCEPT ![u] = w]
      BY <2>4 DEF Output
    <3>2. w \in OwnWriter(u)
      BY DEF OwnWriter
    <3> HIDE DEF w
    <3> QED
      BY <3>1, <3>2
  <2>5. CASE wbpe[u].err = None /\ p = "panicked"
    <3> DEFINE w == [pending |-> wbpe[u].pending \cup {u}, err |-> None]
    <3>1. wbpe' = [wbpe EXCEPT ![u] = w]
      BY <2>5 DEF Output
    <3>2. w \in OwnWriter(u)
      BY <1>2 DEF OwnWriter
    <3> HIDE DEF w
    <3> QED
      BY <3>1, <3>2
  <2> QED
    BY <2>1, <2>2, <2>3, <2>4, <2>5
<1>4. OwnWriters'
  BY <1>3, ReplaceWriter DEF WriterInv
<1> QED
  BY <1>4 DEF WriterInv, PoolIsClean

LEMMA WritersAlone ==
  ASSUME NEW u \in User,
         \/ TakeForBody(u) \/ FillForBody(u) \/ ReadBytes(u) \/ ReturnBuffer(u)
         \/ FillForRequest(u) \/ Peek(u) \/ ReadRequest(u)
         \/ ReadFails(u) \/ StartHandler(u) \/ ReadBody(u) \/ Panic(u) \/ CloseBody(u)
         \/ CloseConnection(u) \/ GiveBack(u)
  PROVE  UNCHANGED <<writerPool, wbpe>>
<1> USE DEF writerVars
<1>1. CASE TakeForBody(u) \/ FillForBody(u) \/ ReadBytes(u) \/ ReturnBuffer(u)
  BY <1>1 DEF TakeForBody, FillForBody, ReadBytes, ReturnBuffer
<1>2. CASE FillForRequest(u) \/ Peek(u) \/ ReadRequest(u) \/ ReadFails(u)
  BY <1>2 DEF FillForRequest, Peek, ReadRequest, ReadFails
<1>3. CASE StartHandler(u) \/ ReadBody(u) \/ Panic(u)
  BY <1>3 DEF StartHandler, ReadBody, Panic
<1>4. CASE CloseBody(u) \/ CloseConnection(u) \/ GiveBack(u)
  BY <1>4 DEF CloseBody, CloseConnection, GiveBack
<1> QED
  BY <1>1, <1>2, <1>3, <1>4

LEMMA WriterStep == WriterInv /\ [Next]_vars => WriterInv'
<1> SUFFICES ASSUME WriterInv, [Next]_vars PROVE WriterInv'
  OBVIOUS
<1>1. CASE UNCHANGED <<writerPool, wbpe>>
  BY <1>1 DEF WriterInv, PoolIsClean, OwnWriters
<1>2. ASSUME NEW u \in User, HandlerTake(u) PROVE WriterInv'
  BY <1>2, TakeWriterKeeps DEF HandlerTake
<1>3. ASSUME NEW u \in User, WriteResponse(u) PROVE WriterInv'
  BY <1>3, OutputKeeps DEF WriteResponse
<1>4. ASSUME NEW u \in User, GiveWriterBack(u) PROVE WriterInv'
  BY <1>4, GiveWriterKeeps DEF GiveWriterBack
<1>5. CASE UNCHANGED vars
  BY <1>1, <1>5 DEF vars, writerVars
<1> QED
  BY <1>1, <1>2, <1>3, <1>4, <1>5, WritersAlone DEF Next

-----------------------------------------------------------------------------
\* A connection's writer holds output and errors of this connection only.
THEOREM CleanWriters == Spec => []WriterIsClean
<1>1. WriterInv => WriterIsClean
  BY DEF WriterInv, OwnWriters, OwnWriter, WriterIsClean
<1>2. Spec => []WriterInv
  BY WriterInit, WriterStep, PTL DEF Spec
<1> QED
  BY <1>1, <1>2, PTL

-----------------------------------------------------------------------------
(* The readers: types and the places of users.                             *)

Byte == User \X Nat

PC == {"new", "reading", "installed", "ignored", "peek", "read", "pipeline", "write",
       "close", "giveWriter", "give", "done"}

TypeOK ==
  /\ use \in {"server", "filter"} /\ returns \in Nat
  /\ data \in [User -> Seq({"x", "nul", "get", "post", "body"})]
  /\ pos \in [User -> Nat]
  /\ pool \in Seq(User)
  /\ source \in [User -> User]
  /\ buffer \in [User -> Seq(Byte)]
  /\ kept \in [User -> {None, "EOF", "error"}]
  /\ pc \in [User -> PC]
  /\ bpe \in [User -> User]
  /\ got \in [User -> Seq(Byte)]
  /\ returned \in [User -> Nat]
  /\ bodyLeft \subseteq User /\ loose \subseteq User /\ panicked \subseteq User
  /\ closed \subseteq User /\ ended \subseteq User

\* Bytes k+1, k+2, ... of u.
Run(s, u, k) == \A i \in 1..Len(s) : s[i] = <<u, k + i>>

-----------------------------------------------------------------------------
LEMMA Least ==
  ASSUME NEW T \in SUBSET Nat, T # {}
  PROVE  \E x \in T : \A y \in T : x <= y
<1> DEFINE R == OpToRel(<, Nat)
<1>1. IsWellFoundedOn(R, Nat)
  BY NatLessThanWellFounded
<1>2. \A x, y \in Nat : <<y, x>> \in R <=> y < x
  BY DEF OpToRel
<1> HIDE DEF R
<1>3. PICK x \in T : \A y \in T : ~(<<y, x>> \in R)
  BY <1>1, WFMin
<1>4. \A y \in T : x \in Nat /\ y \in Nat /\ ~(y < x)
  BY <1>2, <1>3
<1> QED
  BY <1>4

\* What becomes of a run of bytes.
LEMMA RunEmpty == \A u, k : Run(<<>>, u, k)
  BY DEF Run

LEMMA RunTail ==
  ASSUME NEW s \in Seq(Byte), s # <<>>, NEW u \in User, NEW k \in Nat, Run(s, u, k)
  PROVE  /\ Head(s) = <<u, k + 1>> /\ Head(s) \in Byte
         /\ Tail(s) \in Seq(Byte) /\ Len(Tail(s)) + 1 = Len(s)
         /\ Run(Tail(s), u, k + 1)
<1>1. /\ Head(s) = s[1] /\ Len(s) \in Nat /\ Len(s) >= 1 /\ s[1] \in Byte
      /\ Tail(s) \in Seq(Byte) /\ Len(Tail(s)) = Len(s) - 1
      /\ \A i \in 1..Len(Tail(s)) : Tail(s)[i] = s[i + 1]
  BY HeadTailProperties, EmptySeq
<1>2. ASSUME NEW i \in 1..Len(Tail(s)) PROVE Tail(s)[i] = <<u, (k + 1) + i>>
  <2>1. i + 1 \in 1..Len(s) /\ k + (i + 1) = (k + 1) + i
    BY <1>1
  <2> QED
    BY <1>1, <2>1 DEF Run
<1> QED
  BY <1>1, <1>2 DEF Run

LEMMA RunAppend ==
  ASSUME NEW s \in Seq(Byte), NEW u \in User, NEW k \in Nat, Run(s, u, k)
  PROVE  LET t == Append(s, <<u, k + Len(s) + 1>>)
         IN  t \in Seq(Byte) /\ Len(t) = Len(s) + 1 /\ Run(t, u, k)
<1> DEFINE b == <<u, k + Len(s) + 1>>
<1>1. Len(s) \in Nat /\ b \in Byte
  BY LenProperties DEF Byte
<1>2. /\ Append(s, b) \in Seq(Byte) /\ Len(Append(s, b)) = Len(s) + 1
      /\ \A i \in 1..Len(s) : Append(s, b)[i] = s[i]
      /\ Append(s, b)[Len(s) + 1] = b
  BY <1>1, AppendProperties
<1>3. ASSUME NEW i \in 1..Len(Append(s, b)) PROVE Append(s, b)[i] = <<u, k + i>>
  <2>1. CASE i \in 1..Len(s)
    BY <1>2, <2>1 DEF Run
  <2>2. CASE i = Len(s) + 1
    <3>1. k + Len(s) + 1 = k + i
      BY <1>1, <2>2
    <3> QED
      BY <1>2, <2>2, <3>1
  <2> QED
    BY <1>1, <1>2, <2>1, <2>2
<1> QED
  BY <1>2, <1>3 DEF Run

LEMMA RunConcat ==
  ASSUME NEW s \in Seq(Byte), NEW u \in User, NEW k \in Nat, Run(s, u, k), NEW n \in Nat
  PROVE  LET t == s \o [i \in 1..n |-> <<u, (k + Len(s)) + i>>]
         IN  t \in Seq(Byte) /\ Len(t) = Len(s) + n /\ Run(t, u, k)
<1> DEFINE m == k + Len(s)
           r == [i \in 1..n |-> <<u, m + i>>]
<1>1. Len(s) \in Nat /\ m \in Nat
  BY LenProperties
<1>2. r \in Seq(Byte) /\ Len(r) = n
  <2>1. \A i \in 1..n : <<u, m + i>> \in Byte
    BY <1>1 DEF Byte
  <2>2. r \in [1..n -> Byte]
    BY <2>1
  <2> HIDE DEF r
  <2> QED
    BY <2>2, SeqDef
<1>3. /\ s \o r \in Seq(Byte) /\ Len(s \o r) = Len(s) + Len(r)
      /\ \A i \in 1..Len(s) + Len(r) : (s \o r)[i] = IF i <= Len(s) THEN s[i] ELSE r[i - Len(s)]
  <2> HIDE DEF r
  <2> QED
    BY <1>2, ConcatProperties
<1>4. ASSUME NEW i \in 1..Len(s \o r) PROVE (s \o r)[i] = <<u, k + i>>
  <2>1. CASE i <= Len(s)
    BY <1>1, <1>2, <1>3, <2>1 DEF Run
  <2>2. CASE ~(i <= Len(s))
    <3>1. i - Len(s) \in 1..n /\ m + (i - Len(s)) = k + i
      BY <1>1, <1>2, <1>3, <2>2
    <3>2. r[i - Len(s)] = <<u, m + (i - Len(s))>>
      BY <3>1
    <3> HIDE DEF r, m
    <3> QED
      BY <1>2, <1>3, <2>2, <3>1, <3>2
  <2> QED
    BY <2>1, <2>2
<1> QED
  BY <1>2, <1>3, <1>4 DEF Run

LEMMA SplitTypes ==
  ASSUME NEW s \in Seq(Byte), NEW m \in 1..Len(s)
  PROVE  SubSeq(s, 1, m) \in Seq(Byte) /\ SubSeq(s, m + 1, Len(s)) \in Seq(Byte)
<1>1. Len(s) \in Nat /\ \A i \in 1..Len(s) : s[i] \in Byte
  BY LenProperties
<1>2. SubSeq(s, 1, m) \in Seq(Byte)
  BY <1>1, SubSeqProperties
<1>3. SubSeq(s, m + 1, Len(s)) \in Seq(Byte)
  BY <1>1, SubSeqProperties
<1> QED
  BY <1>2, <1>3

LEMMA RunSplit ==
  ASSUME NEW s \in Seq(Byte), NEW u \in User, NEW k \in Nat, Run(s, u, k), NEW m \in 1..Len(s)
  PROVE  LET a == SubSeq(s, 1, m)
             b == SubSeq(s, m + 1, Len(s))
         IN  /\ a \in Seq(Byte) /\ Len(a) = m /\ Run(a, u, k)
             /\ b \in Seq(Byte) /\ Len(b) = Len(s) - m /\ Run(b, u, k + m)
<1> DEFINE a == SubSeq(s, 1, m)
           b == SubSeq(s, m + 1, Len(s))
<1>1. Len(s) \in Nat /\ m \in Nat /\ m >= 1 /\ m <= Len(s) /\ \A i \in 1..Len(s) : s[i] \in Byte
  BY LenProperties
<1>2. a \in Seq(Byte) /\ Len(a) = m /\ \A i \in 1..m : a[i] = s[i]
  <2>1. /\ a \in Seq(Byte) /\ Len(a) = (IF 1 <= m THEN m - 1 + 1 ELSE 0)
        /\ \A i \in 1..(m - 1 + 1) : a[i] = s[1 + i - 1]
    BY <1>1, SubSeqProperties
  <2>2. m - 1 + 1 = m /\ \A i \in 1..m : 1 + i - 1 = i
    BY <1>1
  <2> QED
    BY <1>1, <2>1, <2>2
<1>3. b \in Seq(Byte) /\ Len(b) = Len(s) - m /\ \A i \in 1..Len(b) : b[i] = s[m + i]
  <2>1. /\ b \in Seq(Byte)
        /\ Len(b) = (IF m + 1 <= Len(s) THEN Len(s) - (m + 1) + 1 ELSE 0)
        /\ \A i \in 1..(Len(s) - (m + 1) + 1) : b[i] = s[(m + 1) + i - 1]
    BY <1>1, SubSeqProperties
  <2>2. Len(s) - (m + 1) + 1 = Len(s) - m /\ \A i \in 1..(Len(s) - m) : (m + 1) + i - 1 = m + i
    BY <1>1
  <2>3. Len(b) = Len(s) - m
    BY <1>1, <2>1
  <2> QED
    BY <2>1, <2>2, <2>3
<1>4. Run(a, u, k)
  BY <1>1, <1>2 DEF Run
<1>5. ASSUME NEW i \in 1..Len(b) PROVE b[i] = <<u, (k + m) + i>>
  <2>1. m + i \in 1..Len(s) /\ k + (m + i) = (k + m) + i
    BY <1>1, <1>3
  <2> QED
    BY <1>3, <2>1 DEF Run
<1> QED
  BY <1>2, <1>3, <1>4, <1>5 DEF Run

-----------------------------------------------------------------------------
(* What the operations on pools and entries do.                            *)

\* A Take: the first entry of the pool, or a new one.
LEMMA TakeFacts ==
  ASSUME TypeOK, NEW u \in User, Take(u)
  PROVE  \/ /\ pool = <<>> /\ UNCHANGED <<pool, bpe, source, buffer>>
         \/ /\ pool # <<>> /\ Head(pool) \in User /\ Head(pool) = pool[1]
            /\ pool' \in Seq(User) /\ Len(pool') = Len(pool) - 1
            /\ \A i \in 1..Len(pool') : pool'[i] = pool[i + 1]
            /\ bpe' = [bpe EXCEPT ![u] = Head(pool)]
            /\ source' = [source EXCEPT ![Head(pool)] = u]
            /\ buffer' = [buffer EXCEPT ![Head(pool)] = <<>>]
<1>1. CASE pool = <<>>
  BY <1>1 DEF Take
<1>2. CASE pool # <<>>
  <2>1. /\ Head(pool) \in User /\ Head(pool) = pool[1]
        /\ Tail(pool) \in Seq(User) /\ Len(Tail(pool)) = Len(pool) - 1
        /\ \A i \in 1..Len(Tail(pool)) : Tail(pool)[i] = pool[i + 1]
    BY <1>2, HeadTailProperties DEF TypeOK
  <2> QED
    BY <1>2, <2>1 DEF Take
<1> QED
  BY <1>1, <1>2

LEMMA GiveFacts ==
  ASSUME TypeOK, NEW u \in User, Give(u)
  PROVE  /\ pool' \in Seq(User) /\ Len(pool) \in Nat
         /\ \/ pool' = pool
            \/ /\ Len(pool') = Len(pool) + 1 /\ pool'[Len(pool) + 1] = bpe[u]
               /\ \A i \in 1..Len(pool) : pool'[i] = pool[i]
<1>1. pool \in Seq(User) /\ bpe[u] \in User /\ Len(pool) \in Nat
  BY LenProperties DEF TypeOK
<1>2. /\ Append(pool, bpe[u]) \in Seq(User) /\ Len(Append(pool, bpe[u])) = Len(pool) + 1
      /\ \A i \in 1..Len(pool) : Append(pool, bpe[u])[i] = pool[i]
      /\ Append(pool, bpe[u])[Len(pool) + 1] = bpe[u]
  BY <1>1, AppendProperties
<1> QED
  BY <1>1, <1>2 DEF Give

\* A Fill of an entry that reads from s: some bytes, an error, or both.
LEMMA FillFacts ==
  ASSUME TypeOK, NEW e \in User, Fill(e)
  PROVE  LET s == source[e] IN
         /\ kept[e] = None /\ UNCHANGED source /\ s \in User
         /\ \E n \in Nat, end \in {None, "EOF", "error"} :
              /\ n = 0 \/ (s \notin closed /\ n <= Limit(s) - pos[s])
              /\ end = "EOF" => s \notin closed /\ n = Limit(s) - pos[s]
              /\ pos' = [pos EXCEPT ![s] = @ + n]
              /\ buffer' = [buffer EXCEPT ![e] = @ \o [i \in 1..n |-> <<s, pos[s] + i>>]]
              /\ kept' = [kept EXCEPT ![e] = end]
              /\ ended' = IF end = None THEN ended ELSE ended \cup {s}
<1> DEFINE s == source[e]
           available == IF s \in closed THEN 0 ELSE Limit(s) - pos[s]
<1>1. s \in User
  BY DEF TypeOK
<1>2. PICK n \in 0..available, end \in {None, "EOF", "error"} :
        /\ end = "EOF" => s \notin closed /\ n = available
        /\ pos' = [pos EXCEPT ![s] = @ + n]
        /\ buffer' = [buffer EXCEPT ![e] = @ \o [i \in 1..n |-> <<s, pos[s] + i>>]]
        /\ kept' = [kept EXCEPT ![e] = end]
        /\ ended' = IF end = None THEN ended ELSE ended \cup {s}
  BY DEF Fill
<1>3. n \in Nat /\ (n = 0 \/ (s \notin closed /\ n <= Limit(s) - pos[s]))
  BY <1>2
<1> QED
  BY <1>1, <1>2, <1>3 DEF Fill

LEMMA FillTypes ==
  ASSUME TypeOK, NEW e \in User, Fill(e)
  PROVE  /\ pos' \in [User -> Nat] /\ buffer' \in [User -> Seq(Byte)]
         /\ kept' \in [User -> {None, "EOF", "error"}] /\ ended' \subseteq User
         /\ source' = source
<1> DEFINE s == source[e]
<1>1. PICK n \in Nat, end \in {None, "EOF", "error"} :
        /\ n = 0 \/ (s \notin closed /\ n <= Limit(s) - pos[s])
        /\ end = "EOF" => s \notin closed /\ n = Limit(s) - pos[s]
        /\ pos' = [pos EXCEPT ![s] = @ + n]
        /\ buffer' = [buffer EXCEPT ![e] = @ \o [i \in 1..n |-> <<s, pos[s] + i>>]]
        /\ kept' = [kept EXCEPT ![e] = end]
        /\ ended' = IF end = None THEN ended ELSE ended \cup {s}
  BY FillFacts
<1>2. s \in User /\ pos[s] \in Nat /\ buffer[e] \in Seq(Byte)
  BY DEF TypeOK
<1>3. [i \in 1..n |-> <<s, pos[s] + i>>] \in Seq(Byte)
  <2>1. [i \in 1..n |-> <<s, pos[s] + i>>] \in [1..n -> Byte]
    BY <1>2 DEF Byte
  <2> QED
    BY <2>1, SeqDef
<1>4. buffer[e] \o [i \in 1..n |-> <<s, pos[s] + i>>] \in Seq(Byte)
  <2> DEFINE r == [i \in 1..n |-> <<s, pos[s] + i>>]
  <2> HIDE DEF r
  <2>1. buffer[e] \o r \in Seq(Byte)
    BY <1>2, <1>3, ConcatProperties DEF r
  <2> QED
    BY <2>1 DEF r
<1>5. buffer' \in [User -> Seq(Byte)]
  BY <1>1, <1>4 DEF TypeOK
<1>6. pos' \in [User -> Nat] /\ kept' \in [User -> {None, "EOF", "error"}]
  BY <1>1, <1>2 DEF TypeOK
<1>7. ended' \subseteq User
  BY <1>1, <1>2 DEF TypeOK
<1> QED
  BY <1>5, <1>6, <1>7, FillFacts

\* One byte is read through the entry of u.
LEMMA ConsumeFacts ==
  ASSUME TypeOK, NEW u \in User, Consume(u)
  PROVE  LET e == bpe[u] IN
         /\ e \in User /\ buffer[e] # <<>>
         /\ got' = [got EXCEPT ![u] = Append(got[u], Head(buffer[e]))]
         /\ buffer' = [buffer EXCEPT ![e] = Tail(buffer[e])]
         /\ got' \in [User -> Seq(Byte)] /\ buffer' \in [User -> Seq(Byte)]
         /\ Append(got[u], Head(buffer[e])) # <<>>
<1>1. /\ bpe[u] \in User /\ buffer[bpe[u]] \in Seq(Byte) /\ buffer[bpe[u]] # <<>>
      /\ got[u] \in Seq(Byte)
  BY DEF TypeOK, Consume
<1>2. Head(buffer[bpe[u]]) \in Byte /\ Tail(buffer[bpe[u]]) \in Seq(Byte)
  BY <1>1, HeadTailProperties
<1>3. /\ Append(got[u], Head(buffer[bpe[u]])) \in Seq(Byte)
      /\ Append(got[u], Head(buffer[bpe[u]])) # <<>>
  BY <1>1, <1>2, AppendProperties
<1> QED
  BY <1>1, <1>2, <1>3 DEF TypeOK, Consume

\* The first NUL of some bytes.
LEMMA FirstNulFacts ==
  ASSUME NEW s \in Seq(Byte), NulAt(s) # {}
  PROVE  FirstNul(s) \in NulAt(s) /\ FirstNul(s) \in 1..Len(s) /\ \A j \in NulAt(s) : FirstNul(s) <= j
<1>1. NulAt(s) \subseteq 1..Len(s) /\ NulAt(s) \in SUBSET Nat
  BY LenProperties DEF NulAt
<1>2. \E i \in NulAt(s) : \A j \in NulAt(s) : i <= j
  BY <1>1, Least
<1>3. FirstNul(s) \in NulAt(s) /\ \A j \in NulAt(s) : FirstNul(s) <= j
  BY <1>2 DEF FirstNul
<1> QED
  BY <1>1, <1>3

-----------------------------------------------------------------------------
(* Types.                                                                  *)

LEMMA TypeInit == Init => TypeOK
<1> SUFFICES ASSUME Init PROVE TypeOK
  OBVIOUS
<1>1. data \in [User -> Seq({"x", "nul", "get", "post", "body"})]
  <2>1. ASSUME NEW b \in Bodies \cup Streams \cup {<<>>}
        PROVE  b \in Seq({"x", "nul", "get", "post", "body"})
    <3>1. b \in Seq({"x", "nul"}) \/ b \in Seq({"get", "post", "body"}) \/ b = <<>>
      BY BufferAssumption
    <3> QED
      BY <3>1, SeqMonotonic, EmptySeq
  <2>2. data \in [User -> Bodies \cup Streams \cup {<<>>}]
    BY DEF Init
  <2> QED
    BY <2>1, <2>2
<1>2. <<>> \in Seq(User) /\ <<>> \in Seq(Byte)
  BY EmptySeq
<1>3. use \in {"server", "filter"} /\ returns \in Nat
  BY DEF Init
<1> QED
  BY <1>1, <1>2, <1>3 DEF Init, TypeOK, PC

LEMMA TypeStep == TypeOK /\ [Next]_vars => TypeOK'
<1> SUFFICES ASSUME TypeOK, [Next]_vars PROVE TypeOK'
  OBVIOUS
<1> USE DEF configVars, readerVars, bodyVars
<1>1. ASSUME NEW u \in User, TakeForBody(u) \/ HandlerTake(u) PROVE TypeOK'
  <2>1. /\ pool' \in Seq(User) /\ bpe' \in [User -> User] /\ source' \in [User -> User]
        /\ buffer' \in [User -> Seq(Byte)]
    <3>1. Take(u) /\ <<>> \in Seq(Byte)
      BY <1>1, EmptySeq DEF TakeForBody, HandlerTake
    <3>2. CASE UNCHANGED <<pool, bpe, source, buffer>>
      BY <3>2 DEF TypeOK
    <3>3. CASE /\ Head(pool) \in User /\ pool' \in Seq(User)
               /\ bpe' = [bpe EXCEPT ![u] = Head(pool)]
               /\ source' = [source EXCEPT ![Head(pool)] = u]
               /\ buffer' = [buffer EXCEPT ![Head(pool)] = <<>>]
      BY <3>1, <3>3 DEF TypeOK
    <3> QED
      BY <3>1, <3>2, <3>3, TakeFacts
  <2> QED
    BY <1>1, <2>1 DEF TypeOK, PC, TakeForBody, HandlerTake, Goto
<1>2. ASSUME NEW u \in User, FillForBody(u) PROVE TypeOK'
  <2>1. bpe[u] \in User /\ Fill(bpe[u])
    BY <1>2 DEF FillForBody, TypeOK
  <2> QED
    BY <1>2, <2>1, FillTypes DEF FillForBody, TypeOK
<1>3. ASSUME NEW u \in User, ReadBytes(u) PROVE TypeOK'
  <2>1. bpe[u] \in User /\ buffer[bpe[u]] \in Seq(Byte)
    BY DEF TypeOK
  <2>2. got' \in [User -> Seq(Byte)] /\ buffer' \in [User -> Seq(Byte)]
    <3>1. CASE NulAt(buffer[bpe[u]]) # {}
      <4>1. /\ SubSeq(buffer[bpe[u]], 1, FirstNul(buffer[bpe[u]])) \in Seq(Byte)
            /\ SubSeq(buffer[bpe[u]], FirstNul(buffer[bpe[u]]) + 1, Len(buffer[bpe[u]])) \in Seq(Byte)
        BY <2>1, <3>1, FirstNulFacts, SplitTypes
      <4>2. /\ got' = [got EXCEPT ![u] = SubSeq(buffer[bpe[u]], 1, FirstNul(buffer[bpe[u]]))]
            /\ buffer' = [buffer EXCEPT ![bpe[u]] =
                 SubSeq(buffer[bpe[u]], FirstNul(buffer[bpe[u]]) + 1, Len(buffer[bpe[u]]))]
        BY <1>3, <2>1, <3>1 DEF ReadBytes, TypeOK
      <4> QED
        BY <2>1, <4>1, <4>2 DEF TypeOK
    <3>2. CASE NulAt(buffer[bpe[u]]) = {}
      <4>1. /\ got' = [got EXCEPT ![u] = buffer[bpe[u]]]
            /\ buffer' = [buffer EXCEPT ![bpe[u]] = <<>>]
        BY <1>3, <3>2 DEF ReadBytes
      <4>2. <<>> \in Seq(Byte)
        BY EmptySeq
      <4> QED
        BY <2>1, <4>1, <4>2 DEF TypeOK
    <3> QED
      BY <3>1, <3>2
  <2>3. kept' \in [User -> {None, "EOF", "error"}] /\ pc' \in [User -> PC]
    BY <1>3 DEF ReadBytes, ReadErr, Goto, TypeOK, PC
  <2> QED
    BY <1>3, <2>2, <2>3 DEF ReadBytes, TypeOK
<1>4. ASSUME NEW u \in User, ReturnBuffer(u) PROVE TypeOK'
  <2>1. pool' \in Seq(User) /\ returned' \in [User -> Nat]
    <3>1. pool' \in Seq(User)
      BY <1>4, GiveFacts DEF ReturnBuffer
    <3>2. returned' = [returned EXCEPT ![u] = returned[u] + 1] /\ returned[u] + 1 \in Nat
      BY <1>4 DEF ReturnBuffer, TypeOK
    <3> QED
      BY <3>1, <3>2 DEF TypeOK
  <2> QED
    BY <1>4, <2>1 DEF ReturnBuffer, TypeOK
<1>5. ASSUME NEW u \in User, FillForRequest(u) PROVE TypeOK'
  <2>1. bpe[u] \in User /\ Fill(bpe[u])
    BY <1>5 DEF FillForRequest, TypeOK
  <2> QED
    BY <1>5, <2>1, FillTypes DEF FillForRequest, TypeOK
<1>6. ASSUME NEW u \in User, Peek(u) \/ ReadFails(u) PROVE TypeOK'
  <2>1. kept' \in [User -> {None, "EOF", "error"}] /\ pc' \in [User -> PC]
    BY <1>6 DEF Peek, ReadFails, ReadErr, Goto, TypeOK, PC
  <2> QED
    BY <1>6, <2>1 DEF Peek, ReadFails, TypeOK
<1>7. ASSUME NEW u \in User, ReadRequest(u) PROVE TypeOK'
  <2>1. got' \in [User -> Seq(Byte)] /\ buffer' \in [User -> Seq(Byte)]
    BY <1>7, ConsumeFacts DEF ReadRequest
  <2>2. pc' \in [User -> PC] /\ bodyLeft' \subseteq User
    BY <1>7 DEF ReadRequest, Goto, TypeOK, PC
  <2> QED
    BY <1>7, <2>1, <2>2 DEF ReadRequest, TypeOK
<1>8. ASSUME NEW u \in User, StartHandler(u) \/ Panic(u) PROVE TypeOK'
  BY <1>8 DEF StartHandler, Panic, Goto, TypeOK, PC
<1>9. ASSUME NEW u \in User, ReadBody(u) PROVE TypeOK'
  <2>1. bpe[u] \in User
    BY DEF TypeOK
  <2>2. /\ UNCHANGED <<configVars, pool, pc, bpe, returned, loose, panicked, closed>>
        /\ bodyLeft' \subseteq User
    BY <1>9 DEF ReadBody, TypeOK
  <2>3. CASE Consume(u) /\ UNCHANGED <<pos, source, kept, ended>>
    BY <2>2, <2>3, ConsumeFacts DEF TypeOK
  <2>4. CASE Fill(bpe[u]) /\ UNCHANGED got
    BY <2>1, <2>2, <2>4, FillTypes DEF TypeOK
  <2>5. CASE ReadErr(bpe[u]) /\ UNCHANGED <<pos, source, buffer, ended, got>>
    BY <2>2, <2>5 DEF TypeOK, ReadErr
  <2> QED
    BY <1>9, <2>3, <2>4, <2>5 DEF ReadBody
<1>10. ASSUME NEW u \in User, CloseBody(u) PROVE TypeOK'
  <2>1. /\ UNCHANGED <<configVars, pos, source, ended, pool, bpe, returned, panicked, closed>>
        /\ bodyLeft' \subseteq User /\ loose' \subseteq User /\ pc' \in [User -> PC]
    BY <1>10 DEF CloseBody, TypeOK, Goto, PC
  <2>2. CASE UNCHANGED <<got, buffer, kept>>
    BY <2>1, <2>2 DEF TypeOK
  <2>3. CASE Consume(u) /\ UNCHANGED kept
    BY <2>1, <2>3, ConsumeFacts DEF TypeOK
  <2>4. CASE ReadErr(bpe[u]) /\ UNCHANGED <<got, buffer>>
    BY <2>1, <2>4 DEF TypeOK, ReadErr
  <2> QED
    BY <1>10, <2>2, <2>3, <2>4 DEF CloseBody
<1>11. ASSUME NEW u \in User, WriteResponse(u) \/ CloseConnection(u) \/ GiveWriterBack(u) PROVE TypeOK'
  BY <1>11 DEF WriteResponse, CloseConnection, GiveWriterBack, Goto, TypeOK, PC
<1>12. ASSUME NEW u \in User, GiveBack(u) PROVE TypeOK'
  <2>1. pool' \in Seq(User)
    BY <1>12, GiveFacts DEF GiveBack
  <2> QED
    BY <1>12, <2>1 DEF GiveBack, Goto, TypeOK, PC
<1>13. CASE UNCHANGED vars
  BY <1>13 DEF vars, TypeOK
<1> QED
  BY <1>1, <1>2, <1>3, <1>4, <1>5, <1>6, <1>7, <1>8, <1>9, <1>10, <1>11, <1>12, <1>13 DEF Next

-----------------------------------------------------------------------------
(* Where users are, and what that says of them.                            *)

Places ==
  \A u \in User :
    /\ \/ pc[u] = "new"
       \/ use = "filter" /\ u \in Post /\ pc[u] \in {"reading", "installed", "ignored"}
       \/ /\ use = "server" /\ u \in Connection
          /\ pc[u] \in {"peek", "read", "pipeline", "write", "close", "giveWriter", "give", "done"}
    /\ returned[u] = 0 \/ (pc[u] = "installed" /\ returned[u] <= returns)
    /\ u \in closed => pc[u] \in {"giveWriter", "give", "done"}
    /\ u \in panicked => pc[u] \in {"close", "giveWriter", "give", "done"}
    /\ u \in loose => pc[u] = "pipeline" \/ u \in panicked

LEMMA PlacesInit == Init => Places
  BY DEF Init, Places

LEMMA PlacesStep == TypeOK /\ Places /\ [Next]_vars => Places'
<1> SUFFICES ASSUME TypeOK, Places, [Next]_vars PROVE Places'
  OBVIOUS
<1>0. /\ pc \in [User -> PC] /\ returned \in [User -> Nat] /\ returns \in Nat
      /\ bodyLeft \subseteq User /\ loose \subseteq User /\ panicked \subseteq User
      /\ closed \subseteq User
  BY DEF TypeOK
<1> USE <1>0 DEF Places, Goto, configVars, readerVars, bodyVars
<1>1. ASSUME NEW u \in User, TakeForBody(u) \/ HandlerTake(u) PROVE Places'
  BY <1>1 DEF TakeForBody, HandlerTake
<1>2. ASSUME NEW u \in User, FillForBody(u) \/ FillForRequest(u) PROVE Places'
  BY <1>2 DEF FillForBody, FillForRequest
<1>3. ASSUME NEW u \in User, ReadBytes(u) PROVE Places'
  BY <1>3 DEF ReadBytes
<1>4. ASSUME NEW u \in User, ReturnBuffer(u) PROVE Places'
  <2>1. /\ pc[u] = "installed" /\ returned' = [returned EXCEPT ![u] = returned[u] + 1]
        /\ returned[u] + 1 <= returns
        /\ UNCHANGED <<use, pc, loose, panicked, closed, returns>>
    BY <1>4 DEF ReturnBuffer
  <2>2. /\ returned'[u] <= returns /\ \A v \in User \ {u} : returned'[v] = returned[v]
    BY <2>1
  <2> QED
    BY <2>1, <2>2
<1>5. ASSUME NEW u \in User, Peek(u) \/ ReadFails(u) PROVE Places'
  BY <1>5 DEF Peek, ReadFails
<1>6. ASSUME NEW u \in User, ReadRequest(u) PROVE Places'
  BY <1>6 DEF ReadRequest
<1>7. ASSUME NEW u \in User, StartHandler(u) \/ Panic(u) PROVE Places'
  BY <1>7 DEF StartHandler, Panic
<1>8. ASSUME NEW u \in User, ReadBody(u) PROVE Places'
  BY <1>8 DEF ReadBody
<1>9. ASSUME NEW u \in User, CloseBody(u) PROVE Places'
  BY <1>9 DEF CloseBody
<1>10. ASSUME NEW u \in User, WriteResponse(u) PROVE Places'
  BY <1>10 DEF WriteResponse
<1>11. ASSUME NEW u \in User, CloseConnection(u) \/ GiveWriterBack(u) \/ GiveBack(u) PROVE Places'
  BY <1>11 DEF CloseConnection, GiveWriterBack, GiveBack
<1>12. CASE UNCHANGED vars
  BY <1>12 DEF vars
<1> QED
  BY <1>1, <1>2, <1>3, <1>4, <1>5, <1>6, <1>7, <1>8, <1>9, <1>10, <1>11, <1>12 DEF Next

\* A reader that has got into two hands stays there.
LEMMA TwoHandsStay ==
  ASSUME TypeOK, Places, [Next]_vars, ~InTwoHands'
  PROVE  ~InTwoHands /\ returns <= 1
<1>1. returns' = returns
  <2> USE DEF configVars
  <2>1. ASSUME NEW u \in User,
               \/ TakeForBody(u) \/ FillForBody(u) \/ ReadBytes(u) \/ ReturnBuffer(u)
               \/ HandlerTake(u) \/ FillForRequest(u) \/ Peek(u) \/ ReadRequest(u)
        PROVE  returns' = returns
    BY <2>1 DEF TakeForBody, FillForBody, ReadBytes, ReturnBuffer, HandlerTake, FillForRequest,
                Peek, ReadRequest
  <2>2. ASSUME NEW u \in User,
               \/ ReadFails(u) \/ StartHandler(u) \/ ReadBody(u) \/ Panic(u) \/ CloseBody(u)
               \/ WriteResponse(u) \/ CloseConnection(u) \/ GiveWriterBack(u) \/ GiveBack(u)
        PROVE  returns' = returns
    BY <2>2 DEF ReadFails, StartHandler, ReadBody, Panic, CloseBody, WriteResponse,
                CloseConnection, GiveWriterBack, GiveBack
  <2>3. CASE UNCHANGED vars
    BY <2>3 DEF vars
  <2> QED
    BY <2>1, <2>2, <2>3 DEF Next
<1>2. panicked \cap loose \subseteq panicked' \cap loose'
  <2> USE DEF bodyVars
  <2>1. ASSUME NEW u \in User,
               \/ TakeForBody(u) \/ FillForBody(u) \/ ReadBytes(u) \/ ReturnBuffer(u)
               \/ HandlerTake(u) \/ FillForRequest(u) \/ Peek(u) \/ ReadRequest(u)
        PROVE  UNCHANGED <<panicked, loose>>
    BY <2>1 DEF TakeForBody, FillForBody, ReadBytes, ReturnBuffer, HandlerTake, FillForRequest,
                Peek, ReadRequest
  <2>2. ASSUME NEW u \in User,
               \/ ReadFails(u) \/ ReadBody(u)
               \/ WriteResponse(u) \/ CloseConnection(u) \/ GiveWriterBack(u) \/ GiveBack(u)
        PROVE  UNCHANGED <<panicked, loose>>
    BY <2>2 DEF ReadFails, ReadBody, WriteResponse, CloseConnection, GiveWriterBack, GiveBack
  <2>3. ASSUME NEW u \in User, StartHandler(u) \/ Panic(u) \/ CloseBody(u)
        PROVE  panicked \cap loose \subseteq panicked' \cap loose'
    BY <2>3 DEF StartHandler, Panic, CloseBody, Places
  <2>4. CASE UNCHANGED vars
    BY <2>4 DEF vars
  <2> QED
    BY <2>1, <2>2, <2>3, <2>4 DEF Next
<1> QED
  BY <1>1, <1>2 DEF InTwoHands, TypeOK

-----------------------------------------------------------------------------
(* Whose an entry is.                                                      *)

\* u has an entry that it has not given back.
Holds(u) == pc[u] \notin {"new", "done"} /\ returned[u] = 0

InPool(e) == \E i \in 1..Len(pool) : pool[i] = e

\* An entry is held by one user, or in the pool once, or nowhere.
Exclusive ==
  /\ \A u, v \in User : Holds(u) /\ Holds(v) /\ bpe[u] = bpe[v] => u = v
  /\ \A u \in User : Holds(u) => ~InPool(bpe[u])
  /\ \A i, j \in 1..Len(pool) : pool[i] = pool[j] => i = j

\* The entry that is named for a user comes into being when he finds the pool empty.
Created ==
  /\ \A u \in User : pc[bpe[u]] = "new" => bpe[u] = u
  /\ \A u \in User : pc[u] = "new" => bpe[u] = u /\ ~InPool(u)

\* An entry that may become the user's, or is.
Has(u) == Holds(u) \/ pc[u] = "new"

LEMMA HaveApart ==
  ASSUME TypeOK, Exclusive, Created, NEW u \in User, NEW v \in User, Has(u), Has(v), u # v
  PROVE  bpe[u] # bpe[v]
<1>1. CASE Holds(u) /\ Holds(v)
  BY <1>1 DEF Exclusive
<1>2. CASE pc[u] = "new"
  BY <1>2 DEF Created
<1>3. CASE pc[v] = "new"
  BY <1>3 DEF Created
<1> QED
  BY <1>1, <1>2, <1>3 DEF Has

\* The four kinds of steps: u takes an entry, uses it, gives it back, or does
\* something else.
Taking(u) == TakeForBody(u) \/ HandlerTake(u)
Using(u) ==
  \/ FillForBody(u) \/ ReadBytes(u) \/ FillForRequest(u) \/ Peek(u) \/ ReadRequest(u)
  \/ ReadFails(u) \/ ReadBody(u) \/ CloseBody(u)
Giving(u) == ReturnBuffer(u) \/ GiveBack(u)
Else(u) ==
  \/ StartHandler(u) \/ Panic(u) \/ WriteResponse(u) \/ CloseConnection(u) \/ GiveWriterBack(u)

LEMMA NextCases ==
  ASSUME Next
  PROVE  \E u \in User : Taking(u) \/ Using(u) \/ Giving(u) \/ Else(u)
  BY DEF Next, Taking, Using, Giving, Else

\* What stays the same about the other users, and about the other entries.
OneUser(u) ==
  /\ \A v \in User \ {u} :
       /\ pc'[v] = pc[v] /\ bpe'[v] = bpe[v] /\ returned'[v] = returned[v]
       /\ got'[v] = got[v] /\ pos'[v] = pos[v]
  /\ ended \subseteq ended'
  /\ UNCHANGED configVars

OneEntry(e) ==
  \A f \in User \ {e} : source'[f] = source[f] /\ buffer'[f] = buffer[f] /\ kept'[f] = kept[f]

LEMMA UsingHolds ==
  ASSUME TypeOK, Places, ~InTwoHands, NEW u \in User, Using(u)
  PROVE  Holds(u)
<1>1. CASE ReadBody(u)
  BY <1>1 DEF ReadBody, InTwoHands, Places, Holds, TypeOK
<1>2. CASE ~ReadBody(u)
  <2>1. pc[u] \in {"reading", "peek", "read", "pipeline"}
    BY <1>2 DEF Using, FillForBody, ReadBytes, FillForRequest, Peek, ReadRequest, ReadFails, CloseBody
  <2> QED
    BY <2>1 DEF Places, Holds, TypeOK
<1> QED
  BY <1>1, <1>2

LEMMA UsingLocal ==
  ASSUME TypeOK, NEW u \in User, Using(u), Holds(u), source[bpe[u]] = u
  PROVE  /\ OneUser(u) /\ OneEntry(bpe[u])
         /\ UNCHANGED <<pool, bpe, returned, source>>
         /\ pc[u] # "new" /\ Holds(u)'
<1> DEFINE e == bpe[u]
           Local == /\ UNCHANGED source
                    /\ \A v \in User \ {u} : got'[v] = got[v] /\ pos'[v] = pos[v]
                    /\ ended \subseteq ended'
                    /\ \A f \in User \ {e} : buffer'[f] = buffer[f] /\ kept'[f] = kept[f]
<1>0. /\ pc \in [User -> PC] /\ got \in [User -> Seq(Byte)] /\ pos \in [User -> Nat]
      /\ buffer \in [User -> Seq(Byte)] /\ kept \in [User -> {None, "EOF", "error"}]
      /\ source[e] = u /\ e \in User
  BY DEF TypeOK
<1>1. UNCHANGED <<pool, bpe, returned, configVars>>
  BY DEF configVars, Using, FillForBody, ReadBytes, FillForRequest, Peek, ReadRequest, ReadFails,
         ReadBody, CloseBody
<1>2. pc[u] # "new" /\ Holds(u)' /\ \A v \in User \ {u} : pc'[v] = pc[v]
  <2> USE <1>0, <1>1 DEF Goto
  <2>1. CASE FillForBody(u) \/ FillForRequest(u) \/ ReadBody(u)
    BY <2>1 DEF FillForBody, FillForRequest, ReadBody, Holds
  <2>2. CASE ReadBytes(u) \/ CloseBody(u)
    BY <2>2 DEF ReadBytes, CloseBody, Holds
  <2>3. CASE Peek(u) \/ ReadRequest(u) \/ ReadFails(u)
    BY <2>3 DEF Peek, ReadRequest, ReadFails, Holds
  <2> QED
    BY <2>1, <2>2, <2>3 DEF Using
<1>3. ASSUME Fill(e), UNCHANGED got PROVE Local
  <2> HIDE DEF e, Local
  <2>0. e \in User /\ Fill(e) /\ UNCHANGED <<source, got>>
    BY <1>0, <1>3 DEF Fill
  <2>1. PICK n \in Nat, end \in {None, "EOF", "error"} :
          /\ n = 0 \/ (source[e] \notin closed /\ n <= Limit(source[e]) - pos[source[e]])
          /\ end = "EOF" => source[e] \notin closed /\ n = Limit(source[e]) - pos[source[e]]
          /\ pos' = [pos EXCEPT ![source[e]] = @ + n]
          /\ buffer' = [buffer EXCEPT ![e] = @ \o [i \in 1..n |-> <<source[e], pos[source[e]] + i>>]]
          /\ kept' = [kept EXCEPT ![e] = end]
          /\ ended' = IF end = None THEN ended ELSE ended \cup {source[e]}
    BY <2>0, FillFacts
  <2> QED
    BY <1>0, <2>0, <2>1 DEF Local
<1>4. ASSUME Consume(u), UNCHANGED <<pos, source, kept, ended>> PROVE Local
  BY <1>0, <1>4, ConsumeFacts
<1>5. ASSUME ReadErr(e), UNCHANGED <<pos, source, buffer, ended, got>> PROVE Local
  BY <1>0, <1>5 DEF ReadErr
<1>6. ASSUME UNCHANGED <<pos, source, buffer, ended, got, kept>> PROVE Local
  BY <1>0, <1>6
<1>7. ASSUME ReadBytes(u) PROVE Local
  BY <1>0, <1>7 DEF ReadBytes, ReadErr
<1>8. Local
  <2> HIDE DEF Local
  <2>1. CASE FillForBody(u) \/ FillForRequest(u)
    BY <1>3, <2>1 DEF FillForBody, FillForRequest
  <2>2. CASE Peek(u) \/ ReadRequest(u) \/ ReadFails(u)
    BY <1>4, <1>5, <1>6, <2>2 DEF Peek, ReadRequest, ReadFails
  <2>3. CASE ReadBody(u) \/ CloseBody(u)
    BY <1>3, <1>4, <1>5, <1>6, <2>3 DEF ReadBody, CloseBody
  <2> QED
    BY <1>7, <2>1, <2>2, <2>3 DEF Using
<1> QED
  BY <1>1, <1>2, <1>8 DEF OneUser, OneEntry

LEMMA GivingLocal ==
  ASSUME TypeOK, Places, NEW u \in User, Giving(u), returns <= 1
  PROVE  /\ OneUser(u) /\ UNCHANGED <<bpe, readerVars, got, loose, panicked>>
         /\ Holds(u) /\ ~Holds(u)' /\ pc'[u] # "new" /\ Give(u)
<1>1. CASE ReturnBuffer(u)
  BY <1>1 DEF ReturnBuffer, TypeOK, Places, Holds, OneUser, configVars, readerVars, bodyVars
<1>2. CASE GiveBack(u)
  BY <1>2 DEF GiveBack, TypeOK, Places, Holds, OneUser, configVars, readerVars, bodyVars, Goto
<1> QED
  BY <1>1, <1>2 DEF Giving

LEMMA ElseLocal ==
  ASSUME TypeOK, Places, NEW u \in User, Else(u)
  PROVE  /\ OneUser(u) /\ UNCHANGED <<bpe, pool, readerVars, got, returned>>
         /\ Holds(u) /\ Holds(u)' /\ pc'[u] # "new"
<1> USE DEF TypeOK, Places, Holds, OneUser, configVars, readerVars, Goto
<1>1. CASE StartHandler(u) \/ Panic(u)
  BY <1>1 DEF StartHandler, Panic
<1>2. CASE WriteResponse(u)
  BY <1>2 DEF WriteResponse
<1>3. CASE CloseConnection(u) \/ GiveWriterBack(u)
  BY <1>3 DEF CloseConnection, GiveWriterBack
<1> QED
  BY <1>1, <1>2, <1>3 DEF Else

LEMMA TakingLocal ==
  ASSUME TypeOK, Places, Created, NEW u \in User, Taking(u)
  PROVE  /\ OneUser(u) /\ OneEntry(bpe'[u]) /\ UNCHANGED <<pos, kept, ended, got, returned>>
         /\ pc[u] = "new" /\ Holds(u)' /\ pc'[u] \in {"reading", "peek"} /\ Take(u)
         /\ pc' = [pc EXCEPT ![u] = pc'[u]]
         /\ bpe[u] = u /\ ~InPool(u)
         /\ pc'[u] = "peek" => u \in Connection
<1> USE DEF TypeOK, Places, Holds, OneUser, OneEntry, configVars, Goto
<1>1. pc[u] = "new" /\ Take(u) /\ UNCHANGED <<configVars, pos, kept, ended, got, returned>>
      /\ (pc' = [pc EXCEPT ![u] = "reading"] \/ (pc' = [pc EXCEPT ![u] = "peek"] /\ u \in Connection))
  BY DEF Taking, TakeForBody, HandlerTake
<1>2. returned[u] = 0
  BY <1>1
<1>3. (\A v \in User \ {u} : bpe'[v] = bpe[v]) /\ OneEntry(bpe'[u])
  <2>1. CASE UNCHANGED <<pool, bpe, source, buffer>>
    BY <1>1, <2>1
  <2>2. CASE /\ Head(pool) \in User /\ bpe' = [bpe EXCEPT ![u] = Head(pool)]
             /\ source' = [source EXCEPT ![Head(pool)] = u]
             /\ buffer' = [buffer EXCEPT ![Head(pool)] = <<>>]
    BY <1>1, <2>2
  <2> QED
    BY <1>1, <2>1, <2>2, TakeFacts
<1> QED
  BY <1>1, <1>2, <1>3 DEF Created

-----------------------------------------------------------------------------
(* Whose the bytes are.                                                    *)

\* Nothing has happened to the entry that will be named for u.
Unused(u) ==
  source[u] = u /\ buffer[u] = <<>> /\ kept[u] = None /\ pos[u] = 0 /\ got[u] = <<>>

\* What u has read, what its entry holds and what its source has left are one
\* after the other.
Stream(u) ==
  /\ pc[u] = "new" => Unused(u)
  /\ Run(got[u], u, 0)
  /\ pos[u] <= Limit(u)
  /\ Holds(u) =>
       /\ source[bpe[u]] = u
       /\ pos[u] = Len(got[u]) + Len(buffer[bpe[u]])
       /\ Run(buffer[bpe[u]], u, Len(got[u]))

Owned == Exclusive /\ Created /\ \A u \in User : Stream(u)

LEMMA LimitType == ASSUME TypeOK, NEW u \in User PROVE Limit(u) \in Nat
<1>1. Len(data[u]) \in Nat /\ MaxForm \in Nat
  BY LenProperties, BufferAssumption DEF TypeOK
<1> QED
  BY <1>1 DEF Limit

LEMMA OwnedInit == Init => Owned
<1> SUFFICES ASSUME Init PROVE Owned
  OBVIOUS
<1> USE DEF Init
<1>1. TypeOK
  BY TypeInit
<1>2. Len(pool) = 0 /\ \A u \in User : Len(got[u]) = 0 /\ Len(buffer[u]) = 0
  BY EmptySeq
<1>3. Exclusive /\ Created
  BY <1>2 DEF Exclusive, Created, Holds, InPool
<1>4. ASSUME NEW u \in User PROVE Stream(u)
  <2>1. 0 <= Limit(u) /\ pos[u] = 0
    BY <1>1, LimitType
  <2>2. Run(got[u], u, 0)
    BY RunEmpty
  <2> QED
    BY <2>1, <2>2 DEF Stream, Unused, Holds
<1> QED
  BY <1>3, <1>4 DEF Owned

\* A step of u that leaves it with the entry it had.
LEMMA HoldKeepsOwners ==
  ASSUME TypeOK, Exclusive, Created, NEW u \in User, OneUser(u), UNCHANGED <<bpe, pool>>,
         Holds(u), Holds(u)'
  PROVE  Exclusive' /\ Created'
<1>1. pc[u] # "new" /\ pc'[u] # "new"
  BY DEF Holds
<1>2. \A v \in User : /\ Holds(v)' <=> Holds(v)
                      /\ pc'[v] = "new" <=> pc[v] = "new"
                      /\ InPool(v)' <=> InPool(v)
                      /\ bpe'[v] = bpe[v]
  BY <1>1 DEF OneUser, Holds, InPool
<1>3. Exclusive'
  BY <1>2 DEF Exclusive, InPool
<1>4. \A v \in User : pc'[bpe[v]] = "new" => pc[bpe[v]] = "new"
  <2>1. \A v \in User : bpe[v] \in User
    BY DEF TypeOK
  <2> QED
    BY <1>1, <2>1 DEF OneUser
<1>5. Created'
  BY <1>2, <1>4 DEF Created
<1> QED
  BY <1>3, <1>5

LEMMA GivingKeepsOwners ==
  ASSUME TypeOK, Exclusive, Created, NEW u \in User, OneUser(u), UNCHANGED bpe, Give(u),
         Holds(u), ~Holds(u)', pc'[u] # "new"
  PROVE  Exclusive' /\ Created'
<1>1. /\ bpe[u] \in User /\ pc[u] # "new" /\ Len(pool) \in Nat
      /\ \A v \in User : bpe[v] \in User
  BY LenProperties DEF TypeOK, Holds
<1>2. \A v \in User : /\ Holds(v)' <=> Holds(v) /\ v # u
                      /\ pc'[v] = "new" <=> pc[v] = "new"
                      /\ bpe'[v] = bpe[v]
  BY <1>1 DEF OneUser, Holds
<1>3. \A e : InPool(e)' => InPool(e) \/ e = bpe[u]
  <2>1. CASE pool' = pool
    BY <2>1 DEF InPool
  <2>2. CASE /\ Len(pool') = Len(pool) + 1 /\ pool'[Len(pool) + 1] = bpe[u]
             /\ \A i \in 1..Len(pool) : pool'[i] = pool[i]
    <3>1. \A i \in 1..Len(pool') : i \in 1..Len(pool) \/ i = Len(pool) + 1
      BY <1>1, <2>2
    <3> QED
      BY <2>2, <3>1 DEF InPool
  <2> QED
    BY <2>1, <2>2, GiveFacts
<1>4. ASSUME NEW i \in 1..Len(pool'), NEW j \in 1..Len(pool'), pool'[i] = pool'[j]
      PROVE  i = j
  <2>1. CASE pool' = pool
    BY <1>4, <2>1 DEF Exclusive
  <2>2. CASE /\ Len(pool') = Len(pool) + 1 /\ pool'[Len(pool) + 1] = bpe[u]
             /\ \A k \in 1..Len(pool) : pool'[k] = pool[k]
    <3>1. \A k \in 1..Len(pool') : k \in 1..Len(pool) \/ k = Len(pool) + 1
      BY <1>1, <2>2
    <3>2. \A k \in 1..Len(pool) : pool[k] # bpe[u]
      BY DEF Exclusive, InPool
    <3>3. CASE i \in 1..Len(pool) /\ j \in 1..Len(pool)
      BY <1>4, <2>2, <3>3 DEF Exclusive
    <3> QED
      BY <1>4, <2>2, <3>1, <3>2, <3>3
  <2> QED
    BY <2>1, <2>2, GiveFacts
<1>5. Exclusive'
  <2>1. \A v \in User : Holds(v) /\ v # u => bpe[v] # bpe[u] /\ ~InPool(bpe[v])
    BY DEF Exclusive
  <2>2. \A v \in User : Holds(v)' => ~InPool(bpe[v])'
    BY <1>2, <1>3, <2>1
  <2>3. \A v, w \in User : Holds(v)' /\ Holds(w)' /\ bpe'[v] = bpe'[w] => v = w
    BY <1>2 DEF Exclusive
  <2> QED
    BY <1>4, <2>2, <2>3 DEF Exclusive
<1>6. Created'
  <2>1. \A v \in User : pc[v] = "new" => bpe[u] # v
    BY <1>1 DEF Created
  <2>2. \A v \in User : pc'[v] = "new" => bpe'[v] = v /\ ~InPool(v)'
    BY <1>2, <1>3, <2>1 DEF Created
  <2>3. \A v \in User : pc'[bpe'[v]] = "new" => bpe'[v] = v
    BY <1>1, <1>2 DEF Created
  <2> QED
    BY <2>2, <2>3 DEF Created
<1> QED
  BY <1>5, <1>6

\* The entry that u takes is nobody's.
LEMMA TakenIsFree ==
  ASSUME TypeOK, Exclusive, Created, NEW u \in User, pc[u] = "new", Take(u)
  PROVE  /\ bpe'[u] \in User
         /\ \A v \in User : v # u /\ Has(v) => bpe[v] # bpe'[u]
         /\ \A e \in User : InPool(e)' => InPool(e) /\ e # bpe'[u]
         /\ \A v \in User : v # u => bpe'[v] = bpe[v]
         /\ pc[bpe'[u]] = "new" => bpe'[u] = u
         /\ \A i, j \in 1..Len(pool') : pool'[i] = pool'[j] => i = j
<1>0. bpe \in [User -> User] /\ bpe[u] = u /\ ~InPool(u) /\ Len(pool) \in Nat
  BY LenProperties DEF TypeOK, Created
<1>1. CASE UNCHANGED <<pool, bpe, source, buffer>>
  <2>1. \A v \in User : v # u /\ Has(v) => bpe[v] # bpe[u]
    BY HaveApart DEF Has
  <2> QED
    BY <1>0, <1>1, <2>1 DEF InPool, Exclusive
<1>2. CASE /\ pool # <<>> /\ Head(pool) \in User /\ Head(pool) = pool[1]
           /\ pool' \in Seq(User) /\ Len(pool') = Len(pool) - 1
           /\ \A i \in 1..Len(pool') : pool'[i] = pool[i + 1]
           /\ bpe' = [bpe EXCEPT ![u] = Head(pool)]
  <2>1. 1 \in 1..Len(pool) /\ \A i \in 1..Len(pool') : i + 1 \in 1..Len(pool) /\ i + 1 # 1
    <3>1. Len(pool') \in Nat
      BY <1>2, LenProperties
    <3> QED
      BY <1>0, <1>2, <3>1
  <2>2. bpe'[u] = pool[1] /\ InPool(pool[1]) /\ \A v \in User : v # u => bpe'[v] = bpe[v]
    BY <1>0, <1>2, <2>1 DEF InPool
  <2>3. \A v \in User : Has(v) => bpe[v] # pool[1]
    BY <1>2, <2>2 DEF Has, Exclusive, Created
  <2>4. \A e \in User : InPool(e)' => InPool(e) /\ e # pool[1]
    BY <1>2, <2>1 DEF InPool, Exclusive
  <2>5. pc[pool[1]] = "new" => pool[1] = u
    BY <1>2, <2>2 DEF Created
  <2>6. ASSUME NEW i \in 1..Len(pool'), NEW j \in 1..Len(pool'), pool'[i] = pool'[j]
        PROVE  i = j
    <3>1. i + 1 = j + 1
      BY <1>2, <2>1, <2>6 DEF Exclusive
    <3> QED
      BY <3>1
  <2> QED
    BY <1>2, <2>2, <2>3, <2>4, <2>5, <2>6
<1> QED
  BY <1>1, <1>2, TakeFacts

LEMMA TakingKeepsOwners ==
  ASSUME TypeOK, TypeOK', Exclusive, Created, NEW u \in User, OneUser(u), Take(u),
         pc[u] = "new", Holds(u)'
  PROVE  Exclusive' /\ Created'
<1>1. pc'[u] # "new" /\ \A v \in User : bpe[v] \in User /\ bpe'[v] \in User
  BY DEF Holds, TypeOK
<1>2. \A v \in User : v # u => /\ Holds(v)' <=> Holds(v)
                               /\ pc'[v] = "new" <=> pc[v] = "new"
                               /\ bpe'[v] = bpe[v]
  BY DEF OneUser, Holds
<1>3. Exclusive'
  <2>1. ASSUME NEW v \in User, NEW w \in User, Holds(v)', Holds(w)', bpe'[v] = bpe'[w]
        PROVE  v = w
    BY <1>2, <2>1, TakenIsFree DEF Exclusive, Has
  <2>2. ASSUME NEW v \in User, Holds(v)' PROVE ~InPool(bpe[v])'
    <3>1. CASE v = u
      BY <1>1, <3>1, TakenIsFree
    <3>2. CASE v # u
      BY <1>1, <1>2, <2>2, <3>2, TakenIsFree DEF Exclusive
    <3> QED
      BY <3>1, <3>2
  <2> QED
    BY <2>1, <2>2, TakenIsFree DEF Exclusive
<1>4. Created'
  <2>1. ASSUME NEW v \in User, pc'[bpe'[v]] = "new" PROVE bpe'[v] = v
    <3>1. pc[bpe'[v]] = "new" /\ bpe'[v] # u
      BY <1>1, <1>2, <2>1
    <3>2. CASE v = u
      BY <3>1, <3>2, TakenIsFree
    <3>3. CASE v # u
      BY <1>2, <3>1, <3>3 DEF Created
    <3> QED
      BY <3>2, <3>3
  <2>2. ASSUME NEW v \in User, pc'[v] = "new" PROVE bpe'[v] = v /\ ~InPool(v)'
    BY <1>1, <1>2, <2>2, TakenIsFree DEF Created
  <2> QED
    BY <2>1, <2>2 DEF Created
<1> QED
  BY <1>3, <1>4

-----------------------------------------------------------------------------
(* Each step keeps the bytes in order.                                     *)

\* A step of u through one entry does not change what another has.
LEMMA OthersStream ==
  ASSUME TypeOK, Created, NEW u \in User, NEW e, OneUser(u), OneEntry(e),
         NEW v \in User, v # u, Stream(v), Has(v) => bpe[v] # e
  PROVE  Stream(v)'
<1>1. /\ pc'[v] = pc[v] /\ bpe'[v] = bpe[v] /\ got'[v] = got[v] /\ pos'[v] = pos[v]
      /\ Limit(v)' = Limit(v) /\ (Holds(v)' <=> Holds(v))
  BY DEF OneUser, configVars, Limit, Holds
<1>2. Has(v) => /\ source'[bpe[v]] = source[bpe[v]] /\ buffer'[bpe[v]] = buffer[bpe[v]]
                /\ kept'[bpe[v]] = kept[bpe[v]]
  BY DEF OneEntry, TypeOK
<1>3. pc[v] = "new" => Unused(v)'
  BY <1>1, <1>2 DEF Stream, Unused, Has, Created
<1>4. Holds(v) => /\ source'[bpe'[v]] = v
                  /\ pos'[v] = Len(got'[v]) + Len(buffer'[bpe'[v]])
                  /\ Run(buffer'[bpe'[v]], v, Len(got'[v]))
  BY <1>1, <1>2 DEF Stream, Has
<1>5. Run(got'[v], v, 0) /\ pos'[v] <= Limit(v)'
  BY <1>1 DEF Stream
<1> QED
  BY <1>1, <1>3, <1>4, <1>5 DEF Stream

LEMMA FillStream ==
  ASSUME TypeOK, NEW u \in User, Stream(u), Holds(u), pc'[u] # "new", Fill(bpe[u]),
         UNCHANGED <<bpe, got, configVars>>
  PROVE  Stream(u)'
<1> DEFINE e == bpe[u]
<1>1. /\ e \in User /\ source[e] = u /\ pos[u] \in Nat /\ Limit(u) \in Nat
      /\ got[u] \in Seq(Byte) /\ Len(got[u]) \in Nat /\ buffer[e] \in Seq(Byte)
      /\ Len(buffer[e]) \in Nat /\ pos \in [User -> Nat] /\ buffer \in [User -> Seq(Byte)]
      /\ pos[u] = Len(got[u]) + Len(buffer[e]) /\ Run(buffer[e], u, Len(got[u]))
      /\ Run(got[u], u, 0) /\ pos[u] <= Limit(u)
  BY LimitType, LenProperties DEF TypeOK, Stream
<1>2. Fill(e) /\ UNCHANGED <<bpe, got>> /\ Limit(u)' = Limit(u)
  BY DEF configVars, Limit
<1> HIDE DEF e
<1>3. PICK n \in Nat :
        /\ n = 0 \/ n <= Limit(source[e]) - pos[source[e]]
        /\ pos' = [pos EXCEPT ![source[e]] = @ + n]
        /\ buffer' = [buffer EXCEPT ![e] = @ \o [i \in 1..n |-> <<source[e], pos[source[e]] + i>>]]
  BY <1>1, <1>2, FillFacts
<1>4. source' = source
  BY <1>2 DEF Fill
<1> DEFINE t == buffer[e] \o [i \in 1..n |-> <<u, (Len(got[u]) + Len(buffer[e])) + i>>]
<1>5. t \in Seq(Byte) /\ Len(t) = Len(buffer[e]) + n /\ Run(t, u, Len(got[u]))
  BY <1>1, RunConcat
<1>6. buffer'[e] = t
  BY <1>1, <1>3
<1> HIDE DEF t
<1>7. pos'[u] = pos[u] + n /\ (n = 0 \/ n <= Limit(u) - pos[u])
  BY <1>1, <1>3
<1>8. pos[u] + n <= Limit(u) /\ pos[u] + n = Len(got[u]) + (Len(buffer[e]) + n)
  <2> DEFINE l == Limit(u)
             p == pos[u]
             a == Len(got[u])
             c == Len(buffer[e])
  <2>1. l \in Nat /\ p \in Nat /\ a \in Nat /\ c \in Nat /\ p = a + c /\ p <= l
        /\ (n = 0 \/ n <= l - p)
    BY <1>1, <1>7
  <2> HIDE DEF l, p, a, c
  <2>2. p + n <= l /\ p + n = a + (c + n)
    BY <2>1
  <2> QED
    BY <2>2 DEF l, p, a, c
<1> QED
  BY <1>1, <1>2, <1>4, <1>5, <1>6, <1>7, <1>8 DEF Stream, e

LEMMA ConsumeStream ==
  ASSUME TypeOK, NEW u \in User, Stream(u), Holds(u), pc'[u] # "new", Consume(u),
         UNCHANGED <<bpe, pos, source, configVars>>
  PROVE  Stream(u)'
<1> DEFINE e == bpe[u]
           b == buffer[e]
           g == got[u]
<1>1. /\ e \in User /\ source[e] = u /\ g \in Seq(Byte) /\ Len(g) \in Nat
      /\ b \in Seq(Byte) /\ b # <<>>
      /\ pos[u] = Len(g) + Len(b) /\ Run(b, u, Len(g)) /\ Run(g, u, 0) /\ pos[u] <= Limit(u)
  BY LenProperties DEF TypeOK, Stream, Consume
<1>2. Limit(u)' = Limit(u) /\ UNCHANGED <<bpe, pos, source>>
  BY DEF configVars, Limit
<1>3. got'[u] = Append(g, Head(b)) /\ buffer'[e] = Tail(b)
  BY ConsumeFacts DEF TypeOK
<1> HIDE DEF b, g
<1>4. /\ Head(b) = <<u, Len(g) + 1>> /\ Len(Tail(b)) + 1 = Len(b) /\ Tail(b) \in Seq(Byte)
      /\ Run(Tail(b), u, Len(g) + 1)
  BY <1>1, RunTail
<1>5. Len(Append(g, Head(b))) = Len(g) + 1 /\ Run(Append(g, Head(b)), u, 0)
  <2> DEFINE c == <<u, 0 + Len(g) + 1>>
  <2>1. Head(b) = c
    <3>1. 0 + Len(g) + 1 = Len(g) + 1
      BY <1>1
    <3> QED
      BY <1>4, <3>1
  <2>2. Len(Append(g, c)) = Len(g) + 1 /\ Run(Append(g, c), u, 0)
    BY <1>1, RunAppend
  <2> QED
    BY <2>1, <2>2
<1>6. Len(g) + Len(b) = (Len(g) + 1) + Len(Tail(b))
  <2>1. Len(Tail(b)) \in Nat
    BY <1>4, LenProperties
  <2> QED
    BY <1>1, <1>4, <2>1
<1> QED
  BY <1>1, <1>2, <1>3, <1>4, <1>5, <1>6 DEF Stream

LEMMA ReadBytesStream ==
  ASSUME TypeOK, NEW u \in User, Stream(u), Holds(u), got[u] = <<>>, ReadBytes(u)
  PROVE  Stream(u)'
<1> DEFINE e == bpe[u]
           b == buffer[e]
<1>1. /\ e \in User /\ source[e] = u /\ b \in Seq(Byte) /\ Len(b) \in Nat
      /\ buffer \in [User -> Seq(Byte)] /\ got \in [User -> Seq(Byte)]
      /\ pos[u] = Len(b) /\ Run(b, u, 0) /\ pos[u] <= Limit(u)
  <2>1. Len(got[u]) = 0
    BY EmptySeq
  <2> QED
    BY <2>1, LenProperties DEF TypeOK, Stream
<1>2. Limit(u)' = Limit(u) /\ UNCHANGED <<bpe, pos, source>> /\ pc'[u] # "new"
  BY DEF configVars, Limit, ReadBytes, Goto, TypeOK
<1>3. \/ /\ NulAt(b) # {} /\ got'[u] = SubSeq(b, 1, FirstNul(b))
         /\ buffer'[e] = SubSeq(b, FirstNul(b) + 1, Len(b))
      \/ got'[u] = b /\ buffer'[e] = <<>>
  BY <1>1 DEF ReadBytes
<1> HIDE DEF b
<1>4. CASE /\ NulAt(b) # {} /\ got'[u] = SubSeq(b, 1, FirstNul(b))
           /\ buffer'[e] = SubSeq(b, FirstNul(b) + 1, Len(b))
  <2>1. FirstNul(b) \in 1..Len(b)
    BY <1>1, <1>4, FirstNulFacts
  <2> DEFINE m == FirstNul(b)
  <2>2. /\ Len(got'[u]) = m /\ Run(got'[u], u, 0)
        /\ Len(buffer'[e]) = Len(b) - m /\ Run(buffer'[e], u, 0 + m)
    BY <1>1, <1>4, <2>1, RunSplit
  <2>3. 0 + m = m /\ pos[u] = m + (Len(b) - m)
    BY <1>1, <2>1
  <2> QED
    BY <1>1, <1>2, <2>2, <2>3 DEF Stream
<1>5. CASE got'[u] = b /\ buffer'[e] = <<>>
  <2>1. Len(buffer'[e]) = 0 /\ Run(buffer'[e], u, Len(b)) /\ pos[u] = Len(b) + 0
    BY <1>1, <1>5, EmptySeq, RunEmpty
  <2> QED
    BY <1>1, <1>2, <1>5, <2>1 DEF Stream
<1> QED
  BY <1>3, <1>4, <1>5

\* StringBodyFilter reads a body once.
ReadsOnce == \A u \in User : pc[u] \in {"new", "reading"} => got[u] = <<>>

LEMMA ReadsOnceInit == Init => ReadsOnce
  BY DEF Init, ReadsOnce

LEMMA ReadsOnceStep ==
  ASSUME TypeOK, Places, ReadsOnce, [Next]_vars
  PROVE  ReadsOnce'
<1>0. pc \in [User -> PC] /\ got \in [User -> Seq(Byte)]
  BY DEF TypeOK
<1> USE <1>0 DEF ReadsOnce, Goto
<1>1. ASSUME NEW u \in User, Taking(u) \/ FillForBody(u) \/ FillForRequest(u) \/ Giving(u) \/ Else(u)
      PROVE  ReadsOnce'
  <2>1. UNCHANGED got
    BY <1>1 DEF Taking, TakeForBody, HandlerTake, FillForBody, FillForRequest, Giving, ReturnBuffer,
                GiveBack, Else, StartHandler, Panic, WriteResponse, CloseConnection, GiveWriterBack
  <2>2. \A v \in User : pc'[v] \in {"new", "reading"} => pc[v] \in {"new", "reading"}
    <3>1. CASE Taking(u)
      BY <3>1 DEF Taking, TakeForBody, HandlerTake
    <3>2. CASE FillForBody(u) \/ FillForRequest(u) \/ ReturnBuffer(u)
      BY <3>2 DEF FillForBody, FillForRequest, ReturnBuffer
    <3>3. CASE GiveBack(u) \/ StartHandler(u) \/ Panic(u)
      BY <3>3 DEF GiveBack, StartHandler, Panic
    <3>4. CASE WriteResponse(u) \/ CloseConnection(u) \/ GiveWriterBack(u)
      BY <3>4 DEF WriteResponse, CloseConnection, GiveWriterBack
    <3> QED
      BY <1>1, <3>1, <3>2, <3>3, <3>4 DEF Giving, Else
  <2> QED
    BY <2>1, <2>2
<1>2. ASSUME NEW u \in User, ReadBytes(u) \/ Peek(u) \/ ReadRequest(u) \/ ReadFails(u) \/ CloseBody(u)
      PROVE  ReadsOnce'
  <2>1. pc'[u] \notin {"new", "reading"} /\ \A v \in User \ {u} : pc'[v] = pc[v]
    <3>1. CASE ReadBytes(u) \/ Peek(u)
      BY <3>1 DEF ReadBytes, Peek
    <3>2. CASE ReadRequest(u) \/ ReadFails(u) \/ CloseBody(u)
      BY <3>2 DEF ReadRequest, ReadFails, CloseBody
    <3> QED
      BY <1>2, <3>1, <3>2
  <2>2. \A v \in User \ {u} : got'[v] = got[v]
    BY <1>2 DEF ReadBytes, Peek, ReadRequest, ReadFails, CloseBody, Consume
  <2> QED
    BY <2>1, <2>2
<1>3. ASSUME NEW u \in User, ReadBody(u)
      PROVE  ReadsOnce'
  <2>1. pc[u] \notin {"new", "reading"} /\ UNCHANGED pc
    BY <1>3 DEF ReadBody, Places
  <2>2. \A v \in User \ {u} : got'[v] = got[v]
    BY <1>3 DEF ReadBody, Consume
  <2> QED
    BY <2>1, <2>2
<1>4. CASE UNCHANGED vars
  BY <1>4 DEF vars
<1> QED
  BY <1>1, <1>2, <1>3, <1>4, NextCases DEF Using

-----------------------------------------------------------------------------
(* Whose the bytes are, continued: every step.                             *)

LEMMA UsingStream ==
  ASSUME TypeOK, ReadsOnce, NEW u \in User, Using(u), Holds(u), Stream(u), pc'[u] # "new",
         UNCHANGED <<bpe, source, configVars>>
  PROVE  Stream(u)'
<1>1. ASSUME Fill(bpe[u]), UNCHANGED got PROVE Stream(u)'
  BY <1>1, FillStream
<1>2. ASSUME Consume(u), UNCHANGED pos PROVE Stream(u)'
  BY <1>2, ConsumeStream
<1>3. ASSUME UNCHANGED <<pos, buffer, got>> PROVE Stream(u)'
  <2>1. Limit(u)' = Limit(u)
    BY DEF configVars, Limit
  <2> QED
    BY <1>3, <2>1 DEF Stream
<1>4. ASSUME ReadBytes(u) PROVE Stream(u)'
  BY <1>4, ReadBytesStream DEF ReadBytes, ReadsOnce
<1>5. CASE FillForBody(u) \/ FillForRequest(u)
  BY <1>1, <1>5 DEF FillForBody, FillForRequest
<1>6. CASE Peek(u) \/ ReadRequest(u) \/ ReadFails(u)
  BY <1>2, <1>3, <1>6 DEF Peek, ReadRequest, ReadFails
<1>7. CASE ReadBody(u)
  BY <1>1, <1>2, <1>3, <1>7 DEF ReadBody
<1>8. CASE CloseBody(u)
  BY <1>2, <1>3, <1>8 DEF CloseBody
<1> QED
  BY <1>4, <1>5, <1>6, <1>7, <1>8 DEF Using

LEMMA TakingStream ==
  ASSUME TypeOK, Created, NEW u \in User, pc[u] = "new", pc'[u] # "new", Stream(u), Take(u),
         UNCHANGED <<pos, got, configVars>>
  PROVE  Stream(u)'
<1>1. /\ Unused(u) /\ bpe[u] = u /\ Limit(u)' = Limit(u) /\ pos[u] <= Limit(u)
      /\ source \in [User -> User] /\ buffer \in [User -> Seq(Byte)] /\ bpe \in [User -> User]
  BY DEF Stream, Created, configVars, Limit, TypeOK
<1>2. source'[bpe'[u]] = u /\ buffer'[bpe'[u]] = <<>>
  <2>1. CASE UNCHANGED <<pool, bpe, source, buffer>>
    BY <1>1, <2>1 DEF Unused
  <2>2. CASE /\ Head(pool) \in User /\ bpe' = [bpe EXCEPT ![u] = Head(pool)]
             /\ source' = [source EXCEPT ![Head(pool)] = u]
             /\ buffer' = [buffer EXCEPT ![Head(pool)] = <<>>]
    BY <1>1, <2>2
  <2> QED
    BY <2>1, <2>2, TakeFacts
<1>3. pos'[u] = 0 /\ got'[u] = <<>> /\ Len(got'[u]) = 0 /\ Len(buffer'[bpe'[u]]) = 0
  BY <1>1, <1>2, EmptySeq DEF Unused
<1>4. Run(got'[u], u, 0) /\ Run(buffer'[bpe'[u]], u, Len(got'[u]))
  BY <1>2, <1>3, RunEmpty
<1>5. pos'[u] = Len(got'[u]) + Len(buffer'[bpe'[u]]) /\ pos'[u] <= Limit(u)'
  BY <1>1, <1>3 DEF Unused
<1> QED
  BY <1>2, <1>4, <1>5 DEF Stream

LEMMA OwnedStep ==
  ASSUME TypeOK, TypeOK', Places, ReadsOnce, Owned, ~InTwoHands, returns <= 1, [Next]_vars
  PROVE  Owned'
<1> USE DEF Owned
<1>1. ASSUME NEW u \in User, Taking(u) PROVE Owned'
  <2>1. /\ OneUser(u) /\ OneEntry(bpe'[u]) /\ UNCHANGED <<pos, kept, ended, got, returned>>
        /\ pc[u] = "new" /\ Holds(u)' /\ Take(u) /\ pc'[u] # "new"
    BY <1>1, TakingLocal
  <2>2. Exclusive' /\ Created'
    BY <2>1, TakingKeepsOwners
  <2>3. ASSUME NEW v \in User, v # u PROVE Stream(v)'
    BY <2>1, <2>3, OthersStream, TakenIsFree
  <2>4. Stream(u)'
    BY <2>1, TakingStream DEF OneUser
  <2> QED
    BY <2>2, <2>3, <2>4
<1>2. ASSUME NEW u \in User, Using(u) PROVE Owned'
  <2>1. Holds(u) /\ source[bpe[u]] = u
    BY <1>2, UsingHolds DEF Stream
  <2>2. /\ OneUser(u) /\ OneEntry(bpe[u]) /\ UNCHANGED <<pool, bpe, returned, source>>
        /\ pc[u] # "new" /\ Holds(u)' /\ pc'[u] # "new"
    BY <1>2, <2>1, UsingLocal DEF Holds
  <2>3. Exclusive' /\ Created'
    BY <2>1, <2>2, HoldKeepsOwners
  <2>4. ASSUME NEW v \in User, v # u PROVE Stream(v)'
    BY <2>1, <2>2, <2>4, OthersStream, HaveApart DEF Has
  <2>5. Stream(u)'
    BY <1>2, <2>1, <2>2, UsingStream DEF OneUser
  <2> QED
    BY <2>3, <2>4, <2>5
<1>3. ASSUME NEW u \in User, Giving(u) PROVE Owned'
  <2>1. /\ OneUser(u) /\ UNCHANGED <<bpe, readerVars, got, loose, panicked>>
        /\ Holds(u) /\ ~Holds(u)' /\ pc'[u] # "new" /\ Give(u)
    BY <1>3, GivingLocal
  <2>2. Exclusive' /\ Created'
    BY <2>1, GivingKeepsOwners
  <2>3. OneEntry(bpe[u])
    BY <2>1 DEF OneEntry, readerVars
  <2>4. ASSUME NEW v \in User, v # u PROVE Stream(v)'
    BY <2>1, <2>3, <2>4, OthersStream, HaveApart DEF Has
  <2>5. Stream(u)'
    <3>1. Limit(u)' = Limit(u) /\ pos'[u] = pos[u] /\ got'[u] = got[u]
      BY <2>1 DEF OneUser, configVars, Limit, readerVars
    <3> QED
      BY <2>1, <3>1 DEF Stream
  <2> QED
    BY <2>2, <2>4, <2>5
<1>4. ASSUME NEW u \in User, Else(u) PROVE Owned'
  <2>1. /\ OneUser(u) /\ UNCHANGED <<bpe, pool, readerVars, got, returned>>
        /\ Holds(u) /\ Holds(u)' /\ pc'[u] # "new"
    BY <1>4, ElseLocal
  <2>2. Exclusive' /\ Created'
    BY <2>1, HoldKeepsOwners
  <2>3. OneEntry(bpe[u])
    BY <2>1 DEF OneEntry, readerVars
  <2>4. ASSUME NEW v \in User, v # u PROVE Stream(v)'
    BY <2>1, <2>3, <2>4, OthersStream, HaveApart DEF Has
  <2>5. Stream(u)'
    <3>1. Limit(u)' = Limit(u) /\ UNCHANGED <<pos, got, bpe, source, buffer>>
      BY <2>1 DEF OneUser, configVars, Limit, readerVars
    <3> QED
      BY <2>1, <3>1 DEF Stream
  <2> QED
    BY <2>2, <2>4, <2>5
<1>5. CASE UNCHANGED vars
  <2>1. \A u \in User : Limit(u)' = Limit(u)
    BY <1>5 DEF vars, configVars, Limit
  <2>2. UNCHANGED <<pos, source, buffer, kept, pool, pc, bpe, got, returned>>
    BY <1>5 DEF vars, readerVars
  <2> QED
    BY <2>1, <2>2 DEF Exclusive, Created, Holds, InPool, Stream, Unused
<1> QED
  BY <1>1, <1>2, <1>3, <1>4, <1>5, NextCases

-----------------------------------------------------------------------------
(* The errors that entries keep, and what they do to bodies and requests.  *)

HasNul(u) == \E i \in DOMAIN data[u] : data[u][i] = "nul"

OtherNul(u) == \E v \in User \ {u} : HasNul(v)

\* Where the reading of a body may end; it should end at the first of them.
Ends(u) == {i \in DOMAIN data[u] : data[u][i] = "nul"} \cup {Len(data[u]), MaxForm + 1}

Complete(u) == Len(got[u]) \in Ends(u) /\ \A j \in Ends(u) : Len(got[u]) <= j

\* An EOF is the body's own, or the only thing the entry came with; once a body
\* without a NUL has been read, the entry has no error.
BodyErrors(u) ==
  /\ pc[u] = "reading" /\ kept[bpe[u]] = "EOF"
       => pos[u] = Limit(u) \/ (buffer[bpe[u]] = <<>> /\ OtherNul(u))
  /\ pc[u] = "installed" /\ returned[u] = 0 => kept[bpe[u]] = None \/ HasNul(u)
  /\ pc[u] = "installed" => Complete(u) \/ (got[u] = <<>> /\ OtherNul(u))

\* An error is the connection's own, or Peek is about to drop it.
RequestErrors(u) ==
  use = "server" =>
    /\ pc[u] \in {"pipeline", "write"} => got[u] # <<>>
    /\ Holds(u) /\ kept[bpe[u]] # None
         => u \in ended \/ (pc[u] = "peek" /\ buffer[bpe[u]] = <<>>)
    /\ pc[u] \in {"close", "giveWriter", "give", "done"} /\ got[u] = <<>> => u \in ended

\* An error in a StringBodyFilter's pool was left behind by a body with a NUL.
PoolErrors ==
  use = "filter" =>
    \A e \in User : InPool(e) /\ kept[e] # None => \E v \in User : pc[v] = "installed" /\ HasNul(v)

Errors == PoolErrors /\ \A u \in User : BodyErrors(u) /\ RequestErrors(u)

LEMMA ErrorsInit == Init => Errors
<1>1. Init => Len(pool) = 0
  BY EmptySeq DEF Init
<1> QED
  BY <1>1 DEF Init, Errors, PoolErrors, BodyErrors, RequestErrors, InPool, Holds

LEMMA ConstantsKept ==
  ASSUME UNCHANGED configVars, NEW u \in User
  PROVE  /\ Limit(u)' = Limit(u) /\ Ends(u)' = Ends(u)
         /\ HasNul(u)' <=> HasNul(u)
         /\ OtherNul(u)' <=> OtherNul(u)
         /\ use' = use
<1>1. data' = data /\ use' = use
  BY DEF configVars
<1> QED
  BY <1>1 DEF Limit, Ends, HasNul, OtherNul

\* What u does through one entry does not concern the errors of another.
LEMMA OthersErrors ==
  ASSUME TypeOK, Places, NEW u \in User, NEW e, OneUser(u), OneEntry(e),
         NEW v \in User, v # u, BodyErrors(v), RequestErrors(v), Has(v) => bpe[v] # e
  PROVE  BodyErrors(v)' /\ RequestErrors(v)'
<1>1. /\ pc'[v] = pc[v] /\ bpe'[v] = bpe[v] /\ got'[v] = got[v] /\ pos'[v] = pos[v]
      /\ returned'[v] = returned[v] /\ (Holds(v)' <=> Holds(v)) /\ ended \subseteq ended'
  BY DEF OneUser, Holds
<1>2. /\ Limit(v)' = Limit(v) /\ Ends(v)' = Ends(v) /\ (HasNul(v)' <=> HasNul(v))
      /\ (OtherNul(v)' <=> OtherNul(v)) /\ use' = use
  BY ConstantsKept DEF OneUser
<1>3. Holds(v) => buffer'[bpe[v]] = buffer[bpe[v]] /\ kept'[bpe[v]] = kept[bpe[v]]
  BY DEF OneEntry, TypeOK, Has
<1>4. pc[v] = "reading" \/ (pc[v] = "installed" /\ returned[v] = 0) => Holds(v)
  BY DEF Places, Holds
<1>5. Complete(v)' <=> Complete(v)
  BY <1>1, <1>2 DEF Complete
<1>6. BodyErrors(v)'
  BY <1>1, <1>2, <1>3, <1>4, <1>5 DEF BodyErrors
<1>7. RequestErrors(v)'
  BY <1>1, <1>2, <1>3 DEF RequestErrors
<1> QED
  BY <1>6, <1>7

-----------------------------------------------------------------------------
(* The errors of the user who acts.                                        *)

LEMMA TakingErrors ==
  ASSUME TypeOK, Places, Owned, Errors, NEW u \in User, Taking(u)
  PROVE  BodyErrors(u)' /\ RequestErrors(u)'
<1>1. /\ pc[u] = "new" /\ Take(u) /\ UNCHANGED <<configVars, pos, kept, ended, got, returned>>
      /\ \/ pc'[u] = "reading" /\ use = "filter"
         \/ pc'[u] = "peek"
  BY DEF Taking, TakeForBody, HandlerTake, Goto, TypeOK
<1>2. (OtherNul(u)' <=> OtherNul(u)) /\ use' = use
  BY <1>1, ConstantsKept
<1>3. Unused(u) /\ bpe[u] = u /\ bpe \in [User -> User] /\ buffer \in [User -> Seq(Byte)]
  BY <1>1 DEF Owned, Stream, Created, TypeOK
<1>4. /\ buffer'[bpe'[u]] = <<>>
      /\ kept'[bpe'[u]] = None \/ (InPool(bpe'[u]) /\ bpe'[u] \in User /\ kept[bpe'[u]] # None)
  <2>1. CASE UNCHANGED <<pool, bpe, source, buffer>>
    BY <1>1, <1>3, <2>1 DEF Unused
  <2>2. CASE /\ pool # <<>> /\ Head(pool) \in User /\ Head(pool) = pool[1]
             /\ bpe' = [bpe EXCEPT ![u] = Head(pool)]
             /\ buffer' = [buffer EXCEPT ![Head(pool)] = <<>>]
    <3>1. 1 \in 1..Len(pool)
      BY <2>2, EmptySeq, LenProperties DEF TypeOK
    <3> QED
      BY <1>1, <1>3, <2>2, <3>1 DEF InPool
  <2> QED
    BY <1>1, <2>1, <2>2, TakeFacts
<1>5. use = "filter" /\ kept'[bpe'[u]] # None => OtherNul(u)
  BY <1>1, <1>4 DEF Errors, PoolErrors, OtherNul
<1> QED
  BY <1>1, <1>2, <1>4, <1>5 DEF BodyErrors, RequestErrors, None

LEMMA FillErrors ==
  ASSUME TypeOK, Places, NEW u \in User, Stream(u), Holds(u), BodyErrors(u), RequestErrors(u),
         pc[u] # "installed", Fill(bpe[u]), UNCHANGED <<pc, bpe, got, configVars>>
  PROVE  BodyErrors(u)' /\ RequestErrors(u)'
<1> DEFINE e == bpe[u]
<1>1. /\ e \in User /\ source[e] = u /\ pos[u] \in Nat /\ Limit(u) \in Nat
      /\ pos \in [User -> Nat] /\ kept \in [User -> {None, "EOF", "error"}]
  BY LimitType DEF TypeOK, Stream
<1>2. Fill(e) /\ UNCHANGED <<pc, bpe, got>> /\ Limit(u)' = Limit(u) /\ use' = use
  BY ConstantsKept
<1> HIDE DEF e
<1>3. PICK n \in Nat, end \in {None, "EOF", "error"} :
        /\ end = "EOF" => source[e] \notin closed /\ n = Limit(source[e]) - pos[source[e]]
        /\ pos' = [pos EXCEPT ![source[e]] = @ + n]
        /\ kept' = [kept EXCEPT ![e] = end]
        /\ ended' = IF end = None THEN ended ELSE ended \cup {source[e]}
  BY <1>1, <1>2, FillFacts
<1>4. /\ kept'[e] = end /\ pos'[u] = pos[u] + n /\ (end = "EOF" => n = Limit(u) - pos[u])
      /\ ended \subseteq ended' /\ (end # None => u \in ended')
  BY <1>1, <1>3
<1>5. kept'[e] = "EOF" => pos'[u] = Limit(u)
  BY <1>1, <1>4
<1>6. BodyErrors(u)'
  BY <1>2, <1>5 DEF BodyErrors, e
<1>7. RequestErrors(u)'
  BY <1>2, <1>4 DEF RequestErrors, e, Holds
<1> QED
  BY <1>6, <1>7

\* A request, or a piece of a body, is read from the connection.
LEMMA ConsumeErrors ==
  ASSUME TypeOK, Places, NEW u \in User, Holds(u), Holds(u)', RequestErrors(u),
         pc[u] \in {"read", "pipeline", "close", "giveWriter", "give"},
         pc'[u] \in {"pipeline", "write", "close", "giveWriter", "give"},
         Consume(u), UNCHANGED <<bpe, kept, ended, configVars>>
  PROVE  BodyErrors(u)' /\ RequestErrors(u)'
<1>1. got'[u] # <<>>
  BY ConsumeFacts DEF TypeOK
<1>2. use' = use /\ UNCHANGED <<bpe, kept, ended>>
  BY ConstantsKept
<1> QED
  BY <1>1, <1>2 DEF BodyErrors, RequestErrors

\* The bytes of a body up to its first NUL, or all of them.
LEMMA NulsOfRun ==
  ASSUME TypeOK, NEW u \in User, NEW b \in Seq(Byte), Run(b, u, 0), Len(b) <= Len(data[u])
  PROVE  \A i \in 1..Len(b) : i \in NulAt(b) <=> i \in DOMAIN data[u] /\ data[u][i] = "nul"
<1>1. /\ Len(b) \in Nat /\ Len(data[u]) \in Nat /\ DOMAIN data[u] = 1..Len(data[u])
      /\ DOMAIN b = 1..Len(b)
  BY LenProperties DEF TypeOK
<1>2. ASSUME NEW i \in 1..Len(b)
      PROVE  i \in NulAt(b) <=> i \in DOMAIN data[u] /\ data[u][i] = "nul"
  <2>1. 0 + i = i /\ i \in 1..Len(data[u])
    BY <1>1
  <2>2. b[i] = <<u, i>>
    BY <2>1 DEF Run
  <2> QED
    BY <1>1, <2>1, <2>2 DEF NulAt, Kind
<1> QED
  BY <1>2

LEMMA ReadBytesErrors ==
  ASSUME TypeOK, Places, ReadsOnce, NEW u \in User, Stream(u), BodyErrors(u), ReadBytes(u)
  PROVE  BodyErrors(u)' /\ RequestErrors(u)'
<1> DEFINE e == bpe[u]
           b == buffer[e]
<1>1. /\ use = "filter" /\ pc[u] = "reading" /\ got[u] = <<>> /\ Holds(u) /\ e \in User
      /\ buffer \in [User -> Seq(Byte)] /\ got \in [User -> Seq(Byte)]
      /\ kept \in [User -> {None, "EOF", "error"}] /\ pc \in [User -> PC]
  BY DEF ReadBytes, Places, ReadsOnce, Holds, TypeOK
<1>2. /\ Len(data[u]) \in Nat /\ DOMAIN data[u] = 1..Len(data[u]) /\ MaxForm \in Nat
      /\ b \in Seq(Byte) /\ Len(b) \in Nat /\ Limit(u) \in Nat
      /\ Limit(u) <= Len(data[u]) /\ Limit(u) <= MaxForm + 1
      /\ Limit(u) \in {Len(data[u]), MaxForm + 1}
  <2>1. Len(data[u]) \in Nat /\ DOMAIN data[u] = 1..Len(data[u]) /\ MaxForm \in Nat
        /\ b \in Seq(Byte) /\ Len(b) \in Nat
    BY <1>1, LenProperties, BufferAssumption DEF TypeOK
  <2> HIDE DEF b
  <2> QED
    BY <1>1, <2>1 DEF Limit
<1>3. Run(b, u, 0) /\ pos[u] = Len(b) /\ Len(b) <= Limit(u)
  <2>1. Len(got[u]) = 0
    BY <1>1, EmptySeq
  <2> QED
    BY <1>1, <1>2, <2>1 DEF Stream
<1>4. \A i \in 1..Len(b) : i \in NulAt(b) <=> i \in DOMAIN data[u] /\ data[u][i] = "nul"
  <2>1. Len(b) <= Len(data[u])
    BY <1>2, <1>3
  <2> HIDE DEF b
  <2> QED
    BY <1>2, <1>3, <2>1, NulsOfRun
<1>5. /\ UNCHANGED <<bpe, returned, pos, ended>> /\ use' = use /\ Ends(u)' = Ends(u)
      /\ (HasNul(u)' <=> HasNul(u)) /\ (OtherNul(u)' <=> OtherNul(u))
  BY ConstantsKept DEF ReadBytes
<1>6. RequestErrors(u)'
  BY <1>1, <1>5 DEF RequestErrors
<1>7. \/ /\ NulAt(b) # {} /\ got'[u] = SubSeq(b, 1, FirstNul(b)) /\ pc'[u] = "installed"
      \/ /\ NulAt(b) = {} /\ got'[u] = b /\ kept'[e] = None /\ kept[e] = "EOF"
         /\ pc'[u] = "installed"
      \/ pc'[u] = "ignored"
  BY <1>1 DEF ReadBytes, ReadErr, Goto
<1> HIDE DEF b
<1>8. NulAt(b) \subseteq 1..Len(b)
  BY <1>2, LenProperties DEF NulAt
<1>9. CASE NulAt(b) # {} /\ got'[u] = SubSeq(b, 1, FirstNul(b)) /\ pc'[u] = "installed"
  <2> DEFINE m == FirstNul(b)
  <2>1. m \in NulAt(b) /\ m \in 1..Len(b) /\ \A j \in NulAt(b) : m <= j
    BY <1>2, <1>9, FirstNulFacts
  <2>2. Len(got'[u]) = m
    BY <1>2, <1>3, <1>9, <2>1, RunSplit
  <2> HIDE DEF m
  <2>3. m \in DOMAIN data[u] /\ data[u][m] = "nul"
    BY <1>4, <2>1
  <2>4. ASSUME NEW j \in Ends(u) PROVE m <= j
    <3>1. m <= Len(b) /\ m \in Nat
      BY <1>2, <2>1
    <3>2. CASE j \in {Len(data[u]), MaxForm + 1}
      BY <1>2, <1>3, <3>1, <3>2
    <3>3. CASE j \in DOMAIN data[u] /\ data[u][j] = "nul"
      <4>1. j \in Nat /\ j >= 1
        BY <1>2, <3>3
      <4>2. CASE j <= Len(b)
        BY <1>2, <1>4, <2>1, <3>3, <4>1, <4>2
      <4>3. CASE ~(j <= Len(b))
        BY <1>2, <3>1, <4>1, <4>3
      <4> QED
        BY <4>2, <4>3
    <3> QED
      BY <2>4, <3>2, <3>3 DEF Ends
  <2>5. Complete(u)'
    BY <1>5, <2>2, <2>3, <2>4 DEF Complete, Ends
  <2>6. HasNul(u)
    BY <2>3 DEF HasNul
  <2> QED
    BY <1>5, <1>6, <1>9, <2>5, <2>6 DEF BodyErrors
<1>10. CASE /\ NulAt(b) = {} /\ got'[u] = b /\ kept'[e] = None /\ kept[e] = "EOF"
            /\ pc'[u] = "installed"
  <2>1. pos[u] = Limit(u) \/ (b = <<>> /\ OtherNul(u))
    BY <1>1, <1>10 DEF BodyErrors, b
  <2>2. CASE pos[u] = Limit(u)
    <3>1. ASSUME NEW j \in Ends(u) PROVE Len(b) <= j
      <4>1. CASE j \in {Len(data[u]), MaxForm + 1}
        BY <1>2, <1>3, <4>1
      <4>2. CASE j \in DOMAIN data[u] /\ data[u][j] = "nul"
        <5>1. j \in Nat /\ j >= 1
          BY <1>2, <4>2
        <5>2. ~(j <= Len(b))
          BY <1>2, <1>4, <1>10, <4>2, <5>1
        <5> QED
          BY <1>2, <5>1, <5>2
      <4> QED
        BY <3>1, <4>1, <4>2 DEF Ends
    <3>2. Len(b) \in Ends(u)
      BY <1>2, <1>3, <2>2 DEF Ends
    <3>3. Complete(u)'
      BY <1>5, <1>10, <3>1, <3>2 DEF Complete
    <3> QED
      BY <1>5, <1>6, <1>10, <3>3 DEF BodyErrors
  <2>3. CASE b = <<>> /\ OtherNul(u)
    BY <1>5, <1>6, <1>10, <2>3 DEF BodyErrors
  <2> QED
    BY <2>1, <2>2, <2>3
<1>11. CASE pc'[u] = "ignored"
  BY <1>6, <1>11 DEF BodyErrors
<1> QED
  BY <1>7, <1>9, <1>10, <1>11

LEMMA UsingErrors ==
  ASSUME TypeOK, Places, ReadsOnce, NEW u \in User, Using(u), Holds(u), Holds(u)', Stream(u),
         BodyErrors(u), RequestErrors(u), UNCHANGED <<bpe, returned, source, configVars>>
  PROVE  BodyErrors(u)' /\ RequestErrors(u)'
<1>0. /\ pc \in [User -> PC] /\ kept \in [User -> {None, "EOF", "error"}] /\ bpe[u] \in User
      /\ use' = use
  BY DEF TypeOK, configVars
<1>1. ASSUME Fill(bpe[u]), UNCHANGED <<pc, got>>, pc[u] # "installed"
      PROVE  BodyErrors(u)' /\ RequestErrors(u)'
  BY <1>1, FillErrors
<1>2. CASE ReadBytes(u)
  BY <1>2, ReadBytesErrors
<1>3. CASE FillForBody(u)
  BY <1>1, <1>3 DEF FillForBody
<1>4. CASE FillForRequest(u)
  BY <1>1, <1>4 DEF FillForRequest
<1>5. CASE Peek(u)
  <2>1. /\ pc[u] = "peek" /\ pc'[u] = "read" /\ UNCHANGED <<bpe, ended, got>>
        /\ \/ buffer[bpe[u]] # <<>> /\ UNCHANGED kept
           \/ kept'[bpe[u]] = None
    BY <1>0, <1>5 DEF Peek, ReadErr, Goto
  <2> QED
    BY <1>0, <2>1 DEF BodyErrors, RequestErrors, Holds
<1>6. CASE ReadRequest(u)
  <2>1. /\ pc[u] = "read" /\ pc'[u] \in {"close", "pipeline"} /\ Consume(u)
        /\ UNCHANGED <<bpe, kept, ended>>
    BY <1>0, <1>6 DEF ReadRequest, Goto
  <2> QED
    BY <2>1, ConsumeErrors
<1>7. CASE ReadFails(u)
  <2>1. /\ pc[u] = "read" /\ kept[bpe[u]] # None /\ kept'[bpe[u]] = None /\ pc'[u] = "close"
        /\ UNCHANGED <<bpe, ended>>
    BY <1>0, <1>7 DEF ReadFails, ReadErr, Goto
  <2> QED
    BY <1>0, <2>1 DEF BodyErrors, RequestErrors, None
<1>8. ASSUME ReadErr(bpe[u]), UNCHANGED <<got, ended>>,
             pc[u] \in {"pipeline", "close", "giveWriter", "give"},
             pc'[u] = pc[u] \/ (pc[u] = "pipeline" /\ pc'[u] = "write")
      PROVE  BodyErrors(u)' /\ RequestErrors(u)'
  <2>1. kept'[bpe[u]] = None
    BY <1>0, <1>8 DEF ReadErr
  <2> QED
    BY <1>0, <1>8, <2>1 DEF BodyErrors, RequestErrors
<1>9. CASE ReadBody(u)
  <2>1. pc[u] \in {"pipeline", "close", "giveWriter", "give"} /\ UNCHANGED pc
    BY <1>9 DEF ReadBody, Places, Holds
  <2>2. \/ Consume(u) /\ UNCHANGED <<kept, ended>>
        \/ Fill(bpe[u]) /\ UNCHANGED got
        \/ ReadErr(bpe[u]) /\ UNCHANGED <<got, ended>>
    BY <1>9 DEF ReadBody
  <2> QED
    BY <1>1, <1>8, <2>1, <2>2, ConsumeErrors
<1>10. CASE CloseBody(u)
  <2>1. /\ pc[u] = "pipeline" /\ pc'[u] = "write" /\ UNCHANGED ended
        /\ \/ UNCHANGED <<got, buffer, kept>>
           \/ Consume(u) /\ UNCHANGED kept
           \/ ReadErr(bpe[u]) /\ UNCHANGED <<got, buffer>>
    BY <1>0, <1>10 DEF CloseBody, Goto
  <2>2. CASE UNCHANGED <<got, buffer, kept>>
    BY <1>0, <2>1, <2>2 DEF BodyErrors, RequestErrors, Holds
  <2> QED
    BY <1>8, <2>1, <2>2, ConsumeErrors
<1> QED
  BY <1>2, <1>3, <1>4, <1>5, <1>6, <1>7, <1>9, <1>10 DEF Using

LEMMA GivingErrors ==
  ASSUME TypeOK, Places, NEW u \in User, Giving(u), BodyErrors(u), RequestErrors(u)
  PROVE  BodyErrors(u)' /\ RequestErrors(u)'
<1>0. pc \in [User -> PC] /\ returned \in [User -> Nat]
  BY DEF TypeOK
<1>1. CASE ReturnBuffer(u)
  <2>1. /\ pc[u] = "installed" /\ returned'[u] = returned[u] + 1
        /\ UNCHANGED <<configVars, readerVars, pc, got>>
    BY <1>0, <1>1 DEF ReturnBuffer
  <2>2. returned'[u] # 0
    <3>1. returned[u] \in Nat
      BY <1>0
    <3> QED
      BY <2>1, <3>1
  <2>3. Ends(u)' = Ends(u) /\ (OtherNul(u)' <=> OtherNul(u))
    BY <2>1, ConstantsKept
  <2>4. Complete(u)' <=> Complete(u)
    BY <2>1, <2>3 DEF Complete
  <2> QED
    BY <2>1, <2>2, <2>3, <2>4 DEF BodyErrors, RequestErrors, Holds
<1>2. CASE GiveBack(u)
  <2>1. /\ pc[u] = "give" /\ pc'[u] = "done" /\ UNCHANGED <<got, ended, use>>
    BY <1>0, <1>2 DEF GiveBack, Goto, configVars, readerVars
  <2> QED
    BY <2>1 DEF BodyErrors, RequestErrors, Holds
<1> QED
  BY <1>1, <1>2 DEF Giving

LEMMA ElseErrors ==
  ASSUME TypeOK, Places, NEW u \in User, Else(u), BodyErrors(u), RequestErrors(u)
  PROVE  BodyErrors(u)' /\ RequestErrors(u)'
<1>0. pc \in [User -> PC]
  BY DEF TypeOK
<1>1. /\ UNCHANGED <<bpe, got, ended, kept, buffer, use, returned>>
      /\ \/ pc[u] = "pipeline" /\ pc'[u] \in {"pipeline", "close"}
         \/ pc[u] = "write" /\ pc'[u] \in {"peek", "close"}
         \/ pc[u] = "close" /\ pc'[u] = "giveWriter"
         \/ pc[u] = "giveWriter" /\ pc'[u] = "give"
  <2> USE <1>0 DEF Goto, configVars, readerVars
  <2>1. CASE StartHandler(u) \/ Panic(u)
    BY <2>1 DEF StartHandler, Panic
  <2>2. CASE WriteResponse(u)
    BY <2>2 DEF WriteResponse
  <2>3. CASE CloseConnection(u) \/ GiveWriterBack(u)
    BY <2>3 DEF CloseConnection, GiveWriterBack
  <2> QED
    BY <2>1, <2>2, <2>3 DEF Else
<1> QED
  BY <1>1 DEF BodyErrors, RequestErrors, Holds

\* A body that has been replaced stays so.
LEMMA InstalledStays ==
  ASSUME TypeOK, Places, NEW u \in User, Taking(u) \/ Using(u) \/ Giving(u) \/ Else(u),
         OneUser(u), NEW v \in User, pc[v] = "installed"
  PROVE  pc'[v] = "installed"
<1>1. CASE v # u
  BY <1>1 DEF OneUser
<1>2. CASE v = u
  <2>1. ReturnBuffer(u)
    BY <1>2 DEF Taking, Using, Giving, Else, TakeForBody, HandlerTake, FillForBody, ReadBytes,
                FillForRequest, Peek, ReadRequest, ReadFails, ReadBody, CloseBody, GiveBack,
                StartHandler, Panic, WriteResponse, CloseConnection, GiveWriterBack, Places
  <2> QED
    BY <1>2, <2>1 DEF ReturnBuffer
<1> QED
  BY <1>1, <1>2

LEMMA PoolErrorsStep ==
  ASSUME TypeOK, Places, Owned, Errors, NEW u \in User, OneUser(u),
         Taking(u) \/ Using(u) \/ Giving(u) \/ Else(u),
         \A e \in User : InPool(e)' =>
            \/ InPool(e) /\ kept'[e] = kept[e]
            \/ use = "filter" => kept'[e] = None \/ (HasNul(u) /\ pc[u] = "installed")
  PROVE  PoolErrors'
<1>1. use' = use /\ \A v \in User : HasNul(v)' <=> HasNul(v)
  BY ConstantsKept DEF OneUser
<1>2. SUFFICES ASSUME use = "filter", NEW e \in User, InPool(e)', kept'[e] # None
               PROVE  \E v \in User : pc'[v] = "installed" /\ HasNul(v)
  BY <1>1 DEF PoolErrors
<1>3. \E v \in User : pc[v] = "installed" /\ HasNul(v)
  BY <1>2 DEF Errors, PoolErrors
<1> QED
  BY <1>3, InstalledStays

LEMMA ErrorsStep ==
  ASSUME TypeOK, Places, ReadsOnce, Owned, Errors, ~InTwoHands, returns <= 1, [Next]_vars
  PROVE  Errors'
<1> USE DEF Errors
<1>1. ASSUME NEW u \in User, Taking(u) PROVE Errors'
  <2>1. /\ OneUser(u) /\ OneEntry(bpe'[u]) /\ UNCHANGED kept /\ pc[u] = "new" /\ Take(u)
    BY <1>1, TakingLocal DEF Owned
  <2>2. PoolErrors'
    BY <1>1, <2>1, TakenIsFree, PoolErrorsStep DEF Owned
  <2>3. ASSUME NEW v \in User, v # u PROVE BodyErrors(v)' /\ RequestErrors(v)'
    BY <2>1, <2>3, OthersErrors, TakenIsFree DEF Owned
  <2> QED
    BY <1>1, <2>2, <2>3, TakingErrors
<1>2. ASSUME NEW u \in User, Using(u) PROVE Errors'
  <2>1. Holds(u) /\ source[bpe[u]] = u /\ Stream(u)
    BY <1>2, UsingHolds DEF Stream, Owned
  <2>2. /\ OneUser(u) /\ OneEntry(bpe[u]) /\ UNCHANGED <<pool, bpe, returned, source>>
        /\ Holds(u)'
    BY <1>2, <2>1, UsingLocal
  <2>3. PoolErrors'
    <3>1. \A e \in User : InPool(e)' => InPool(e) /\ kept'[e] = kept[e]
      BY <2>1, <2>2 DEF InPool, OneEntry, Owned, Exclusive
    <3> QED
      BY <1>2, <2>2, <3>1, PoolErrorsStep
  <2>4. ASSUME NEW v \in User, v # u PROVE BodyErrors(v)' /\ RequestErrors(v)'
    BY <2>1, <2>2, <2>4, OthersErrors, HaveApart DEF Has, Owned
  <2>5. BodyErrors(u)' /\ RequestErrors(u)'
    BY <1>2, <2>1, <2>2, UsingErrors DEF OneUser
  <2> QED
    BY <2>3, <2>4, <2>5
<1>3. ASSUME NEW u \in User, Giving(u) PROVE Errors'
  <2>1. /\ OneUser(u) /\ UNCHANGED <<bpe, readerVars, got, loose, panicked>>
        /\ Holds(u) /\ Give(u)
    BY <1>3, GivingLocal
  <2>2. OneEntry(bpe[u]) /\ UNCHANGED kept
    BY <2>1 DEF OneEntry, readerVars
  <2>3. PoolErrors'
    <3>1. \A e \in User : InPool(e)' => InPool(e) \/ e = bpe[u]
      <4>1. CASE pool' = pool
        BY <4>1 DEF InPool
      <4>2. CASE /\ Len(pool) \in Nat /\ Len(pool') = Len(pool) + 1 /\ pool'[Len(pool) + 1] = bpe[u]
                 /\ \A i \in 1..Len(pool) : pool'[i] = pool[i]
        <5>1. \A i \in 1..Len(pool') : i \in 1..Len(pool) \/ i = Len(pool) + 1
          BY <4>2
        <5> QED
          BY <4>2, <5>1 DEF InPool
      <4> QED
        BY <2>1, <4>1, <4>2, GiveFacts
    <3>2. use = "filter" => pc[u] = "installed" /\ returned[u] = 0
      BY <1>3, <2>1 DEF Giving, ReturnBuffer, GiveBack, Places, Holds
    <3>3. use = "filter" => kept[bpe[u]] = None \/ (HasNul(u) /\ pc[u] = "installed")
      BY <3>2 DEF BodyErrors
    <3> QED
      BY <1>3, <2>1, <2>2, <3>1, <3>3, PoolErrorsStep
  <2>4. ASSUME NEW v \in User, v # u PROVE BodyErrors(v)' /\ RequestErrors(v)'
    BY <2>1, <2>2, <2>4, OthersErrors, HaveApart DEF Has, Owned
  <2> QED
    BY <1>3, <2>3, <2>4, GivingErrors
<1>4. ASSUME NEW u \in User, Else(u) PROVE Errors'
  <2>1. /\ OneUser(u) /\ UNCHANGED <<bpe, pool, readerVars, got, returned>> /\ Holds(u)
    BY <1>4, ElseLocal
  <2>2. OneEntry(bpe[u]) /\ UNCHANGED <<kept, pool>>
    BY <2>1 DEF OneEntry, readerVars
  <2>3. PoolErrors'
    BY <1>4, <2>1, <2>2, PoolErrorsStep DEF InPool
  <2>4. ASSUME NEW v \in User, v # u PROVE BodyErrors(v)' /\ RequestErrors(v)'
    BY <2>1, <2>2, <2>4, OthersErrors, HaveApart DEF Has, Owned
  <2> QED
    BY <1>4, <2>3, <2>4, ElseErrors
<1>5. CASE UNCHANGED vars
  <2>1. /\ UNCHANGED <<use, pos, source, buffer, kept, ended, pool, pc, bpe, got, returned>>
        /\ UNCHANGED configVars
    BY <1>5 DEF vars, readerVars, configVars
  <2>2. \A v \in User : /\ Limit(v)' = Limit(v) /\ Ends(v)' = Ends(v)
                        /\ (HasNul(v)' <=> HasNul(v)) /\ (OtherNul(v)' <=> OtherNul(v))
    BY <2>1, ConstantsKept
  <2>3. \A v \in User : Complete(v)' <=> Complete(v)
    BY <2>1, <2>2 DEF Complete
  <2> QED
    BY <2>1, <2>2, <2>3 DEF PoolErrors, BodyErrors, RequestErrors, InPool, Holds
<1> QED
  BY <1>1, <1>2, <1>3, <1>4, <1>5, NextCases

-----------------------------------------------------------------------------
(* The theorems about readers.                                             *)

ReaderInv ==
  /\ TypeOK /\ Places /\ ReadsOnce
  /\ ~InTwoHands => Owned /\ Errors

LEMMA ReaderInit == Init => ReaderInv
  BY TypeInit, PlacesInit, ReadsOnceInit, OwnedInit, ErrorsInit DEF ReaderInv

LEMMA ReaderStep == ReaderInv /\ [Next]_vars => ReaderInv'
<1> SUFFICES ASSUME ReaderInv, [Next]_vars PROVE ReaderInv'
  OBVIOUS
<1>1. TypeOK' /\ Places' /\ ReadsOnce'
  BY TypeStep, PlacesStep, ReadsOnceStep DEF ReaderInv
<1>2. ASSUME ~InTwoHands' PROVE Owned' /\ Errors'
  BY <1>1, <1>2, TwoHandsStay, OwnedStep, ErrorsStep DEF ReaderInv
<1> QED
  BY <1>1, <1>2 DEF ReaderInv

\* ReaderInv holds for any users, streams, bodies, capacity and limit.
THEOREM ReaderInvariance == Spec => []ReaderInv
  BY ReaderInit, ReaderStep, PTL DEF Spec

\* What is read for a user is his own, in order and without a gap, as long as no
\* reader is in two hands.
THEOREM ReadersKeepApart == Spec => []OwnBytes
<1>1. ReaderInv => OwnBytes
  <2> SUFFICES ASSUME ReaderInv, ~InTwoHands, NEW u \in User
               PROVE  got[u] = [i \in 1..Len(got[u]) |-> <<u, i>>]
    BY DEF OwnBytes
  <2>1. got[u] \in Seq(Byte) /\ Run(got[u], u, 0)
    BY DEF ReaderInv, Owned, Stream, TypeOK
  <2>2. \A i \in 1..Len(got[u]) : 0 + i = i
    BY <2>1, LenProperties
  <2>3. got[u] = [i \in 1..Len(got[u]) |-> got[u][i]]
    BY <2>1
  <2>4. \A i \in 1..Len(got[u]) : got[u][i] = <<u, i>>
    BY <2>1, <2>2 DEF Run
  <2> QED
    BY <2>3, <2>4
<1> QED
  BY <1>1, ReaderInvariance, PTL

\* A body that has been replaced is whole, or empty where an earlier body with a
\* NUL has left its EOF.
THEOREM BodiesWhole == Spec => []BodyComplete
<1>1. ReaderInv => BodyComplete
  <2> SUFFICES ASSUME ReaderInv, ~InTwoHands, NEW u \in User, pc[u] = "installed"
               PROVE  \/ got[u] = Wanted(u)
                      \/ /\ got[u] = <<>>
                         /\ \E v \in User \ {u} : \E i \in DOMAIN data[v] : data[v][i] = "nul"
    BY DEF BodyComplete
  <2>1. /\ got[u] \in Seq(Byte) /\ Run(got[u], u, 0)
        /\ Complete(u) \/ (got[u] = <<>> /\ OtherNul(u))
    BY DEF ReaderInv, Owned, Stream, TypeOK, Errors, BodyErrors
  <2>2. CASE Complete(u)
    <3> DEFINE last == CHOOSE i \in Ends(u) : \A j \in Ends(u) : i <= j
    <3>1. Ends(u) \subseteq Nat
      <4>1. Len(data[u]) \in Nat /\ DOMAIN data[u] = 1..Len(data[u]) /\ MaxForm + 1 \in Nat
        BY LenProperties, BufferAssumption DEF ReaderInv, TypeOK
      <4> QED
        BY <4>1 DEF Ends
    <3>2. last \in Ends(u) /\ \A j \in Ends(u) : last <= j
      BY <2>2 DEF Complete
    <3>3. Len(got[u]) \in Ends(u) /\ \A j \in Ends(u) : Len(got[u]) <= j
      BY <2>2 DEF Complete
    <3> HIDE DEF last
    <3>4. last = Len(got[u])
      <4>1. last \in Nat /\ Len(got[u]) \in Nat /\ last <= Len(got[u]) /\ Len(got[u]) <= last
        BY <3>1, <3>2, <3>3
      <4> QED
        BY <4>1
    <3>5. Wanted(u) = [i \in 1..last |-> <<u, i>>]
      BY DEF Wanted, last, Ends
    <3>6. got[u] = [i \in 1..Len(got[u]) |-> <<u, i>>]
      <4>1. \A i \in 1..Len(got[u]) : 0 + i = i
        BY <2>1, LenProperties
      <4>2. got[u] = [i \in 1..Len(got[u]) |-> got[u][i]]
        BY <2>1
      <4>3. \A i \in 1..Len(got[u]) : got[u][i] = <<u, i>>
        BY <2>1, <4>1 DEF Run
      <4> QED
        BY <4>2, <4>3
    <3> QED
      BY <3>4, <3>5, <3>6
  <2>3. CASE got[u] = <<>> /\ OtherNul(u)
    BY <2>3 DEF OtherNul, HasNul
  <2> QED
    BY <2>1, <2>2, <2>3
<1> QED
  BY <1>1, ReaderInvariance, PTL

\* On the server: the error a reader has kept once the first Peek is over is that
\* of the connection that reads, and no connection is closed unread because of an
\* error that another has left.
THEOREM ErrorsStayAtHome == Spec => []NoInheritedError
<1>1. ReaderInv => NoInheritedError
  <2> SUFFICES ASSUME ReaderInv, use = "server", ~InTwoHands, NEW u \in User
               PROVE  /\ pc[u] \in {"read", "pipeline", "write", "close"} /\ kept[bpe[u]] # None
                           => u \in ended
                      /\ pc[u] \in {"close", "giveWriter", "give", "done"} /\ got[u] = <<>>
                           => u \in ended
    BY DEF NoInheritedError
  <2>1. RequestErrors(u)
    BY DEF ReaderInv, Errors
  <2>2. pc[u] \in {"read", "pipeline", "write", "close"} => Holds(u)
    BY DEF ReaderInv, Places, Holds
  <2> QED
    BY <2>1, <2>2 DEF RequestErrors
<1> QED
  BY <1>1, ReaderInvariance, PTL
=============================================================================
