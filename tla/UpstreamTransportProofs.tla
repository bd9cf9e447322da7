---------------------- MODULE UpstreamTransportProofs -----------------------
(* Proofs about the address cache, for any number of dialling goroutines   *)
(* and of changes of the address: which races it takes to dial an address  *)
(* that is incomplete or older than one that has been in use.              *)
EXTENDS UpstreamTransport, FiniteSetTheorems, TLAPS

PC == {"none", "test", "take", "lookup", "publish", "port", "ip", "time", "dial",
       "idle", "wait"}

TypeOK ==
  /\ forever \in BOOLEAN /\ fresh \in BOOLEAN
  /\ overlapped \in BOOLEAN /\ expiredLate \in BOOLEAN
  /\ dns \in Answers
  /\ heap \in [Address -> [port : BOOLEAN, ip : Answers \cup {None}]]
  /\ tcpaddr \in Address \cup {None}
  /\ pc \in [Conn -> PC]
  /\ ip \in [Conn -> Answers \cup {None}]
  /\ addr \in [Conn -> Address \cup {None}]
  /\ floor \in [Conn -> Answers \cup {-1}]
  /\ newest \in Answers \cup {-1}

\* What a goroutine has in its hands where it is.
Held ==
  \A c \in Conn :
    /\ addr[c] # None => pc[c] = "dial"
    /\ pc[c] \in {"publish", "port", "ip"} => ip[c] # None
    /\ pc[c] \in {"port", "ip", "time", "take"} => tcpaddr # None

\* Without an overlap there is one lookup at a time.
OneLookup == ~overlapped => \A c, d \in LookingUp : c = d

Complete(a) == heap[a].port /\ heap[a].ip # None

\* A cached address that is fresh is complete, and not being replaced; what a
\* goroutine is about to return is fresh; a lookup gets on with the fields.
FreshIsComplete ==
  forever \/ overlapped \/ expiredLate
    \/ /\ fresh => tcpaddr # None /\ Complete(tcpaddr) /\ LookingUp = {}
       /\ \A c \in Conn : 
            /\ pc[c] = "take" => fresh
            /\ pc[c] = "ip" => heap[tcpaddr].port
            /\ pc[c] = "time" => Complete(tcpaddr)

\* Nobody knows more than the name server ...
Known ==
  /\ newest <= dns
  /\ \A c \in Conn : floor[c] <= newest
  /\ \A a \in Address : heap[a].ip # None => heap[a].ip <= dns
  /\ \A c \in Conn : ip[c] # None => ip[c] <= dns

\* ... and, without an overlap, an answer that is to be stored, or has been
\* stored last, is as new as any other.
LatestStored ==
  overlapped
    \/ /\ \A c \in Conn : pc[c] \in {"publish", "port", "ip"} =>
            /\ newest <= ip[c]
            /\ \A a \in Address : heap[a].ip # None => heap[a].ip <= ip[c]
       /\ tcpaddr # None /\ heap[tcpaddr].ip # None =>
            /\ newest <= heap[tcpaddr].ip
            /\ \A a \in Address : heap[a].ip # None => heap[a].ip <= heap[tcpaddr].ip

Inv == TypeOK /\ Held /\ OneLookup /\ FreshIsComplete /\ CompleteAddress
         /\ Known /\ LatestStored /\ NoGoingBack

-----------------------------------------------------------------------------
(* A free address.                                                         *)

\* There is one address more than there are goroutines, of which the one that
\* publishes has none.
LEMMA FreeAddress ==
  ASSUME TypeOK, Held, NEW c \in Conn, pc[c] = "publish"
  PROVE  Address \ ({tcpaddr} \cup {addr[d] : d \in Conn}) # {}
<1> DEFINE S == Conn \ {c}
           T == {addr[d] : d \in S}
           f == [d \in S |-> addr[d]]
           n == Cardinality(Conn)
<1>1. IsFiniteSet(Conn) /\ n \in Nat
  BY TransportAssumption, FS_CardinalityType
<1>2. IsFiniteSet(S) /\ Cardinality(S) = n - 1
  BY <1>1, FS_RemoveElement
<1>3. f \in Surjection(S, T)
  BY DEF Surjection
<1>4. IsFiniteSet(T) /\ Cardinality(T) <= n - 1
  BY <1>2, <1>3, FS_Surjection
<1>5. IsFiniteSet(T \cup {tcpaddr}) /\ Cardinality(T \cup {tcpaddr}) <= n
  <2> HIDE DEF T, S, f, n
  <2>1. Cardinality(T) \in Nat
    BY <1>4, FS_CardinalityType
  <2>2. /\ IsFiniteSet(T \cup {tcpaddr})
        /\ Cardinality(T \cup {tcpaddr}) =
             IF tcpaddr \in T THEN Cardinality(T) ELSE Cardinality(T) + 1
    BY <1>4, FS_AddElement
  <2>3. CASE tcpaddr \in T
    BY <1>1, <1>4, <2>1, <2>2, <2>3
  <2>4. CASE tcpaddr \notin T
    BY <1>1, <1>4, <2>1, <2>2, <2>4
  <2> QED
    BY <2>3, <2>4
<1>6. IsFiniteSet(Address) /\ Cardinality(Address) = n + 1
  BY <1>1, FS_Interval, 1 \in Int, n + 1 \in Int, n + 1 >= 1 DEF Address
<1>7. Address \ (T \cup {tcpaddr}) # {}
  <2> HIDE DEF T, S, f, n
  <2>1. SUFFICES ASSUME Address \subseteq T \cup {tcpaddr} PROVE FALSE
    OBVIOUS
  <2>2. Cardinality(Address) <= Cardinality(T \cup {tcpaddr})
    BY <1>5, <2>1, FS_Subset
  <2>3. Cardinality(T \cup {tcpaddr}) \in Nat
    BY <1>5, FS_CardinalityType
  <2> QED
    BY <1>1, <1>5, <1>6, <2>2, <2>3
<1>8. addr[c] = None /\ None \notin Address
  BY TransportAssumption DEF Held
<1> QED
  BY <1>7, <1>8

\* The new address is nobody's, and empty.
LEMMA PublishNew ==
  ASSUME TypeOK, Held, NEW c \in Conn, Publish(c)
  PROVE  \E new \in Address :
           /\ new # tcpaddr /\ \A d \in Conn : new # addr[d]
           /\ tcpaddr' = new
           /\ heap' = [heap EXCEPT ![new] = Empty]
<1> DEFINE inUse == {tcpaddr} \cup {addr[d] : d \in Conn}
           new   == CHOOSE a \in Address \ inUse : TRUE
<1>1. new \in Address \ inUse
  BY FreeAddress DEF Publish
<1>2. tcpaddr' = new /\ heap' = [heap EXCEPT ![new] = Empty]
  BY DEF Publish
<1> QED
  BY <1>1, <1>2

-----------------------------------------------------------------------------
(* Types.                                                                  *)

\* What the assumption on the constants says, in the form the steps need.
LEMMA Bounds == MaxChanges \in Nat /\ None \notin Answers /\ None \notin Address
  BY TransportAssumption

\* The cache starts empty and nobody dials.
LEMMA TypeInit == Init => TypeOK
<1> SUFFICES ASSUME Init PROVE TypeOK
  OBVIOUS
<1>1. heap \in [Address -> [port : BOOLEAN, ip : Answers \cup {None}]]
  BY DEF Init, Empty
<1>2. dns \in Answers
  BY Bounds DEF Init, Answers
<1> QED
  BY <1>1, <1>2 DEF Init, TypeOK, PC

\* Steps that do not store an address.
Elsewhere(c) ==
  StartDial(c) \/ TestCache(c) \/ TakeCached(c) \/ LookupIP(c) \/ SetCacheTime(c)
    \/ DialTCP(c) \/ Write(c) \/ Answer(c) \/ DeadlinePasses(c) \/ ReadTimesOut(c)

\* A step is of the environment, stores an address, or does neither.
LEMMA NextCases ==
  ASSUME Next
  PROVE  \/ Move \/ Expire
         \/ \E c \in Conn : Elsewhere(c) \/ Publish(c) \/ SetPort(c) \/ SetIP(c)
  BY DEF Next, Elsewhere

\* Every step keeps the types.
LEMMA TypeStep == Inv /\ [Next]_vars => TypeOK'
<1> SUFFICES ASSUME TypeOK, Held, [Next]_vars PROVE TypeOK'
  BY DEF Inv
<1>1. ASSUME NEW c \in Conn, Elsewhere(c) PROVE TypeOK'
  <2> USE <1>1, Bounds DEF TypeOK, PC, cacheVars, dialVars, histVars
  <2>1. CASE StartDial(c)
    BY <2>1 DEF StartDial, Goto
  <2>2. CASE TestCache(c)
    BY <2>2 DEF TestCache, Goto
  <2>3. CASE TakeCached(c)
    BY <2>3 DEF TakeCached, Goto
  <2>4. CASE LookupIP(c)
    BY <2>4 DEF LookupIP, Goto
  <2>5. CASE SetCacheTime(c)
    BY <2>5 DEF SetCacheTime, Goto
  <2>6. CASE DialTCP(c)
    <3>1. newest' \in Answers \cup {-1}
      BY <2>6 DEF DialTCP
    <3>2. pc' \in [Conn -> PC]
      BY <2>6 DEF DialTCP, Goto
    <3> QED
      BY <2>6, <3>1, <3>2 DEF DialTCP
  <2>7. CASE Write(c) \/ Answer(c)
    BY <2>7 DEF Write, Answer, Goto
  <2>8. CASE DeadlinePasses(c) \/ ReadTimesOut(c)
    BY <2>8 DEF DeadlinePasses, ReadTimesOut, Goto
  <2> QED
    BY <2>1, <2>2, <2>3, <2>4, <2>5, <2>6, <2>7, <2>8 DEF Elsewhere
<1>2. ASSUME NEW c \in Conn, Publish(c) PROVE TypeOK'
  <2>1. PICK new \in Address : tcpaddr' = new /\ heap' = [heap EXCEPT ![new] = Empty]
    BY <1>2, PublishNew
  <2>2. heap' \in [Address -> [port : BOOLEAN, ip : Answers \cup {None}]]
    BY <2>1 DEF TypeOK, Empty
  <2> QED
    BY <1>2, <2>1, <2>2 DEF TypeOK, Publish, Goto, PC, histVars
<1>3. ASSUME NEW c \in Conn, SetPort(c) PROVE TypeOK'
  <2>1. heap' \in [Address -> [port : BOOLEAN, ip : Answers \cup {None}]]
    BY <1>3 DEF TypeOK, SetPort
  <2> QED
    BY <1>3, <2>1 DEF TypeOK, SetPort, Goto, PC, histVars
<1>4. ASSUME NEW c \in Conn, SetIP(c) PROVE TypeOK'
  <2>1. heap' \in [Address -> [port : BOOLEAN, ip : Answers \cup {None}]]
    BY <1>4 DEF TypeOK, SetIP
  <2> QED
    BY <1>4, <2>1 DEF TypeOK, SetIP, Goto, PC, histVars
<1>5. CASE Move
  BY <1>5, Bounds DEF TypeOK, Move, cacheVars, dialVars, histVars, Answers
<1>6. CASE Expire
  BY <1>6 DEF TypeOK, Expire, dialVars, histVars
<1>7. CASE UNCHANGED vars
  BY <1>7 DEF TypeOK, vars, cacheVars, dialVars, histVars
<1> QED
  BY <1>1, <1>2, <1>3, <1>4, <1>5, <1>6, <1>7, NextCases

\* What the three stores do to an address, field by field.
LEMMA StoreFacts ==
  ASSUME TypeOK, Held, NEW c \in Conn, NEW a \in Address
  PROVE  /\ SetPort(c) => /\ heap'[a].ip = heap[a].ip
                          /\ heap'[a].port = (a = tcpaddr \/ heap[a].port)
         /\ SetIP(c) => /\ heap'[a].ip = (IF a = tcpaddr THEN ip[c] ELSE heap[a].ip)
                        /\ heap'[a].port = heap[a].port
<1>1. heap[a] = [port |-> heap[a].port, ip |-> heap[a].ip] /\ heap[a].port \in BOOLEAN
  BY DEF TypeOK
<1>2. ASSUME SetPort(c)
      PROVE  heap'[a].ip = heap[a].ip /\ heap'[a].port = (a = tcpaddr \/ heap[a].port)
  <2>1. /\ heap' = [heap EXCEPT ![tcpaddr].port = TRUE]
        /\ heap \in [Address -> [port : BOOLEAN, ip : Answers \cup {None}]]
    BY <1>2 DEF SetPort, TypeOK
  <2>2. CASE a = tcpaddr
    BY <1>1, <2>1, <2>2
  <2>3. CASE a # tcpaddr
    BY <1>1, <2>1, <2>3
  <2> QED
    BY <2>2, <2>3
<1>3. ASSUME SetIP(c)
      PROVE  /\ heap'[a].ip = (IF a = tcpaddr THEN ip[c] ELSE heap[a].ip)
             /\ heap'[a].port = heap[a].port
  <2>1. /\ heap' = [heap EXCEPT ![tcpaddr].ip = ip[c]]
        /\ heap \in [Address -> [port : BOOLEAN, ip : Answers \cup {None}]]
    BY <1>3 DEF SetIP, TypeOK
  <2>2. CASE a = tcpaddr
    BY <1>1, <2>1, <2>2
  <2>3. CASE a # tcpaddr
    BY <1>1, <2>1, <2>3
  <2> QED
    BY <2>2, <2>3
<1> QED
  BY <1>2, <1>3

-----------------------------------------------------------------------------
(* One lookup at a time, and what goroutines hold.                         *)

\* Every step keeps what goroutines hold.
LEMMA HeldStep == Inv /\ [Next]_vars => Held'
<1> SUFFICES ASSUME TypeOK, Held, [Next]_vars PROVE Held'
  BY DEF Inv
<1> USE Bounds
<1>1. ASSUME NEW c \in Conn, Elsewhere(c) PROVE Held'
  <2> USE <1>1 DEF TypeOK, Held, PC, cacheVars, dialVars, histVars, Goto
  <2>1. CASE StartDial(c)
    BY <2>1 DEF StartDial
  <2>2. CASE TestCache(c)
    BY <2>2 DEF TestCache
  <2>3. CASE TakeCached(c)
    BY <2>3 DEF TakeCached
  <2>4. CASE LookupIP(c)
    BY <2>4 DEF LookupIP
  <2>5. CASE SetCacheTime(c)
    BY <2>5 DEF SetCacheTime
  <2>6. CASE DialTCP(c)
    BY <2>6 DEF DialTCP
  <2>7. CASE Write(c) \/ Answer(c)
    BY <2>7 DEF Write, Answer
  <2>8. CASE DeadlinePasses(c) \/ ReadTimesOut(c)
    BY <2>8 DEF DeadlinePasses, ReadTimesOut
  <2> QED
    BY <2>1, <2>2, <2>3, <2>4, <2>5, <2>6, <2>7, <2>8 DEF Elsewhere
<1>2. ASSUME NEW c \in Conn, Publish(c) PROVE Held'
  <2>1. PICK new \in Address : tcpaddr' = new
    BY <1>2, PublishNew
  <2> QED
    BY <1>2, <2>1 DEF TypeOK, Held, Publish, Goto
<1>3. ASSUME NEW c \in Conn, SetPort(c) \/ SetIP(c) PROVE Held'
  BY <1>3 DEF TypeOK, Held, SetPort, SetIP, Goto
<1>4. CASE Move \/ Expire \/ UNCHANGED vars
  BY <1>4 DEF Held, Move, Expire, vars, cacheVars, dialVars
<1> QED
  BY <1>1, <1>2, <1>3, <1>4, NextCases

\* Lookups begin in TestCache only, where an overlap is noted.
LEMMA LookupsEnd ==
  ASSUME TypeOK, [Next]_vars, \A c \in Conn : ~TestCache(c)
  PROVE  LookingUp' \subseteq LookingUp /\ overlapped' = overlapped
<1>1. CASE Move \/ Expire \/ UNCHANGED vars
  BY <1>1 DEF Move, Expire, vars, dialVars, LookingUp
<1>2. ASSUME NEW c \in Conn, Publish(c) \/ SetPort(c) \/ SetIP(c)
      PROVE  LookingUp' \subseteq LookingUp /\ overlapped' = overlapped
  BY <1>2 DEF TypeOK, Publish, SetPort, SetIP, Goto, LookingUp
<1>3. ASSUME NEW c \in Conn, Elsewhere(c)
      PROVE  LookingUp' \subseteq LookingUp /\ overlapped' = overlapped
  <2> USE DEF TypeOK, LookingUp, Goto, dialVars
  <2>1. CASE StartDial(c) \/ TakeCached(c) \/ LookupIP(c) \/ SetCacheTime(c)
    BY <2>1 DEF StartDial, TakeCached, LookupIP, SetCacheTime
  <2>2. CASE DialTCP(c) \/ Write(c) \/ Answer(c)
    BY <2>2 DEF DialTCP, Write, Answer
  <2>3. CASE DeadlinePasses(c) \/ ReadTimesOut(c)
    BY <2>3 DEF DeadlinePasses, ReadTimesOut
  <2> QED
    BY <1>3, <2>1, <2>2, <2>3 DEF Elsewhere
<1> QED
  BY <1>1, <1>2, <1>3, NextCases

\* A second lookup is noted as an overlap.
LEMMA OneLookupStep == Inv /\ [Next]_vars => OneLookup'
<1> SUFFICES ASSUME TypeOK, OneLookup, [Next]_vars PROVE OneLookup'
  BY DEF Inv
<1>1. ASSUME NEW c \in Conn, TestCache(c) PROVE OneLookup'
  BY <1>1 DEF TypeOK, OneLookup, TestCache, Goto, LookingUp
<1>2. CASE \A c \in Conn : ~TestCache(c)
  BY <1>2, LookupsEnd DEF OneLookup
<1> QED
  BY <1>1, <1>2

-----------------------------------------------------------------------------
(* Complete addresses.                                                     *)

Calm == ~forever /\ ~overlapped /\ ~expiredLate

\* None of the three exceptions goes away again, and an expiry that comes
\* between test and use is one.
LEMMA CalmBefore ==
  ASSUME TypeOK, [Next]_vars, Calm'
  PROVE  Calm /\ (\A c \in Conn : pc[c] = "take" => ~Expire)
<1>1. CASE Move \/ Expire \/ UNCHANGED vars
  BY <1>1 DEF Calm, Move, Expire, vars, TypeOK
<1>2. ASSUME NEW c \in Conn, Publish(c) \/ SetPort(c) \/ SetIP(c)
      PROVE  Calm /\ expiredLate' = expiredLate
  BY <1>2 DEF Calm, Publish, SetPort, SetIP
<1>3. ASSUME NEW c \in Conn, Elsewhere(c) PROVE Calm
  BY <1>3 DEF Calm, Elsewhere, StartDial, TestCache, TakeCached, LookupIP, SetCacheTime, DialTCP,
              Write, Answer, DeadlinePasses, ReadTimesOut, TypeOK
<1>4. Expire /\ (\E c \in Conn : pc[c] = "take") => expiredLate'
  BY DEF Expire
<1> QED
  BY <1>1, <1>2, <1>3, <1>4, NextCases DEF Calm

\* An address that somebody has is never touched again, but to be completed.
LEMMA CompleteStays ==
  ASSUME TypeOK, Held, [Next]_vars, NEW a \in Address, Complete(a),
         \/ \E d \in Conn : addr[d] = a
         \/ tcpaddr = a
  PROVE  Complete(a)'
<1>1. ASSUME NEW c \in Conn, Publish(c) PROVE Complete(a)'
  <2>1. PICK new \in Address : /\ new # tcpaddr /\ \A d \in Conn : new # addr[d]
                              /\ heap' = [heap EXCEPT ![new] = Empty]
    BY <1>1, PublishNew
  <2> QED
    BY <2>1 DEF TypeOK, Complete
<1>2. ASSUME NEW c \in Conn, SetPort(c) PROVE Complete(a)'
  BY <1>2, StoreFacts DEF Complete
<1>3. ASSUME NEW c \in Conn, SetIP(c) PROVE Complete(a)'
  BY <1>3, StoreFacts DEF Complete, Held, SetIP
<1>4. CASE Move \/ Expire \/ UNCHANGED vars
  BY <1>4 DEF Move, Expire, vars, cacheVars, Complete
<1>5. ASSUME NEW c \in Conn, Elsewhere(c) PROVE Complete(a)'
  <2>1. heap' = heap
    BY <1>5 DEF Elsewhere, StartDial, TestCache, TakeCached, LookupIP, SetCacheTime, DialTCP,
                Write, Answer, DeadlinePasses, ReadTimesOut, cacheVars
  <2> QED
    BY <2>1 DEF Complete
<1> QED
  BY <1>1, <1>2, <1>3, <1>4, <1>5, NextCases

\* A goroutine that is about to dial was so before, or has just read the cache.
LEMMA DialFacts ==
  ASSUME TypeOK, Held, [Next]_vars, NEW d \in Dialling'
  PROVE  (addr'[d] = addr[d] /\ d \in Dialling) \/ TakeCached(d)
<1>0. d \in Conn
  BY DEF Dialling
<1>1. ASSUME NEW c \in Conn, Elsewhere(c)
      PROVE  (addr'[d] = addr[d] /\ d \in Dialling) \/ TakeCached(d)
  <2> USE <1>0 DEF TypeOK, Dialling, Goto, dialVars, Held
  <2>1. CASE StartDial(c) \/ TestCache(c)
    BY <2>1 DEF StartDial, TestCache
  <2>2. CASE TakeCached(c)
    BY <2>2 DEF TakeCached
  <2>3. CASE LookupIP(c) \/ SetCacheTime(c)
    BY <2>3 DEF LookupIP, SetCacheTime
  <2>4. CASE DialTCP(c)
    BY <2>4 DEF DialTCP
  <2>5. CASE Write(c) \/ Answer(c) \/ DeadlinePasses(c) \/ ReadTimesOut(c)
    BY <2>5 DEF Write, Answer, DeadlinePasses, ReadTimesOut
  <2> QED
    BY <1>1, <2>1, <2>2, <2>3, <2>4, <2>5 DEF Elsewhere
<1>2. ASSUME NEW c \in Conn, Publish(c) \/ SetPort(c) \/ SetIP(c)
      PROVE  addr'[d] = addr[d] /\ d \in Dialling
  BY <1>0, <1>2 DEF TypeOK, Dialling, Goto, Publish, SetPort, SetIP
<1>3. CASE Move \/ Expire \/ UNCHANGED vars
  BY <1>3 DEF Move, Expire, vars, dialVars, Dialling
<1> QED
  BY <1>1, <1>2, <1>3, NextCases

\* The address of a dial stays complete until it is used.
LEMMA CompleteStep == Inv /\ [Next]_vars => CompleteAddress'
<1> SUFFICES ASSUME Inv, [Next]_vars, Calm', NEW d \in Dialling'
             PROVE  heap'[addr'[d]].port /\ heap'[addr'[d]].ip # None
  BY DEF CompleteAddress, Calm
<1>0. Calm /\ TypeOK /\ TypeOK' /\ Held /\ d \in Conn
  BY CalmBefore, TypeStep DEF Inv, Dialling
<1>1. CASE addr'[d] = addr[d] /\ d \in Dialling
  <2>1. PICK a \in Address : a = addr[d]
    BY <1>0, <1>1 DEF Dialling, TypeOK
  <2>2. Complete(a)
    BY <1>0, <1>1, <2>1 DEF Inv, CompleteAddress, Calm, Complete
  <2>3. Complete(a)'
    BY <1>0, <2>1, <2>2, CompleteStays
  <2> QED
    BY <1>1, <2>1, <2>3 DEF Complete
<1>2. CASE TakeCached(d)
  <2>1. tcpaddr \in Address /\ Complete(tcpaddr)
    BY <1>0, <1>2 DEF Inv, FreshIsComplete, Calm, TakeCached, TypeOK
  <2>2. heap' = heap /\ addr'[d] = tcpaddr
    BY <1>0, <1>2 DEF TakeCached, cacheVars, TypeOK
  <2> QED
    BY <2>1, <2>2 DEF Complete
<1>3. (addr'[d] = addr[d] /\ d \in Dialling) \/ TakeCached(d)
  BY <1>0, DialFacts
<1> QED
  BY <1>1, <1>2, <1>3

\* A goroutine that stores a field is the only one that looks an address up,
\* and no address is fresh meanwhile.
LEMMA StoringAlone ==
  ASSUME Inv, Calm, NEW c \in LookingUp
  PROVE  ~fresh /\ \A d \in Conn : pc[d] # "take" /\ (d \in LookingUp => d = c)
  BY DEF Inv, Calm, FreshIsComplete, OneLookup, LookingUp

\* The address is complete when its time is stored.
LEMMA FreshStep == Inv /\ [Next]_vars => FreshIsComplete'
<1> SUFFICES ASSUME Inv, [Next]_vars, Calm'
             PROVE  /\ fresh' => tcpaddr' # None /\ Complete(tcpaddr)' /\ LookingUp' = {}
                    /\ \A d \in Conn :
                         /\ pc'[d] = "take" => fresh'
                         /\ pc'[d] = "ip" => heap'[tcpaddr'].port
                         /\ pc'[d] = "time" => Complete(tcpaddr)'
  BY DEF FreshIsComplete, Calm
<1>0. Calm /\ TypeOK /\ Held /\ OneLookup /\ FreshIsComplete
  BY CalmBefore DEF Inv
<1>a. /\ fresh => tcpaddr # None /\ Complete(tcpaddr) /\ LookingUp = {}
      /\ \A d \in Conn :
           /\ pc[d] = "take" => fresh
           /\ pc[d] = "ip" => heap[tcpaddr].port
           /\ pc[d] = "time" => Complete(tcpaddr)
  BY <1>0 DEF FreshIsComplete, Calm
<1>1. ASSUME NEW c \in Conn, Publish(c)
      PROVE  ~fresh' /\ \A d \in Conn : pc'[d] \notin {"take", "ip", "time"}
  <2>1. c \in LookingUp /\ pc' = [pc EXCEPT ![c] = "port"] /\ fresh' = fresh
    BY <1>1 DEF Publish, Goto, LookingUp
  <2>2. ~fresh /\ \A d \in Conn \ {c} : pc[d] # "take" /\ d \notin LookingUp
    BY <1>0, <2>1, StoringAlone
  <2>3. \A d \in Conn \ {c} : pc[d] \notin {"take", "ip", "time"}
    BY <2>2 DEF LookingUp
  <2> QED
    BY <1>0, <2>1, <2>2, <2>3 DEF TypeOK
<1>2. ASSUME NEW c \in Conn, SetPort(c)
      PROVE  /\ ~fresh' /\ heap'[tcpaddr'].port
             /\ \A d \in Conn : pc'[d] \notin {"take", "time"}
  <2>1. c \in LookingUp /\ pc' = [pc EXCEPT ![c] = "ip"] /\ fresh' = fresh /\ tcpaddr' = tcpaddr
    BY <1>2 DEF SetPort, Goto, LookingUp
  <2>2. ~fresh /\ \A d \in Conn \ {c} : pc[d] # "take" /\ d \notin LookingUp
    BY <1>0, <2>1, StoringAlone
  <2>3. \A d \in Conn \ {c} : pc[d] \notin {"take", "time"}
    BY <2>2 DEF LookingUp
  <2>4. tcpaddr \in Address
    BY <1>0, <1>2 DEF Held, TypeOK, SetPort
  <2>5. heap'[tcpaddr].port
    BY <1>0, <1>2, <2>4, StoreFacts
  <2> QED
    BY <1>0, <2>1, <2>2, <2>3, <2>5 DEF TypeOK
<1>3. ASSUME NEW c \in Conn, SetIP(c)
      PROVE  /\ ~fresh' /\ Complete(tcpaddr)'
             /\ \A d \in Conn : pc'[d] \notin {"take", "ip"}
  <2>1. /\ c \in LookingUp /\ pc[c] = "ip" /\ pc' = [pc EXCEPT ![c] = "time"]
        /\ fresh' = fresh /\ tcpaddr' = tcpaddr
    BY <1>3 DEF SetIP, Goto, LookingUp
  <2>2. ~fresh /\ \A d \in Conn \ {c} : pc[d] # "take" /\ d \notin LookingUp
    BY <1>0, <2>1, StoringAlone
  <2>3. \A d \in Conn \ {c} : pc[d] \notin {"take", "ip"}
    BY <2>2 DEF LookingUp
  <2>4. tcpaddr \in Address /\ ip[c] # None /\ heap[tcpaddr].port
    BY <1>0, <1>a, <2>1 DEF Held, TypeOK
  <2>5. heap'[tcpaddr].port /\ heap'[tcpaddr].ip # None
    BY <1>0, <1>3, <2>4, StoreFacts
  <2> QED
    BY <1>0, <2>1, <2>2, <2>3, <2>5 DEF TypeOK, Complete
<1>4. ASSUME NEW c \in Conn, SetCacheTime(c)
      PROVE  /\ tcpaddr' # None /\ Complete(tcpaddr)' /\ LookingUp' = {}
             /\ fresh' /\ \A d \in Conn : pc'[d] \notin {"ip", "time"}
  <2>1. /\ c \in LookingUp /\ pc[c] = "time" /\ pc' = [pc EXCEPT ![c] = "take"]
        /\ fresh' /\ tcpaddr' = tcpaddr /\ heap' = heap
    BY <1>4 DEF SetCacheTime, Goto, LookingUp
  <2>2. \A d \in Conn \ {c} : d \notin LookingUp
    BY <1>0, <2>1, StoringAlone
  <2>3. LookingUp' = {}
    BY <1>0, <2>1, <2>2 DEF LookingUp, TypeOK
  <2>4. \A d \in Conn : pc'[d] \notin {"ip", "time"}
    BY <2>3 DEF LookingUp
  <2>5. tcpaddr # None /\ Complete(tcpaddr)
    BY <1>0, <1>a, <2>1 DEF Held
  <2> QED
    BY <2>1, <2>3, <2>4, <2>5 DEF Complete
<1>5. ASSUME NEW c \in Conn, TestCache(c)
      PROVE  /\ fresh' = fresh /\ tcpaddr' = tcpaddr /\ heap' = heap
             /\ LookingUp' \subseteq LookingUp \/ ~fresh
             /\ \A d \in Conn : /\ pc'[d] = "take" => pc[d] = "take" \/ fresh
                                /\ pc'[d] \in {"ip", "time"} => pc[d] = pc'[d]
  <2>1. CASE tcpaddr # None /\ fresh
    BY <1>0, <1>5, <2>1 DEF TestCache, Goto, TypeOK, LookingUp, cacheVars
  <2>2. CASE ~(tcpaddr # None /\ fresh)
    BY <1>0, <1>a, <1>5, <2>2 DEF TestCache, Goto, TypeOK, Calm, cacheVars
  <2> QED
    BY <2>1, <2>2
<1>6. ASSUME NEW c \in Conn, Elsewhere(c), ~SetCacheTime(c), ~TestCache(c)
      PROVE  /\ fresh' = fresh /\ tcpaddr' = tcpaddr /\ heap' = heap
             /\ LookingUp' \subseteq LookingUp
             /\ \A d \in Conn : pc'[d] \in {"take", "ip", "time"} => pc[d] = pc'[d]
  <2> USE <1>0 DEF TypeOK, LookingUp, Goto, cacheVars, dialVars
  <2>1. CASE StartDial(c) \/ TakeCached(c) \/ LookupIP(c)
    BY <2>1 DEF StartDial, TakeCached, LookupIP
  <2>2. CASE DialTCP(c) \/ Write(c) \/ Answer(c)
    BY <2>2 DEF DialTCP, Write, Answer
  <2>3. CASE DeadlinePasses(c) \/ ReadTimesOut(c)
    BY <2>3 DEF DeadlinePasses, ReadTimesOut
  <2> QED
    BY <1>6, <2>1, <2>2, <2>3 DEF Elsewhere
<1>7. CASE Move \/ UNCHANGED vars
  BY <1>a, <1>7 DEF Move, vars, cacheVars, dialVars, Complete, LookingUp
<1>8. CASE Expire
  <2>1. \A d \in Conn : pc[d] # "take"
    BY <1>0, <1>8, CalmBefore
  <2> QED
    BY <1>a, <1>8, <2>1 DEF Expire, dialVars, Complete, LookingUp
<1>9. ASSUME NEW c \in Conn, Elsewhere(c), ~SetCacheTime(c)
      PROVE  /\ fresh' => tcpaddr' # None /\ Complete(tcpaddr)' /\ LookingUp' = {}
             /\ \A d \in Conn :
                  /\ pc'[d] = "take" => fresh'
                  /\ pc'[d] = "ip" => heap'[tcpaddr'].port
                  /\ pc'[d] = "time" => Complete(tcpaddr)'
  <2>1. CASE TestCache(c)
    BY <1>a, <1>5, <2>1 DEF Complete
  <2>2. CASE ~TestCache(c)
    BY <1>a, <1>6, <1>9, <2>2 DEF Complete
  <2> QED
    BY <2>1, <2>2
<1> QED
  BY <1>1, <1>2, <1>3, <1>4, <1>7, <1>8, <1>9, NextCases

-----------------------------------------------------------------------------
(* Newer and older answers.                                                *)

\* Answers, and -1 for none, can be compared.
LEMMA AnswersAreInt == \A x \in Answers \cup {-1} : x \in Int /\ -1 <= x
  BY Bounds DEF Answers

\* The answers that the cache's addresses hold, after each step, were there, or
\* are that of the lookup that stores its own.
LEMMA HeapFacts ==
  ASSUME TypeOK, Held, [Next]_vars, NEW a \in Address, heap'[a].ip # None
  PROVE  \/ heap'[a].ip = heap[a].ip
         \/ \E c \in Conn : SetIP(c) /\ a = tcpaddr /\ heap'[a].ip = ip[c]
<1>1. ASSUME NEW c \in Conn, Publish(c) PROVE heap'[a].ip = heap[a].ip
  <2>1. PICK new \in Address : heap' = [heap EXCEPT ![new] = Empty]
    BY <1>1, PublishNew
  <2> QED
    BY <2>1 DEF TypeOK, Empty
<1>2. ASSUME NEW c \in Conn, SetPort(c) PROVE heap'[a].ip = heap[a].ip
  BY <1>2, StoreFacts
<1>3. ASSUME NEW c \in Conn, SetIP(c)
      PROVE  heap'[a].ip = heap[a].ip \/ (a = tcpaddr /\ heap'[a].ip = ip[c])
  BY <1>3, StoreFacts
<1>4. CASE Move \/ Expire \/ UNCHANGED vars
  BY <1>4 DEF Move, Expire, vars, cacheVars
<1>5. ASSUME NEW c \in Conn, Elsewhere(c) PROVE heap' = heap
  BY <1>5 DEF Elsewhere, StartDial, TestCache, TakeCached, LookupIP, SetCacheTime, DialTCP,
              Write, Answer, DeadlinePasses, ReadTimesOut, cacheVars
<1> QED
  BY <1>1, <1>2, <1>3, <1>4, <1>5, NextCases

\* newest and floor change in StartDial and DialTCP only.
LEMMA HistoryStays ==
  ASSUME NEW c \in Conn, Elsewhere(c), ~DialTCP(c)
  PROVE  newest' = newest /\ (~StartDial(c) => floor' = floor)
<1>1. CASE StartDial(c)
  BY <1>1 DEF StartDial
<1>2. CASE TestCache(c) \/ TakeCached(c)
  BY <1>2 DEF TestCache, TakeCached, histVars
<1>3. CASE LookupIP(c) \/ SetCacheTime(c)
  BY <1>3 DEF LookupIP, SetCacheTime, histVars
<1>4. CASE Write(c) \/ Answer(c)
  BY <1>4 DEF Write, Answer, histVars
<1>5. CASE DeadlinePasses(c) \/ ReadTimesOut(c)
  BY <1>5 DEF DeadlinePasses, ReadTimesOut, histVars
<1> QED
  BY <1>1, <1>2, <1>3, <1>4, <1>5 DEF Elsewhere

\* newest follows the dials.
LEMMA NewestFacts ==
  ASSUME TypeOK, Held, [Next]_vars
  PROVE  /\ newest <= newest'
         /\ newest' = newest \/ \E a \in Address : heap[a].ip # None /\ newest' = heap[a].ip
<1>0. newest \in Int /\ newest <= newest
  BY AnswersAreInt DEF TypeOK
<1>1. ASSUME NEW c \in Conn, DialTCP(c)
      PROVE  /\ newest <= newest'
             /\ newest' = newest \/ \E a \in Address : heap[a].ip # None /\ newest' = heap[a].ip
  <2>1. CASE addr[c] = None
    BY <1>0, <1>1, <2>1 DEF DialTCP
  <2>2. CASE addr[c] # None
    <3> DEFINE to == heap[addr[c]].ip
    <3>1. addr[c] \in Address /\ (to # None => to \in Int)
      <4>1. addr[c] \in Address
        BY <2>2 DEF TypeOK
      <4>2. to \in Answers \cup {None}
        BY <4>1 DEF TypeOK
      <4> QED
        BY <4>1, <4>2, AnswersAreInt
    <3>2. newest' = IF to # None /\ to > newest THEN to ELSE newest
      BY <1>1, <2>2 DEF DialTCP
    <3>3. newest <= newest'
      <4> HIDE DEF to
      <4> QED
        BY <1>0, <3>1, <3>2
    <3> QED
      BY <3>1, <3>2, <3>3
  <2> QED
    BY <2>1, <2>2
<1>2. ASSUME NEW c \in Conn, Publish(c) \/ SetPort(c) \/ SetIP(c) PROVE newest' = newest
  BY <1>2 DEF Publish, SetPort, SetIP, histVars
<1>4. ASSUME NEW c \in Conn, Elsewhere(c), ~DialTCP(c) PROVE newest' = newest
  BY <1>4, HistoryStays
<1>3. CASE Move \/ Expire \/ UNCHANGED vars
  <2>1. newest' = newest
    BY <1>3 DEF Move, Expire, vars, histVars
  <2> QED
    BY <1>0, <2>1
<1> QED
  BY <1>0, <1>1, <1>2, <1>3, <1>4, NextCases

\* floor is set by StartDial and cleared by DialTCP.
LEMMA FloorFacts ==
  ASSUME TypeOK, [Next]_vars, NEW d \in Conn
  PROVE  \/ floor'[d] = floor[d] \/ floor'[d] = -1
         \/ StartDial(d) /\ floor'[d] = newest /\ pc'[d] = "test"
<1>1. ASSUME NEW c \in Conn, Elsewhere(c), ~StartDial(c), ~DialTCP(c) PROVE floor' = floor
  BY <1>1, HistoryStays
<1>5. ASSUME NEW c \in Conn, Publish(c) \/ SetPort(c) \/ SetIP(c) PROVE floor' = floor
  BY <1>5 DEF Publish, SetPort, SetIP, histVars
<1>2. ASSUME NEW c \in Conn, StartDial(c)
      PROVE  floor'[d] = floor[d] \/ (c = d /\ floor'[d] = newest /\ pc'[d] = "test")
  BY <1>2 DEF StartDial, TypeOK, Goto
<1>3. ASSUME NEW c \in Conn, DialTCP(c)
      PROVE  floor'[d] = floor[d] \/ floor'[d] = -1
  BY <1>3 DEF DialTCP, TypeOK
<1>4. CASE Move \/ Expire \/ UNCHANGED vars
  BY <1>4 DEF Move, Expire, vars, histVars
<1> QED
  BY <1>1, <1>2, <1>3, <1>4, <1>5, NextCases

\* ip is set by LookupIP, to what the name server says, and cleared by SetIP.
LEMMA LookupFacts ==
  ASSUME TypeOK, [Next]_vars, NEW d \in Conn
  PROVE  /\ dns <= dns'
         /\ ip'[d] = ip[d] \/ ip'[d] = None \/ (LookupIP(d) /\ ip'[d] = dns)
         /\ pc'[d] \in {"publish", "port", "ip"} =>
              \/ pc[d] \in {"publish", "port", "ip"} /\ ip'[d] = ip[d]
              \/ LookupIP(d) /\ ip'[d] = dns
<1> USE AnswersAreInt DEF TypeOK
<1>1. ASSUME NEW c \in Conn, LookupIP(c)
      PROVE  /\ dns' = dns
             /\ ip'[d] = ip[d] \/ (c = d /\ ip'[d] = dns)
             /\ pc'[d] \in {"publish", "port", "ip"} =>
                  \/ pc[d] \in {"publish", "port", "ip"} /\ ip'[d] = ip[d]
                  \/ c = d /\ ip'[d] = dns
  BY <1>1 DEF LookupIP, Goto
<1>2. ASSUME NEW c \in Conn, SetIP(c)
      PROVE  /\ dns' = dns
             /\ ip'[d] = ip[d] \/ ip'[d] = None
             /\ pc'[d] \in {"publish", "port", "ip"} =>
                  pc[d] \in {"publish", "port", "ip"} /\ ip'[d] = ip[d]
  BY <1>2 DEF SetIP, Goto
<1>3. ASSUME NEW c \in Conn, Publish(c) \/ SetPort(c)
      PROVE  /\ dns' = dns /\ ip' = ip
             /\ pc'[d] \in {"publish", "port", "ip"} => pc[d] \in {"publish", "port", "ip"}
  BY <1>3 DEF Publish, SetPort, Goto
<1>4. ASSUME NEW c \in Conn, Elsewhere(c), ~LookupIP(c)
      PROVE  /\ dns' = dns /\ ip' = ip
             /\ pc'[d] \in {"publish", "port", "ip"} => pc[d] \in {"publish", "port", "ip"}
  <2> USE DEF Goto, dialVars
  <2>1. CASE StartDial(c) \/ TestCache(c) \/ TakeCached(c) \/ SetCacheTime(c)
    BY <2>1 DEF StartDial, TestCache, TakeCached, SetCacheTime
  <2>2. CASE DialTCP(c) \/ Write(c) \/ Answer(c)
    BY <2>2 DEF DialTCP, Write, Answer
  <2>3. CASE DeadlinePasses(c) \/ ReadTimesOut(c)
    BY <2>3 DEF DeadlinePasses, ReadTimesOut
  <2> QED
    BY <1>4, <2>1, <2>2, <2>3 DEF Elsewhere
<1>6. dns \in Int /\ dns <= dns
  OBVIOUS
<1>5. CASE Expire \/ UNCHANGED vars
  <2>1. dns' = dns /\ ip' = ip /\ pc' = pc
    BY <1>5 DEF Expire, vars, dialVars
  <2> QED
    BY <1>6, <2>1
<1>7. CASE Move
  <2>1. dns' = dns + 1 /\ ip' = ip /\ pc' = pc
    BY <1>7 DEF Move, dialVars
  <2>2. dns <= dns'
    BY <1>6, <2>1
  <2> QED
    BY <2>1, <2>2
<1> QED
  BY <1>1, <1>2, <1>3, <1>4, <1>5, <1>6, <1>7, NextCases

\* The name server's answers get newer.
LEMMA DnsGrows ==
  ASSUME TypeOK, [Next]_vars
  PROVE  dns <= dns'
<1>0. dns \in Int /\ dns <= dns
  BY AnswersAreInt DEF TypeOK
<1>1. CASE Move
  BY <1>0, <1>1 DEF Move
<1>2. CASE Expire \/ UNCHANGED vars
  <2>1. dns' = dns
    BY <1>2 DEF Expire, vars
  <2> QED
    BY <1>0, <2>1
<1>3. ASSUME NEW c \in Conn PROVE dns <= dns'
  BY <1>3, LookupFacts
<1> QED
  BY <1>1, <1>2, <1>3, NextCases

\* t.tcpaddr changes in Publish only.
LEMMA CacheStays ==
  ASSUME [Next]_vars, \A c \in Conn : ~Publish(c)
  PROVE  tcpaddr' = tcpaddr
<1>1. CASE Move \/ Expire \/ UNCHANGED vars
  BY <1>1 DEF Move, Expire, vars, cacheVars
<1>2. ASSUME NEW c \in Conn, SetPort(c) \/ SetIP(c) PROVE tcpaddr' = tcpaddr
  BY <1>2 DEF SetPort, SetIP
<1>3. ASSUME NEW c \in Conn, Elsewhere(c) PROVE tcpaddr' = tcpaddr
  BY <1>3 DEF Elsewhere, StartDial, TestCache, TakeCached, LookupIP, SetCacheTime, DialTCP,
              Write, Answer, DeadlinePasses, ReadTimesOut, cacheVars
<1> QED
  BY <1>1, <1>2, <1>3, NextCases

\* An overlap is not forgotten.
LEMMA OverlapStays ==
  ASSUME TypeOK, [Next]_vars, ~overlapped'
  PROVE  ~overlapped
<1>1. ASSUME NEW c \in Conn, TestCache(c) PROVE ~overlapped
  BY <1>1 DEF TestCache
<1>2. CASE \A c \in Conn : ~TestCache(c)
  BY <1>2, LookupsEnd
<1> QED
  BY <1>1, <1>2

\* Only what the name server has answered gets into the cache and is dialled.
LEMMA KnownStep == Inv /\ [Next]_vars => Known'
<1> SUFFICES ASSUME Inv, [Next]_vars PROVE Known'
  OBVIOUS
<1>0. TypeOK /\ TypeOK' /\ Held /\ Known
  BY TypeStep DEF Inv
<1>1. /\ newest \in Answers \cup {-1} /\ newest' \in Answers \cup {-1}
      /\ dns \in Answers /\ dns' \in Answers
      /\ newest <= dns /\ newest <= newest' /\ dns <= dns'
  BY <1>0, DnsGrows, NewestFacts DEF Known, TypeOK
<1>2. newest' <= dns'
  <2>1. CASE newest' = newest
    BY <1>1, <2>1, AnswersAreInt
  <2>2. ASSUME NEW a \in Address, heap[a].ip # None, newest' = heap[a].ip PROVE newest' <= dns'
    <3>1. newest' <= dns
      BY <1>0, <2>2 DEF Known
    <3> QED
      BY <1>1, <3>1, AnswersAreInt
  <2> QED
    BY <1>0, <2>1, <2>2, NewestFacts
<1>3. ASSUME NEW c \in Conn PROVE floor'[c] <= newest'
  <2>1. floor[c] <= newest /\ floor[c] \in Answers \cup {-1}
    BY <1>0 DEF Known, TypeOK
  <2>2. floor'[c] = floor[c] \/ floor'[c] = -1 \/ floor'[c] = newest
    BY <1>0, FloorFacts
  <2> QED
    BY <1>1, <2>1, <2>2, AnswersAreInt
<1>4. ASSUME NEW c \in Conn, ip'[c] # None PROVE ip'[c] <= dns'
  <2>1. ip[c] \in Answers \cup {None} /\ (ip[c] # None => ip[c] <= dns)
    BY <1>0 DEF Known, TypeOK
  <2>2. ip'[c] = ip[c] \/ ip'[c] = dns
    BY <1>0, <1>4, LookupFacts
  <2> QED
    BY <1>1, <1>4, <2>1, <2>2, AnswersAreInt
<1>5. ASSUME NEW a \in Address, heap'[a].ip # None PROVE heap'[a].ip <= dns'
  <2>1. heap'[a].ip \in Answers
    BY <1>0, <1>5 DEF TypeOK
  <2>2. heap'[a].ip <= dns
    BY <1>0, <1>5, HeapFacts DEF Known
  <2> QED
    BY <1>1, <2>1, <2>2, AnswersAreInt
<1> QED
  BY <1>2, <1>3, <1>4, <1>5 DEF Known

\* A lookup stores the newest answer there is, unless another one overlaps.
LEMMA LatestStep == Inv /\ [Next]_vars => LatestStored'
<1> SUFFICES ASSUME Inv, [Next]_vars, ~overlapped'
             PROVE  /\ \A c \in Conn : pc'[c] \in {"publish", "port", "ip"} =>
                         /\ newest' <= ip'[c]
                         /\ \A a \in Address : heap'[a].ip # None => heap'[a].ip <= ip'[c]
                    /\ tcpaddr' # None /\ heap'[tcpaddr'].ip # None =>
                         /\ newest' <= heap'[tcpaddr'].ip
                         /\ \A a \in Address : heap'[a].ip # None
                              => heap'[a].ip <= heap'[tcpaddr'].ip
  BY DEF LatestStored
<1>0. TypeOK /\ TypeOK' /\ Held /\ OneLookup /\ Known /\ LatestStored /\ ~overlapped
  BY TypeStep, OverlapStays DEF Inv
<1>1. ASSUME NEW c \in Conn, pc'[c] \in {"publish", "port", "ip"}
      PROVE  /\ newest' <= ip'[c]
             /\ \A a \in Address : heap'[a].ip # None => heap'[a].ip <= ip'[c]
  <2>1. CASE LookupIP(c) /\ ip'[c] = dns
    BY <1>0, <2>1 DEF Known, LookupIP, cacheVars, histVars
  <2>2. CASE pc[c] \in {"publish", "port", "ip"} /\ ip'[c] = ip[c]
    <3>1. /\ newest <= ip[c]
          /\ \A a \in Address : heap[a].ip # None => heap[a].ip <= ip[c]
      BY <1>0, <2>2 DEF LatestStored
    <3>2. ASSUME NEW a \in Address, heap'[a].ip # None PROVE heap'[a].ip <= ip[c]
      <4>1. CASE heap'[a].ip = heap[a].ip
        BY <3>1, <3>2, <4>1
      <4>2. ASSUME NEW e \in Conn, SetIP(e), heap'[a].ip = ip[e] PROVE heap'[a].ip <= ip[c]
        <5>1. e = c
          BY <1>0, <2>2, <4>2 DEF OneLookup, LookingUp, SetIP
        <5>2. ip[c] \in Answers
          BY <1>0, <2>2 DEF Held, TypeOK
        <5> QED
          BY <4>2, <5>1, <5>2, AnswersAreInt
      <4> QED
        BY <1>0, <3>2, <4>1, <4>2, HeapFacts
    <3>3. newest' <= ip[c]
      BY <1>0, <3>1, NewestFacts
    <3> QED
      BY <2>2, <3>2, <3>3
  <2> QED
    BY <1>0, <1>1, <2>1, <2>2, LookupFacts
<1>2. ASSUME tcpaddr' # None, heap'[tcpaddr'].ip # None
      PROVE  /\ newest' <= heap'[tcpaddr'].ip
             /\ \A a \in Address : heap'[a].ip # None => heap'[a].ip <= heap'[tcpaddr'].ip
  <2>1. ASSUME NEW c \in Conn, Publish(c) PROVE FALSE
    <3>1. PICK new \in Address : tcpaddr' = new /\ heap' = [heap EXCEPT ![new] = Empty]
      BY <1>0, <2>1, PublishNew
    <3> QED
      BY <1>0, <1>2, <3>1 DEF TypeOK, Empty
  <2>2. tcpaddr' = tcpaddr /\ tcpaddr \in Address
    <3>1. tcpaddr' = tcpaddr
      BY <2>1, CacheStays
    <3> QED
      BY <1>0, <1>2, <3>1 DEF TypeOK
  <2>3. ASSUME NEW e \in Conn, SetIP(e)
        PROVE  /\ newest' <= heap'[tcpaddr].ip
               /\ \A a \in Address : heap'[a].ip # None => heap'[a].ip <= heap'[tcpaddr].ip
    <3>1. pc[e] = "ip" /\ newest' = newest /\ ip[e] \in Answers
      BY <1>0, <2>3 DEF SetIP, histVars, Held, TypeOK
    <3>2. heap'[tcpaddr].ip = ip[e]
      BY <1>0, <2>2, <2>3, StoreFacts
    <3>3. /\ newest <= ip[e]
          /\ \A a \in Address : heap[a].ip # None => heap[a].ip <= ip[e]
      BY <1>0, <3>1 DEF LatestStored
    <3>4. ASSUME NEW a \in Address, heap'[a].ip # None PROVE heap'[a].ip <= ip[e]
      <4>1. heap'[a].ip = ip[e] \/ heap'[a].ip = heap[a].ip
        BY <1>0, <2>3, StoreFacts
      <4> QED
        BY <3>1, <3>3, <3>4, <4>1, AnswersAreInt
    <3> QED
      BY <3>1, <3>2, <3>3, <3>4
  <2>4. CASE \A e \in Conn : ~SetIP(e)
    <3>1. \A a \in Address : heap'[a].ip # None => heap'[a].ip = heap[a].ip
      BY <1>0, <2>4, HeapFacts
    <3>2. heap'[tcpaddr].ip = heap[tcpaddr].ip /\ heap[tcpaddr].ip # None
      BY <1>2, <2>2, <3>1
    <3>3. /\ newest <= heap[tcpaddr].ip
          /\ \A a \in Address : heap[a].ip # None => heap[a].ip <= heap[tcpaddr].ip
      BY <1>0, <2>2, <3>2, Bounds DEF LatestStored
    <3>4. newest' <= heap[tcpaddr].ip
      BY <1>0, <3>3, NewestFacts
    <3> QED
      BY <2>2, <3>1, <3>2, <3>3, <3>4
  <2> QED
    BY <2>2, <2>3, <2>4
<1> QED
  BY <1>1, <1>2

\* A dial that reads the cache gets the latest answer stored.
LEMMA BackStep == Inv /\ [Next]_vars => NoGoingBack'
<1> SUFFICES ASSUME Inv, [Next]_vars, ~overlapped', NEW d \in Dialling',
                    heap'[addr'[d]].ip # None
             PROVE  heap'[addr'[d]].ip >= floor'[d]
  BY DEF NoGoingBack
<1>0. /\ TypeOK /\ Held /\ Known /\ LatestStored /\ ~overlapped
      /\ NoGoingBack /\ d \in Conn
  BY OverlapStays DEF Inv, Dialling
<1>1. floor[d] <= newest /\ floor[d] \in Answers \cup {-1} /\ newest \in Answers \cup {-1}
  BY <1>0 DEF Known, TypeOK
<1>2. floor'[d] = floor[d] \/ floor'[d] = -1
  BY <1>0, FloorFacts DEF Dialling
<1>3. CASE TakeCached(d)
  <2>1. addr'[d] = tcpaddr /\ tcpaddr \in Address /\ heap' = heap
    BY <1>0, <1>3 DEF TakeCached, Held, TypeOK, cacheVars
  <2>2. heap[tcpaddr].ip # None /\ tcpaddr # None
    BY <2>1, Bounds
  <2>3. heap[tcpaddr].ip \in Answers /\ newest <= heap[tcpaddr].ip
    BY <1>0, <2>1, <2>2 DEF LatestStored, TypeOK
  <2> QED
    BY <1>1, <1>2, <2>1, <2>3, AnswersAreInt
<1>4. CASE addr'[d] = addr[d] /\ d \in Dialling
  <2>1. addr[d] \in Address
    BY <1>0, <1>4 DEF Dialling, TypeOK
  <2>2. CASE heap'[addr[d]].ip = heap[addr[d]].ip
    <3>1. heap[addr[d]].ip \in Answers /\ heap[addr[d]].ip >= floor[d]
      BY <1>0, <1>4, <2>1, <2>2 DEF NoGoingBack, TypeOK
    <3> QED
      BY <1>1, <1>2, <1>4, <2>2, <3>1, AnswersAreInt
  <2>3. ASSUME NEW e \in Conn, SetIP(e), heap'[addr[d]].ip = ip[e]
        PROVE  heap'[addr[d]].ip >= floor'[d]
    <3>1. ip[e] \in Answers /\ newest <= ip[e]
      BY <1>0, <2>3 DEF SetIP, Held, LatestStored, TypeOK
    <3> QED
      BY <1>1, <1>2, <2>3, <3>1, AnswersAreInt
  <2> QED
    BY <1>0, <1>4, <2>1, <2>2, <2>3, HeapFacts
<1> QED
  BY <1>0, <1>3, <1>4, DialFacts

-----------------------------------------------------------------------------
(* The theorems.                                                           *)

\* With nothing cached and nothing dialled the invariant holds.
LEMMA InitInv == Init => Inv
<1> SUFFICES ASSUME Init PROVE Inv
  OBVIOUS
<1>1. TypeOK
  BY TypeInit
<1>2. Held /\ OneLookup /\ FreshIsComplete /\ CompleteAddress /\ LatestStored /\ NoGoingBack
  BY DEF Init, Held, OneLookup, LookingUp, FreshIsComplete, CompleteAddress, LatestStored,
         NoGoingBack, Dialling
<1>3. Known
  BY DEF Init, Known, Empty
<1> QED
  BY <1>1, <1>2, <1>3 DEF Inv

\* The invariant holds in every behaviour of the dialling goroutines.
THEOREM Invariance == Spec => []Inv
<1>1. Inv /\ [Next]_vars => Inv'
  BY TypeStep, HeldStep, OneLookupStep, FreshStep, CompleteStep, KnownStep, LatestStep, BackStep
     DEF Inv
<1> QED
  BY <1>1, InitInv, PTL DEF Spec

\* For any number of goroutines, an address that lookupIp is still filling in is
\* dialled only if the first address is kept for ever, two lookups have
\* overlapped or an address has expired between its test and its use.
THEOREM CompleteDials == Spec => []CompleteAddress
  BY Invariance, PTL DEF Inv

\* For any number of goroutines and of changes of the address, a dial goes back
\* to an address older than one in use before only if two lookups have overlapped.
THEOREM DialsGoForward == Spec => []NoGoingBack
  BY Invariance, PTL DEF Inv
=============================================================================
