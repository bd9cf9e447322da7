------------------------- MODULE UpstreamTransport -------------------------
(***************************************************************************)
(* filter.UpstreamTransport: how the http.Transport of an Upstream gets    *)
(* its connections.  http.Transport calls dial in a goroutine for each     *)
(* connection it needs; lookupIp keeps the address of the last LookupIP in *)
(* fields that all these goroutines read and write without a lock, and     *)
(* timeoutConnWrapper sets a deadline at each write.                       *)
(*                                                                         *)
(* Every access to t.tcpaddr, to a field of the address it points to and   *)
(* to t.tcpaddrCacheTime is a step.  The stores of a goroutine are seen in *)
(* the order of the program, as they are on the common processors; the     *)
(* language does not promise it.  An answer of LookupIP is a number that   *)
(* counts the changes of the name's address.                               *)
(***************************************************************************)
EXTENDS Integers, FiniteSets

CONSTANTS
  Conn,       \* the connections http.Transport may have at a time
  MaxChanges, \* bound: changes of the upstream's address
  None        \* a nil pointer, or a field that is not set

Answers == 0..MaxChanges

\* Enough addresses for those that can be pointed to at a time.
Address == 1 .. Cardinality(Conn) + 1

ASSUME TransportAssumption ==
  /\ IsFiniteSet(Conn)
  /\ MaxChanges \in Nat
  /\ None \notin Answers \cup Address

VARIABLES
  forever,    \* t.DNSCacheDuration = 0
  hasTimeout, \* t.timeout > 0
  dns,        \* environment: the current answer
  heap,       \* per address: whether its port is set, and its IP
  tcpaddr,    \* t.tcpaddr: an address or None
  fresh,      \* t.tcpaddrCacheTime is less than DNSCacheDuration ago
  pc,         \* per connection: where its goroutine, or its use, is
  ip,         \* per connection: what its LookupIP answered
  addr,       \* per connection: the address lookupIp returned
  deadline,   \* per connection: "none", "set" or "passed"
  floor,      \* history: per connection, the newest answer dialled before its
              \* dial began
  newest,     \* history: the newest answer dialled, -1 for none
  overlapped, \* history: two lookups have been under way at a time
  expiredLate \* history: the cached address expired after it was found fresh
              \* and before it was read

cacheVars == <<heap, tcpaddr, fresh>>
dialVars  == <<pc, ip, addr>>
histVars  == <<floor, newest>>
vars == <<forever, hasTimeout, dns, cacheVars, dialVars, deadline, histVars,
          overlapped, expiredLate>>

Goto(c, to) == pc' = [pc EXCEPT ![c] = to]

Empty == [port |-> FALSE, ip |-> None]

\* Between a miss of the cache and the last store of the answer.
LookingUp == {c \in Conn : pc[c] \in {"lookup", "publish", "port", "ip", "time"}}

-----------------------------------------------------------------------------
Init ==
  /\ forever \in BOOLEAN
  /\ hasTimeout \in BOOLEAN
  /\ dns = 0
  /\ heap = [a \in Address |-> Empty]
  /\ tcpaddr = None
  /\ fresh = FALSE
  /\ pc = [c \in Conn |-> "none"]
  /\ ip = [c \in Conn |-> None]
  /\ addr = [c \in Conn |-> None]
  /\ deadline = [c \in Conn |-> "none"]
  /\ floor = [c \in Conn |-> -1]
  /\ newest = -1
  /\ overlapped = FALSE
  /\ expiredLate = FALSE

-----------------------------------------------------------------------------
(* The environment.                                                        *)

\* The upstream moves to another address.
Move ==
  /\ dns < MaxChanges
  /\ dns' = dns + 1
  /\ UNCHANGED <<forever, hasTimeout, cacheVars, dialVars, deadline, histVars,
                 overlapped, expiredLate>>

\* DNSCacheDuration passes.
Expire ==
  /\ fresh
  /\ ~forever
  /\ fresh' = FALSE
  /\ expiredLate' = (expiredLate \/ \E c \in Conn : pc[c] = "take")
  /\ UNCHANGED <<forever, hasTimeout, dns, heap, tcpaddr, dialVars, deadline, histVars,
                 overlapped>>

-----------------------------------------------------------------------------
(* dial and lookupIp.                                                      *)

\* A request finds no idle connection: http.Transport dials one.
StartDial(c) ==
  /\ pc[c] = "none"
  /\ Goto(c, "test")
  /\ floor' = [floor EXCEPT ![c] = newest]
  /\ UNCHANGED <<forever, hasTimeout, dns, cacheVars, ip, addr, deadline, newest,
                 overlapped, expiredLate>>

\* Is there a cached address, to be kept for ever or fresh?
TestCache(c) ==
  /\ pc[c] = "test"
  /\ IF tcpaddr # None /\ (forever \/ fresh)
       THEN Goto(c, "take") /\ UNCHANGED overlapped
       ELSE Goto(c, "lookup") /\ overlapped' = (overlapped \/ LookingUp # {})
  /\ UNCHANGED <<forever, hasTimeout, dns, cacheVars, ip, addr, deadline, histVars,
                 expiredLate>>

\* return t.tcpaddr, which is read again; also the last line of a lookup.
TakeCached(c) ==
  /\ pc[c] = "take"
  /\ addr' = [addr EXCEPT ![c] = tcpaddr]
  /\ Goto(c, "dial")
  /\ UNCHANGED <<forever, hasTimeout, dns, cacheVars, ip, deadline, histVars,
                 overlapped, expiredLate>>

LookupAnyIP(c) ==
  /\ pc[c] = "lookup"
  /\ \E a \in 0..dns : ip' = [ip EXCEPT ![c] = a]
  /\ Goto(c, "publish")
  /\ UNCHANGED <<forever, hasTimeout, dns, cacheVars, addr, deadline, histVars,
                 overlapped, expiredLate>>

\* LookupIP answers, or fails or knows no IPv4 address: then dial, which does
\* not look at the error, is left with a nil address.
LookupIP(c) ==
  /\ pc[c] = "lookup"
  /\ \/ ip' = [ip EXCEPT ![c] = dns] /\ Goto(c, "publish") /\ UNCHANGED addr
     \/ addr' = [addr EXCEPT ![c] = None] /\ Goto(c, "dial") /\ UNCHANGED ip
  /\ UNCHANGED <<forever, hasTimeout, dns, cacheVars, deadline, histVars,
                 overlapped, expiredLate>>

\* t.tcpaddr = &net.TCPAddr{}: nobody points to the new address yet.
PublishAfterTime(c) ==
  /\ pc[c] = "publish"
  /\ LET inUse == {tcpaddr} \cup {addr[d] : d \in Conn}
         new   == CHOOSE a \in Address \ inUse : TRUE
     IN  /\ heap' = [heap EXCEPT ![new] = Empty]
         /\ tcpaddr' = new
  /\ fresh' = TRUE
  /\ Goto(c, "port")
  /\ UNCHANGED <<forever, hasTimeout, dns, ip, addr, deadline, histVars,
                 overlapped, expiredLate>>

Publish(c) ==
  /\ pc[c] = "publish"
  /\ LET inUse == {tcpaddr} \cup {addr[d] : d \in Conn}
         new   == CHOOSE a \in Address \ inUse : TRUE
     IN  /\ heap' = [heap EXCEPT ![new] = Empty]
         /\ tcpaddr' = new
  /\ Goto(c, "port")
  /\ UNCHANGED <<forever, hasTimeout, dns, fresh, ip, addr, deadline, histVars,
                 overlapped, expiredLate>>

\* t.tcpaddr.Port = t.port and t.tcpaddr.IP = ip: whatever t.tcpaddr is by now.
SetPort(c) ==
  /\ pc[c] = "port"
  /\ heap' = [heap EXCEPT ![tcpaddr].port = TRUE]
  /\ Goto(c, "ip")
  /\ UNCHANGED <<forever, hasTimeout, dns, tcpaddr, fresh, ip, addr, deadline, histVars,
                 overlapped, expiredLate>>

SetIP(c) ==
  /\ pc[c] = "ip"
  /\ heap' = [heap EXCEPT ![tcpaddr].ip = ip[c]]
  /\ ip' = [ip EXCEPT ![c] = None]
  /\ Goto(c, "time")
  /\ UNCHANGED <<forever, hasTimeout, dns, tcpaddr, fresh, addr, deadline, histVars,
                 overlapped, expiredLate>>

\* t.tcpaddrCacheTime = time.Now(); the address is then read again.
SetCacheTime(c) ==
  /\ pc[c] = "time"
  /\ fresh' = TRUE
  /\ Goto(c, "take")
  /\ UNCHANGED <<forever, hasTimeout, dns, heap, tcpaddr, ip, addr, deadline, histVars,
                 overlapped, expiredLate>>

\* DialTCP: an address that lacks a part is dialled all the same (a missing IP
\* is the local host), a nil address fails, and so may any.
DialTCP(c) ==
  /\ pc[c] = "dial"
  /\ IF addr[c] = None
       THEN Goto(c, "none") /\ UNCHANGED newest
       ELSE LET to == heap[addr[c]].ip IN
            /\ newest' = IF to # None /\ to > newest THEN to ELSE newest
            /\ Goto(c, "idle") \/ Goto(c, "none")
  /\ floor' = [floor EXCEPT ![c] = -1]
  /\ deadline' = [deadline EXCEPT ![c] = "none"]
  /\ addr' = [addr EXCEPT ![c] = None]
  /\ UNCHANGED <<forever, hasTimeout, dns, cacheVars, ip, overlapped, expiredLate>>

-----------------------------------------------------------------------------
(* A connection in use: http.Transport writes a request, through           *)
(* timeoutConnWrapper if there is a timeout, and reads all the time.       *)

\* The last write of a request sets the deadline anew.  If the deadline of the
\* request before has passed, the read that was pending may have failed already,
\* and the request with it.
WriteWithoutDeadline(c) ==
  /\ pc[c] = "idle"
  /\ Goto(c, "wait")
  /\ UNCHANGED deadline
  /\ UNCHANGED <<forever, hasTimeout, dns, cacheVars, ip, addr, histVars, overlapped,
                 expiredLate>>

Write(c) ==
  /\ pc[c] = "idle"
  /\ \/ /\ Goto(c, "wait")
        /\ deadline' = IF hasTimeout THEN [deadline EXCEPT ![c] = "set"] ELSE deadline
     \/ /\ deadline[c] = "passed"
        /\ Goto(c, "none")
        /\ UNCHANGED deadline
  /\ UNCHANGED <<forever, hasTimeout, dns, cacheVars, ip, addr, histVars, overlapped,
                 expiredLate>>

\* The response has been read to its end, or the connection has broken.
Answer(c) ==
  /\ pc[c] = "wait"
  /\ Goto(c, "idle") \/ Goto(c, "none")
  /\ UNCHANGED <<forever, hasTimeout, dns, cacheVars, ip, addr, deadline, histVars,
                 overlapped, expiredLate>>

DeadlinePasses(c) ==
  /\ pc[c] \in {"idle", "wait"}
  /\ deadline[c] = "set"
  /\ deadline' = [deadline EXCEPT ![c] = "passed"]
  /\ UNCHANGED <<forever, hasTimeout, dns, cacheVars, dialVars, histVars, overlapped,
                 expiredLate>>

\* The pending read fails: the request's, or that of an idle connection, which
\* http.Transport then closes.
ReadTimesOut(c) ==
  /\ pc[c] \in {"idle", "wait"}
  /\ deadline[c] = "passed"
  /\ Goto(c, "none")
  /\ UNCHANGED <<forever, hasTimeout, dns, cacheVars, ip, addr, deadline, histVars,
                 overlapped, expiredLate>>

-----------------------------------------------------------------------------
Next ==
  \/ Move \/ Expire
  \/ \E c \in Conn :
       \/ StartDial(c) \/ TestCache(c) \/ TakeCached(c) \/ LookupIP(c) \/ Publish(c)
       \/ SetPort(c) \/ SetIP(c) \/ SetCacheTime(c) \/ DialTCP(c)
       \/ Write(c) \/ Answer(c) \/ DeadlinePasses(c) \/ ReadTimesOut(c)

Spec == Init /\ [][Next]_vars

\* Deadlines pass and the reads they end return.  Nothing is assumed of the
\* upstream server, which may never answer.
FairSpec ==
  Spec /\ \A c \in Conn : WF_vars(DeadlinePasses(c)) /\ WF_vars(ReadTimesOut(c))

-----------------------------------------------------------------------------
(* Properties.                                                             *)

Dialling == {c \in Conn : pc[c] = "dial" /\ addr[c] # None}

\* An address that lookupIp is still filling in is not dialled, because its time
\* is stored last: unless the first address is cached for ever, two lookups
\* overlap, or the old address expires just as it is about to be used.
CompleteAddress ==
  forever \/ overlapped \/ expiredLate
    \/ \A c \in Dialling : heap[addr[c]].port /\ heap[addr[c]].ip # None

\* Dials do not go back to an older address than one that was in use when they
\* began, unless two lookups overlap and the slower one stores an older answer.
NoGoingBack ==
  overlapped
    \/ \A c \in Dialling : heap[addr[c]].ip # None => heap[addr[c]].ip >= floor[c]

\* With a timeout a request ends although the server never answers or never
\* stops answering: only writes move the deadline.
RoundTripEnds ==
  \A c \in Conn : (hasTimeout /\ pc[c] = "wait") ~> (pc[c] # "wait")
=============================================================================
