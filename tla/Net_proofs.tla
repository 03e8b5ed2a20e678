----------------------------- MODULE Net_proofs -----------------------------
(***************************************************************************)
(* Theorems about Net for every number of descriptors, sessions, handles   *)
(* and threads.                                                            *)
(***************************************************************************)
EXTENDS Net, FiniteSetTheorems, WellFoundedInduction, TLAPS

(* Handle and descriptor point at each other.                              *)
FdTable == \A h \in Handles, f \in Fds : fd[h] = f <=> table[f] = h

(* A call on a handle knows what it found there; a request has its own.    *)
CallShape ==
    /\ \A t \in Threads :
        /\ call[t].op \in {"connect", "accept", "io", "close"} => Socket(call[t].h)
        /\ call[t].op \in {"connect", "accept", "io", "close", "stop"} => call[t].h \in Handles
        /\ call[t].op \in {"accept", "request"} => call[t].fd \in Fds
        /\ call[t].op = "request" => table[call[t].fd] = "client"
    /\ \A t, u \in Threads :
        call[t].op = "request" /\ call[u].op = "request" /\ call[t].fd = call[u].fd => t = u

(* Calls that do not overlap: what they found there is there.              *)
NoOverlap ==
    care # "none" =>
        /\ \A t, u \in Threads : call[t].h = call[u].h /\ call[t].h # Nobody => t = u
        /\ \A t \in Threads : call[t].op = "close" => fd[call[t].h] = call[t].fd
        /\ \A t \in Threads : call[t].op = "stop" => call[t].h \in srv
        /\ \A h \in srv : server = h

(* Scripts that keep their record lose nothing.                            *)
Record ==
    care = "full" =>
        /\ \A f \in Fds : table[f] # "lost"
        /\ \A h \in Handles : fd[h] # Closed => h \in open
        /\ server # Nobody => server \in srv \cap open

Linked == TypeOK /\ FdTable /\ CallShape /\ NoOverlap /\ Record /\ SafeWithoutOverlap

(* The counts: a server has three descriptors, and its sessions are        *)
(* bounded.                                                                *)
Counts ==
    /\ Cardinality(Owned({"server"})) = IF server = Nobody THEN 0 ELSE 3
    /\ Cardinality(Owned({"session"})) <= IF server = Nobody THEN 0 ELSE MaxSessions

(* A step that gives the server and its sessions nothing, and takes        *)
(* nothing of the server.                                                  *)
OwnersKept ==
    \A f \in Fds : /\ table'[f] = "server" <=> table[f] = "server"
                   /\ table'[f] = "session" => table[f] = "session"

-----------------------------------------------------------------------------
(* The lowest of a set of numbers.                                         *)

LEMMA LessRelated ==
    ASSUME NEW x \in Nat, NEW y \in Nat, y < x
    PROVE  <<y, x>> \in OpToRel(<, Nat)
  BY DEF OpToRel

LEMMA MinIsLowest ==
    ASSUME NEW S, S \subseteq Nat, S # {}
    PROVE  Min(S) \in S /\ \A y \in S : Min(S) =< y
<1>1. PICK x \in S : \A y \in S : ~(<<y, x>> \in OpToRel(<, Nat))
  BY NatLessThanWellFounded, WFMin
<1>2. ASSUME NEW y \in S, ~(x =< y) PROVE FALSE
  <2>1. <<y, x>> \in OpToRel(<, Nat)
    <3>1. y \in Nat /\ x \in Nat /\ y < x
      BY <1>2
    <3> QED
      BY <3>1, LessRelated
  <2> QED
    BY <1>1, <2>1, Zenon
<1> QED
  BY <1>2 DEF Min

LEMMA LowestIsFree ==
    /\ LowestFree \in Fds \cup {Closed}
    /\ LowestFree # Closed => LowestFree \in Fds /\ table[LowestFree] = "free"
<1>1. FreeFds \subseteq Nat /\ FreeFds \subseteq Fds
  BY NetAssumption DEF FreeFds, Fds
<1>2. CASE FreeFds = {}
  BY <1>2 DEF LowestFree
<1>3. CASE FreeFds # {}
  BY <1>1, <1>3, MinIsLowest DEF LowestFree, FreeFds
<1> QED
  BY <1>2, <1>3

-----------------------------------------------------------------------------
(* A step that changes nothing but the device.                             *)
LEMMA OnlyDevice ==
    ASSUME Linked, device' \in {"up", "crossed", "damaged"},
           UNCHANGED <<care, role, fd, open, table, call, server, srv, uri>>
    PROVE  TypeOK' /\ FdTable' /\ CallShape' /\ NoOverlap' /\ Record'
<1>1. TypeOK'
  BY DEF Linked, TypeOK, Socket
<1>2. FdTable'
  BY DEF Linked, FdTable
<1>3. CallShape'
  BY DEF Linked, CallShape, Socket
<1>4. NoOverlap'
  BY DEF Linked, NoOverlap
<1>5. Record'
  BY DEF Linked, Record
<1> QED
  BY <1>1, <1>2, <1>3, <1>4, <1>5

(* What TypeOK says, one variable at a time.                               *)
LEMMA TypedParts ==
    ASSUME device' \in {"up", "crossed", "damaged"}, care' \in {"full", "serial", "none"},
           role' \in [Handles -> {"none", "tcp", "udp", "httpd"}],
           fd' \in [Handles -> Fds \cup {Closed}],
           \A h \in Handles : role'[h] \notin {"tcp", "udp"} => fd'[h] = Closed,
           open' \subseteq {h \in Handles : role'[h] # "none"},
           table' \in [Fds -> Handles \cup {"free", "client", "server", "session", "lost"}],
           call' \in [Threads -> Calls \cup {Idle}],
           \A t \in Threads : call'[t].h # Nobody => role'[call'[t].h] # "none",
           server' \in Handles \cup {Nobody},
           srv' \subseteq {h \in Handles : role'[h] = "httpd"},
           uri' \in BOOLEAN
    PROVE  TypeOK'
  BY Zenon DEF TypeOK, Socket

LEMMA F_CONNECT_Typed ==
    ASSUME Linked, NEW t \in Threads, NEW h \in Handles, F_CONNECT(t, h)
    PROVE  TypeOK'
<1>1. TypeOK
  BY DEF Linked
<1>2. UNCHANGED <<device, care, role, server, srv, uri>>
  BY DEF F_CONNECT, httpd
<1>3. role[h] = "tcp"
  BY DEF F_CONNECT
<1>4. fd' \in [Handles -> Fds \cup {Closed}] /\ \A g \in Handles : ~Socket(g) => fd'[g] = Closed
  BY <1>1, <1>3, LowestIsFree DEF F_CONNECT, NewFd, TypeOK, Socket
<1>5. open' \subseteq {g \in Handles : role[g] # "none"}
  BY <1>1, <1>3 DEF F_CONNECT, NewFd, TypeOK
<1>6. table' \in [Fds -> Handles \cup {"free", "client", "server", "session", "lost"}]
  BY <1>1, LowestIsFree DEF F_CONNECT, NewFd, TypeOK, Forget, Take
<1>7. call' = call \/ call' = [call EXCEPT ![t] = [op |-> "connect", h |-> h, fd |-> Closed]]
  BY DEF F_CONNECT, Waits
<1>8. call' \in [Threads -> Calls \cup {Idle}]
  BY <1>1, <1>7 DEF TypeOK, Calls, Ops
<1>9. \A u \in Threads : call'[u].h # Nobody => role[call'[u].h] # "none"
  BY <1>1, <1>3, <1>7 DEF TypeOK
<1> QED
  BY <1>1, <1>2, <1>4, <1>5, <1>6, <1>8, <1>9, TypedParts DEF TypeOK, Socket

LEMMA F_CLOSE_Parts ==
    ASSUME Linked, NEW t \in Threads, F_CLOSE(t)
    PROVE  TypeOK' /\ FdTable' /\ CallShape' /\ NoOverlap' /\ Record'
<1> DEFINE h == call[t].h
<1>1. PICK f \in {call[t].fd, fd[h]} :
        \/ device' = "crossed" /\ UNCHANGED <<sockets, table, call>>
        \/ /\ f = Closed \/ table[f] \in {h, "free", "lost"}
           /\ table' = Forget(h, Release({f}), Closed)
           /\ fd' = [fd EXCEPT ![h] = Closed] /\ open' = open \ {h}
           /\ Returns(t) /\ UNCHANGED <<device, role>>
  BY DEF F_CLOSE
<1>2. UNCHANGED <<care, server, srv, uri>> /\ call[t].op = "close"
  BY DEF F_CLOSE, httpd, In
<1>3. CASE device' = "crossed" /\ UNCHANGED <<sockets, table, call>>
  BY <1>2, <1>3, OnlyDevice DEF sockets
<1>4. CASE /\ f = Closed \/ table[f] \in {h, "free", "lost"}
           /\ table' = Forget(h, Release({f}), Closed)
           /\ fd' = [fd EXCEPT ![h] = Closed] /\ open' = open \ {h}
           /\ Returns(t) /\ UNCHANGED <<device, role>>
  <2>1. TypeOK /\ Socket(h) /\ h \in Handles
    BY <1>2 DEF Linked, CallShape
  <2>2. fd' \in [Handles -> Fds \cup {Closed}] /\ \A g \in Handles : ~Socket(g) => fd'[g] = Closed
    BY <1>4, <2>1 DEF TypeOK
  <2>3. open' \subseteq {g \in Handles : role[g] # "none"}
    BY <1>4, <2>1 DEF TypeOK
  <2>4. table' \in [Fds -> Handles \cup {"free", "client", "server", "session", "lost"}]
    BY <1>4, <2>1 DEF TypeOK, Forget, Release
  <2>5. call' \in [Threads -> Calls \cup {Idle}]
    BY <1>4, <2>1 DEF TypeOK, Returns
  <2>6. \A u \in Threads : call'[u].h # Nobody => role[call'[u].h] # "none"
    BY <1>4, <2>1 DEF TypeOK, Returns, Idle
  <2>7. TypeOK'
    BY <1>2, <1>4, <2>1, <2>2, <2>3, <2>4, <2>5, <2>6, TypedParts DEF TypeOK, Socket
  <2>8. FdTable'
    BY <1>4, <2>1, NetAssumption DEF Linked, TypeOK, FdTable, Forget, Release, Closed, Fds
  <2>9. CallShape'
    <3>1. \A u \in Threads : call'[u] = call[u] \/ call'[u] = Idle
      BY <1>4, <2>1 DEF TypeOK, Returns
    <3>2. ASSUME NEW g \in Fds, table[g] = "client" PROVE table'[g] = "client"
      <4>1. h # "client" /\ g # f
        BY <1>4, <2>1, <3>2, NetAssumption DEF Closed, Fds
      <4>2. Release({f})[g] = "client"
        BY <3>2, <4>1 DEF Release
      <4> QED
        BY <1>4, <4>1, <4>2 DEF Forget
    <3>3. \A u \in Threads : call'[u].op # "idle" => call'[u] = call[u]
      BY <3>1 DEF Idle
    <3>4. role' = role
      BY <1>4
    <3> HIDE <1>4
    <3> QED
      BY <3>2, <3>3, <3>4 DEF Linked, CallShape, Socket
  <2>10. NoOverlap'
    <3>1. \A u \in Threads : u # t => call'[u] = call[u]
      BY <1>4, <2>1 DEF TypeOK, Returns
    <3>2. call'[t].h = Nobody /\ call'[t].op = "idle"
      BY <1>4, <2>1 DEF TypeOK, Returns, Idle
    <3>3. \A g \in Handles : g # h => fd'[g] = fd[g]
      BY <1>4, <2>1 DEF TypeOK
    <3>4. h # Nobody
      BY <2>1, NetAssumption
    <3> QED
      BY <1>2, <3>1, <3>2, <3>3, <3>4 DEF Linked, CallShape, NoOverlap
  <2>11. Record'
    BY <1>2, <1>4, <2>1, NetAssumption DEF Linked, TypeOK, NoOverlap, Record, FdTable,
         Forget, Release, Closed, Fds, Socket
  <2> QED
    BY <2>7, <2>8, <2>9, <2>10, <2>11
<1> QED
  BY <1>1, <1>3, <1>4

LEMMA L_HTTPD_START_Parts ==
    ASSUME Linked, NEW t \in Threads, NEW h \in Handles, L_HTTPD_START(t, h)
    PROVE  TypeOK' /\ FdTable' /\ CallShape' /\ NoOverlap' /\ Record'
<1> DEFINE third(f) == f \in FreeFds /\ Cardinality({g \in FreeFds : g < f}) < 3
<1>1. TypeOK /\ role[h] = "none" /\ server = Nobody /\ UNCHANGED <<device, care, fd, call>>
      /\ role' = [role EXCEPT ![h] = "httpd"] /\ open' = open \cup {h}
      /\ server' = h /\ srv' = srv \cup {h} /\ uri' = FALSE
  BY DEF Linked, L_HTTPD_START, MayNew
<1>2. table' = [f \in Fds |-> IF third(f) THEN "server" ELSE table[f]]
  BY DEF L_HTTPD_START
<1>3. \A f \in Fds : third(f) => table[f] = "free"
  BY DEF FreeFds
<1> HIDE DEF third
<1>4. table' \in [Fds -> Handles \cup {"free", "client", "server", "session", "lost"}]
  BY <1>1, <1>2 DEF TypeOK
<1>5. \A f \in Fds : table'[f] = table[f] \/ (table[f] = "free" /\ table'[f] = "server")
  <2> TAKE f \in Fds
  <2>1. table'[f] = IF third(f) THEN "server" ELSE table[f]
    BY <1>2
  <2> QED
    BY <1>3, <2>1
<1>6. role' \in [Handles -> {"none", "tcp", "udp", "httpd"}]
  BY <1>1 DEF TypeOK
<1>7. \A g \in Handles : role'[g] \notin {"tcp", "udp"} => fd'[g] = Closed
  BY <1>1 DEF TypeOK, Socket
<1>8. open' \subseteq {g \in Handles : role'[g] # "none"} /\ srv' \subseteq {g \in Handles : role'[g] = "httpd"}
  BY <1>1 DEF TypeOK
<1>9. \A u \in Threads : call'[u].h # Nobody => role'[call'[u].h] # "none"
  BY <1>1 DEF TypeOK
<1>10. TypeOK'
  BY <1>1, <1>4, <1>6, <1>7, <1>8, <1>9, TypedParts DEF TypeOK
<1>11. FdTable'
  BY <1>1, <1>5, NetAssumption DEF Linked, TypeOK, FdTable
<1>12. CallShape'
  BY <1>1, <1>5 DEF Linked, TypeOK, CallShape, Socket
<1>13. NoOverlap'
  BY <1>1, NetAssumption DEF Linked, TypeOK, NoOverlap
<1>14. Record'
  BY <1>1, <1>5 DEF Linked, TypeOK, Record
<1> QED
  BY <1>10, <1>11, <1>12, <1>13, <1>14

LEMMA F_STOP_Parts ==
    ASSUME Linked, NEW t \in Threads, F_STOP(t)
    PROVE  TypeOK' /\ FdTable' /\ CallShape' /\ NoOverlap' /\ Record'
<1> DEFINE h == call[t].h
<1>1. CASE server # h
  BY <1>1, OnlyDevice DEF F_STOP, Damage, sockets, httpd
<1>2. CASE server = h
  <2>1. /\ UNCHANGED <<device, care, role, fd>> /\ call[t].op = "stop"
        /\ table' = Release(Owned({"server", "session"}))
        /\ server' = Nobody /\ uri' = FALSE
        /\ srv' = srv \ {h} /\ open' = open \ {h} /\ call' = [call EXCEPT ![t] = Idle]
    BY <1>2 DEF F_STOP, In, Returns
  <2>2. TypeOK
    BY DEF Linked
  <2>3. table' \in [Fds -> Handles \cup {"free", "client", "server", "session", "lost"}]
    BY <2>1, <2>2 DEF TypeOK, Release
  <2>4. call' \in [Threads -> Calls \cup {Idle}]
    BY <2>1, <2>2 DEF TypeOK
  <2>5. \A u \in Threads : call'[u].h # Nobody => role[call'[u].h] # "none"
    BY <2>1, <2>2 DEF TypeOK, Idle
  <2>6. TypeOK'
    BY <2>1, <2>2, <2>3, <2>4, <2>5, TypedParts DEF TypeOK, Socket
  <2>7. \A f \in Fds : \/ table'[f] = table[f]
                       \/ table[f] \in {"server", "session"} /\ table'[f] = "free"
    <3> TAKE f \in Fds
    <3>1. table'[f] = IF f \in Owned({"server", "session"}) THEN "free" ELSE table[f]
      BY <2>1 DEF Release
    <3>2. f \in Owned({"server", "session"}) <=> table[f] \in {"server", "session"}
      BY DEF Owned
    <3> QED
      BY <3>1, <3>2
  <2>8. FdTable'
    BY <2>1, <2>2, <2>7, NetAssumption DEF Linked, TypeOK, FdTable
  <2>9. CallShape'
    BY <2>1, <2>2, <2>7 DEF Linked, TypeOK, CallShape, Socket, Idle
  <2>10. NoOverlap'
    <3>1. \A u \in Threads : u # t => call'[u] = call[u]
      BY <2>1, <2>2 DEF TypeOK
    <3>2. call'[t].h = Nobody /\ call'[t].op = "idle"
      BY <2>1, <2>2 DEF TypeOK, Idle
    <3>3. h # Nobody
      BY <2>1, NetAssumption DEF Linked, CallShape
    <3> QED
      BY <1>2, <2>1, <3>1, <3>2, <3>3 DEF Linked, CallShape, NoOverlap
  <2>11. Record'
    <3>1. care = "full" => h \in Handles /\ fd[h] = Closed
      BY <2>1, <2>2 DEF Linked, TypeOK, NoOverlap, Socket
    <3> QED
      BY <2>1, <2>7, <3>1 DEF Linked, Record
  <2> QED
    BY <2>6, <2>8, <2>9, <2>10, <2>11
<1> QED
  BY <1>1, <1>2

LEMMA lua_httpd_generic_handler_Parts ==
    ASSUME Linked, lua_httpd_generic_handler
    PROVE  TypeOK' /\ FdTable' /\ CallShape' /\ NoOverlap' /\ Record'
  BY OnlyDevice DEF Linked, TypeOK, lua_httpd_generic_handler, Damage, vars, sockets, httpd

-----------------------------------------------------------------------------
(* Each action keeps the table and the handles together.                    *)

LEMMA ConnectReturns_Keeps ==
    ASSUME Linked, NEW t \in Threads, ConnectReturns(t)
    PROVE  Linked'
<1> USE NetAssumption, LowestIsFree DEF ConnectReturns, Waits, Returns, In, sockets,
    httpd, Used, Linked
<1>1. TypeOK'
  BY DEF TypeOK, Calls, Idle, Ops, Closed, Fds, Socket
<1>2. FdTable'
  BY DEF TypeOK, FdTable, Closed, Fds, CallShape, Socket
<1>3. CallShape'
  BY DEF TypeOK, CallShape, Idle, Calls, Socket
<1>4. NoOverlap'
  BY DEF TypeOK, NoOverlap, Idle, CallShape, Socket, Calls
<1>5. Record'
  BY DEF TypeOK, Record, FdTable, Closed, Fds, NoOverlap, CallShape, Socket
<1>6. SafeWithoutOverlap'
  BY DEF SafeWithoutOverlap, CrossingNeedsOverlap, DamageNeedsHandler, Up, NoOverlap,
       FdTable, CallShape, TypeOK
<1> QED
  BY <1>1, <1>2, <1>3, <1>4, <1>5, <1>6

LEMMA AcceptFails_Keeps ==
    ASSUME Linked, NEW t \in Threads, AcceptFails(t)
    PROVE  Linked'
<1> USE NetAssumption, LowestIsFree DEF AcceptFails, Waits, Returns, In, sockets, httpd,
    Used, Linked
<1>1. TypeOK'
  BY DEF TypeOK, Calls, Idle, Ops, Closed, Fds, Socket
<1>2. FdTable'
  BY DEF TypeOK, FdTable, Closed, Fds, CallShape, Socket
<1>3. CallShape'
  BY DEF TypeOK, CallShape, Idle, Calls, Socket
<1>4. NoOverlap'
  BY DEF TypeOK, NoOverlap, Idle, CallShape, Socket, Calls
<1>5. Record'
  BY DEF TypeOK, Record, FdTable, Closed, Fds, NoOverlap, CallShape, Socket
<1>6. SafeWithoutOverlap'
  BY DEF SafeWithoutOverlap, CrossingNeedsOverlap, DamageNeedsHandler, Up, NoOverlap,
       FdTable, CallShape, TypeOK
<1> QED
  BY <1>1, <1>2, <1>3, <1>4, <1>5, <1>6

LEMMA TransferReturns_Keeps ==
    ASSUME Linked, NEW t \in Threads, TransferReturns(t)
    PROVE  Linked'
<1> USE NetAssumption, LowestIsFree DEF TransferReturns, Waits, Returns, In, sockets,
    httpd, Used, Linked
<1>1. TypeOK'
  BY DEF TypeOK, Calls, Idle, Ops, Closed, Fds, Socket
<1>2. FdTable'
  BY DEF TypeOK, FdTable, Closed, Fds, CallShape, Socket
<1>3. CallShape'
  BY DEF TypeOK, CallShape, Idle, Calls, Socket
<1>4. NoOverlap'
  BY DEF TypeOK, NoOverlap, Idle, CallShape, Socket, Calls
<1>5. Record'
  BY DEF TypeOK, Record, FdTable, Closed, Fds, NoOverlap, CallShape, Socket
<1>6. SafeWithoutOverlap'
  BY DEF SafeWithoutOverlap, CrossingNeedsOverlap, DamageNeedsHandler, Up, NoOverlap,
       FdTable, CallShape, TypeOK
<1> QED
  BY <1>1, <1>2, <1>3, <1>4, <1>5, <1>6

LEMMA L_SOCK_TCP_Keeps ==
    ASSUME Linked, NEW t \in Threads, NEW h \in Handles, L_SOCK_TCP(t, h)
    PROVE  Linked'
<1> USE NetAssumption, LowestIsFree DEF L_SOCK_TCP, MayNew, Waits, Returns, In, sockets,
    httpd, Used, Linked
<1>1. TypeOK'
  BY DEF TypeOK, Calls, Idle, Ops, Closed, Fds, Socket
<1>2. FdTable'
  BY DEF TypeOK, FdTable, Closed, Fds, CallShape, Socket
<1>3. CallShape'
  BY DEF TypeOK, CallShape, Idle, Calls, Socket
<1>4. NoOverlap'
  BY DEF TypeOK, NoOverlap, Idle, CallShape, Socket, Calls
<1>5. Record'
  BY DEF TypeOK, Record, FdTable, Closed, Fds, NoOverlap, CallShape, Socket
<1>6. SafeWithoutOverlap'
  BY DEF SafeWithoutOverlap, CrossingNeedsOverlap, DamageNeedsHandler, Up, NoOverlap,
       FdTable, CallShape, TypeOK
<1> QED
  BY <1>1, <1>2, <1>3, <1>4, <1>5, <1>6

LEMMA L_SOCK_UDP_Keeps ==
    ASSUME Linked, NEW t \in Threads, NEW h \in Handles, L_SOCK_UDP(t, h)
    PROVE  Linked'
<1> USE NetAssumption, LowestIsFree DEF L_SOCK_UDP, MayNew, Take, Waits, Returns, In,
    sockets, httpd, Used, Linked
<1>1. TypeOK'
  BY DEF TypeOK, Calls, Idle, Ops, Closed, Fds, Socket
<1>2. FdTable'
  BY DEF TypeOK, FdTable, Closed, Fds, CallShape, Socket
<1>3. CallShape'
  BY DEF TypeOK, CallShape, Idle, Calls, Socket
<1>4. NoOverlap'
  BY DEF TypeOK, NoOverlap, Idle, CallShape, Socket, Calls
<1>5. Record'
  BY DEF TypeOK, Record, FdTable, Closed, Fds, NoOverlap, CallShape, Socket
<1>6. SafeWithoutOverlap'
  BY DEF SafeWithoutOverlap, CrossingNeedsOverlap, DamageNeedsHandler, Up, NoOverlap,
       FdTable, CallShape, TypeOK
<1> QED
  BY <1>1, <1>2, <1>3, <1>4, <1>5, <1>6

LEMMA F_CONNECT_Keeps ==
    ASSUME Linked, NEW t \in Threads, NEW h \in Handles, F_CONNECT(t, h)
    PROVE  Linked'
<1> USE NetAssumption, LowestIsFree DEF F_CONNECT, MayCall, NewFd, Forget, Take, Socket,
    Waits, Returns, In, sockets, httpd, Used, Linked
<1>1. TypeOK'
  BY F_CONNECT_Typed
<1>2. FdTable'
  BY DEF TypeOK, FdTable, Closed, Fds, CallShape, Socket
<1>3. CallShape'
  BY DEF TypeOK, CallShape, Idle, Calls, Socket
<1>4. NoOverlap'
  BY DEF TypeOK, NoOverlap, Idle, CallShape, Socket, Calls
<1>5. Record'
  BY DEF TypeOK, Record, FdTable, Closed, Fds, NoOverlap, CallShape, Socket
<1>6. SafeWithoutOverlap'
  BY DEF SafeWithoutOverlap, CrossingNeedsOverlap, DamageNeedsHandler, Up, NoOverlap,
       FdTable, CallShape, TypeOK
<1> QED
  BY <1>1, <1>2, <1>3, <1>4, <1>5, <1>6

LEMMA F_LISTEN_Keeps ==
    ASSUME Linked, NEW t \in Threads, NEW h \in Handles, F_LISTEN(t, h)
    PROVE  Linked'
<1> USE NetAssumption, LowestIsFree DEF F_LISTEN, MayCall, NewFd, Forget, Take, Socket,
    Waits, Returns, In, sockets, httpd, Used, Linked
<1>1. TypeOK'
  BY DEF TypeOK, Calls, Idle, Ops, Closed, Fds, Socket
<1>2. FdTable'
  BY DEF TypeOK, FdTable, Closed, Fds, CallShape, Socket
<1>3. CallShape'
  BY DEF TypeOK, CallShape, Idle, Calls, Socket
<1>4. NoOverlap'
  BY DEF TypeOK, NoOverlap, Idle, CallShape, Socket, Calls
<1>5. Record'
  BY DEF TypeOK, Record, FdTable, Closed, Fds, NoOverlap, CallShape, Socket
<1>6. SafeWithoutOverlap'
  BY DEF SafeWithoutOverlap, CrossingNeedsOverlap, DamageNeedsHandler, Up, NoOverlap,
       FdTable, CallShape, TypeOK
<1> QED
  BY <1>1, <1>2, <1>3, <1>4, <1>5, <1>6

LEMMA F_ACCEPT_Keeps ==
    ASSUME Linked, NEW t \in Threads, NEW h \in Handles, F_ACCEPT(t, h)
    PROVE  Linked'
<1> USE NetAssumption, LowestIsFree DEF F_ACCEPT, MayCall, MayUse, Socket, Waits, Returns,
    In, sockets, httpd, Used, Linked
<1>1. TypeOK'
  BY DEF TypeOK, Calls, Idle, Ops, Closed, Fds, Socket
<1>2. FdTable'
  BY DEF TypeOK, FdTable, Closed, Fds, CallShape, Socket
<1>3. CallShape'
  BY DEF TypeOK, CallShape, Idle, Calls, Socket
<1>4. NoOverlap'
  BY DEF TypeOK, NoOverlap, Idle, CallShape, Socket, Calls
<1>5. Record'
  BY DEF TypeOK, Record, FdTable, Closed, Fds, NoOverlap, CallShape, Socket
<1>6. SafeWithoutOverlap'
  BY DEF SafeWithoutOverlap, CrossingNeedsOverlap, DamageNeedsHandler, Up, NoOverlap,
       FdTable, CallShape, TypeOK
<1> QED
  BY <1>1, <1>2, <1>3, <1>4, <1>5, <1>6

LEMMA Accepted_Keeps ==
    ASSUME Linked, NEW t \in Threads, NEW h \in Handles, Accepted(t, h)
    PROVE  Linked'
<1> USE NetAssumption, LowestIsFree DEF Accepted, Take, Socket, Waits, Returns, In,
    sockets, httpd, Used, Linked
<1>1. TypeOK'
  BY DEF TypeOK, Calls, Idle, Ops, Closed, Fds, Socket
<1>2. FdTable'
  BY DEF TypeOK, FdTable, Closed, Fds, CallShape, Socket
<1>3. CallShape'
  BY DEF TypeOK, CallShape, Idle, Calls, Socket
<1>4. NoOverlap'
  BY DEF TypeOK, NoOverlap, Idle, CallShape, Socket, Calls
<1>5. Record'
  BY DEF TypeOK, Record, FdTable, Closed, Fds, NoOverlap, CallShape, Socket
<1>6. SafeWithoutOverlap'
  BY DEF SafeWithoutOverlap, CrossingNeedsOverlap, DamageNeedsHandler, Up, NoOverlap,
       FdTable, CallShape, TypeOK
<1> QED
  BY <1>1, <1>2, <1>3, <1>4, <1>5, <1>6

LEMMA F_SEND_RECV_Keeps ==
    ASSUME Linked, NEW t \in Threads, NEW h \in Handles, F_SEND_RECV(t, h)
    PROVE  Linked'
<1> USE NetAssumption, LowestIsFree DEF F_SEND_RECV, MayCall, MayUse, Waits, Returns, In,
    sockets, httpd, Used, Linked
<1>1. TypeOK'
  BY DEF TypeOK, Calls, Idle, Ops, Closed, Fds, Socket
<1>2. FdTable'
  BY DEF TypeOK, FdTable, Closed, Fds, CallShape, Socket
<1>3. CallShape'
  BY DEF TypeOK, CallShape, Idle, Calls, Socket
<1>4. NoOverlap'
  BY DEF TypeOK, NoOverlap, Idle, CallShape, Socket, Calls
<1>5. Record'
  BY DEF TypeOK, Record, FdTable, Closed, Fds, NoOverlap, CallShape, Socket
<1>6. SafeWithoutOverlap'
  BY DEF SafeWithoutOverlap, CrossingNeedsOverlap, DamageNeedsHandler, Up, NoOverlap,
       FdTable, CallShape, TypeOK
<1> QED
  BY <1>1, <1>2, <1>3, <1>4, <1>5, <1>6

LEMMA F_CLOSE_Begin_Keeps ==
    ASSUME Linked, NEW t \in Threads, NEW h \in Handles, F_CLOSE_Begin(t, h)
    PROVE  Linked'
<1> USE NetAssumption, LowestIsFree DEF F_CLOSE_Begin, MayCall, MayUse, Waits, Returns,
    In, sockets, httpd, Used, Linked
<1>1. TypeOK'
  BY DEF TypeOK, Calls, Idle, Ops, Closed, Fds, Socket
<1>2. FdTable'
  BY DEF TypeOK, FdTable, Closed, Fds, CallShape, Socket
<1>3. CallShape'
  BY DEF TypeOK, CallShape, Idle, Calls, Socket
<1>4. NoOverlap'
  BY DEF TypeOK, NoOverlap, Idle, CallShape, Socket, Calls
<1>5. Record'
  BY DEF TypeOK, Record, FdTable, Closed, Fds, NoOverlap, CallShape, Socket
<1>6. SafeWithoutOverlap'
  BY DEF SafeWithoutOverlap, CrossingNeedsOverlap, DamageNeedsHandler, Up, NoOverlap,
       FdTable, CallShape, TypeOK
<1> QED
  BY <1>1, <1>2, <1>3, <1>4, <1>5, <1>6

LEMMA F_CLOSE_Keeps ==
    ASSUME Linked, NEW t \in Threads, F_CLOSE(t)
    PROVE  Linked'
<1>1. TypeOK' /\ FdTable' /\ CallShape' /\ NoOverlap' /\ Record'
  BY F_CLOSE_Parts
<1>2. SafeWithoutOverlap'
  BY NetAssumption DEF F_CLOSE, In, httpd, Returns, CallShape, TypeOK, FdTable, Linked,
       NoOverlap, Up, SafeWithoutOverlap, CrossingNeedsOverlap,
          DamageNeedsHandler
<1> QED
  BY <1>1, <1>2 DEF Linked

LEMMA L_HTTP_REQUEST_Keeps ==
    ASSUME Linked, NEW t \in Threads, L_HTTP_REQUEST(t)
    PROVE  Linked'
<1> USE NetAssumption, LowestIsFree DEF L_HTTP_REQUEST, Take, Waits, Returns, In, sockets,
    httpd, Used, Linked
<1>1. TypeOK'
  BY DEF TypeOK, Calls, Idle, Ops, Closed, Fds, Socket
<1>2. FdTable'
  BY DEF TypeOK, FdTable, Closed, Fds, CallShape, Socket
<1>3. CallShape'
  BY DEF TypeOK, CallShape, Idle, Calls, Socket
<1>4. NoOverlap'
  BY DEF TypeOK, NoOverlap, Idle, CallShape, Socket, Calls
<1>5. Record'
  BY DEF TypeOK, Record, FdTable, Closed, Fds, NoOverlap, CallShape, Socket
<1>6. SafeWithoutOverlap'
  BY DEF SafeWithoutOverlap, CrossingNeedsOverlap, DamageNeedsHandler, Up, NoOverlap,
       FdTable, CallShape, TypeOK
<1> QED
  BY <1>1, <1>2, <1>3, <1>4, <1>5, <1>6

LEMMA RequestReturns_Keeps ==
    ASSUME Linked, NEW t \in Threads, RequestReturns(t)
    PROVE  Linked'
<1> USE NetAssumption, LowestIsFree DEF RequestReturns, Release, Waits, Returns, In,
    sockets, httpd, Used, Linked
<1>1. TypeOK'
  BY DEF TypeOK, Calls, Idle, Ops, Closed, Fds, Socket
<1>2. FdTable'
  BY DEF TypeOK, FdTable, Closed, Fds, CallShape, Socket
<1>3. CallShape'
  BY DEF TypeOK, CallShape, Idle, Calls, Socket
<1>4. NoOverlap'
  BY DEF TypeOK, NoOverlap, Idle, CallShape, Socket, Calls
<1>5. Record'
  BY DEF TypeOK, Record, FdTable, Closed, Fds, NoOverlap, CallShape, Socket
<1>6. SafeWithoutOverlap'
  BY DEF SafeWithoutOverlap, CrossingNeedsOverlap, DamageNeedsHandler, Up, NoOverlap,
       FdTable, CallShape, TypeOK
<1> QED
  BY <1>1, <1>2, <1>3, <1>4, <1>5, <1>6

LEMMA L_HTTPD_START_Keeps ==
    ASSUME Linked, NEW t \in Threads, NEW h \in Handles, L_HTTPD_START(t, h)
    PROVE  Linked'
<1>1. TypeOK' /\ FdTable' /\ CallShape' /\ NoOverlap' /\ Record'
  BY L_HTTPD_START_Parts
<1>2. SafeWithoutOverlap'
  BY NetAssumption DEF L_HTTPD_START, MayNew, Linked, NoOverlap, Up, SafeWithoutOverlap,
       CrossingNeedsOverlap,
          DamageNeedsHandler
<1> QED
  BY <1>1, <1>2 DEF Linked

LEMMA F_ON_Keeps ==
    ASSUME Linked, NEW t \in Threads, NEW h \in Handles, F_ON(t, h)
    PROVE  Linked'
<1> USE NetAssumption, LowestIsFree DEF F_ON, MayCall, MayUse, Damage, Waits, Returns, In,
    sockets, httpd, Used, Linked
<1>1. TypeOK'
  BY DEF TypeOK, Calls, Idle, Ops, Closed, Fds, Socket
<1>2. FdTable'
  BY DEF TypeOK, FdTable, Closed, Fds, CallShape, Socket
<1>3. CallShape'
  BY DEF TypeOK, CallShape, Idle, Calls, Socket
<1>4. NoOverlap'
  BY DEF TypeOK, NoOverlap, Idle, CallShape, Socket, Calls
<1>5. Record'
  BY DEF TypeOK, Record, FdTable, Closed, Fds, NoOverlap, CallShape, Socket
<1>6. SafeWithoutOverlap'
  BY DEF SafeWithoutOverlap, CrossingNeedsOverlap, DamageNeedsHandler, Up, NoOverlap,
       FdTable, CallShape, TypeOK
<1> QED
  BY <1>1, <1>2, <1>3, <1>4, <1>5, <1>6

LEMMA F_STOP_Begin_Keeps ==
    ASSUME Linked, NEW t \in Threads, NEW h \in Handles, F_STOP_Begin(t, h)
    PROVE  Linked'
<1> USE NetAssumption, LowestIsFree DEF F_STOP_Begin, MayCall, MayUse, Waits, Returns, In,
    sockets, httpd, Used, Linked
<1>1. TypeOK'
  BY DEF TypeOK, Calls, Idle, Ops, Closed, Fds, Socket
<1>2. FdTable'
  BY DEF TypeOK, FdTable, Closed, Fds, CallShape, Socket
<1>3. CallShape'
  BY DEF TypeOK, CallShape, Idle, Calls, Socket
<1>4. NoOverlap'
  BY DEF TypeOK, NoOverlap, Idle, CallShape, Socket, Calls
<1>5. Record'
  BY DEF TypeOK, Record, FdTable, Closed, Fds, NoOverlap, CallShape, Socket
<1>6. SafeWithoutOverlap'
  BY DEF SafeWithoutOverlap, CrossingNeedsOverlap, DamageNeedsHandler, Up, NoOverlap,
       FdTable, CallShape, TypeOK
<1> QED
  BY <1>1, <1>2, <1>3, <1>4, <1>5, <1>6

LEMMA F_STOP_Keeps ==
    ASSUME Linked, NEW t \in Threads, F_STOP(t)
    PROVE  Linked'
<1>1. TypeOK' /\ FdTable' /\ CallShape' /\ NoOverlap' /\ Record'
  BY F_STOP_Parts
<1>2. SafeWithoutOverlap'
  BY NetAssumption DEF F_STOP, In, Damage, httpd, Linked, NoOverlap, Up,
       SafeWithoutOverlap, CrossingNeedsOverlap,
          DamageNeedsHandler
<1> QED
  BY <1>1, <1>2 DEF Linked

LEMMA SessionOpens_Keeps ==
    ASSUME Linked, SessionOpens
    PROVE  Linked'
<1> USE NetAssumption, LowestIsFree DEF SessionOpens, Take, Waits, Returns, In, sockets,
    httpd, Used, Linked
<1>1. TypeOK'
  BY DEF TypeOK, Calls, Idle, Ops, Closed, Fds, Socket
<1>2. FdTable'
  BY DEF TypeOK, FdTable, Closed, Fds, CallShape, Socket
<1>3. CallShape'
  BY DEF TypeOK, CallShape, Idle, Calls, Socket
<1>4. NoOverlap'
  BY DEF TypeOK, NoOverlap, Idle, CallShape, Socket, Calls
<1>5. Record'
  BY DEF TypeOK, Record, FdTable, Closed, Fds, NoOverlap, CallShape, Socket
<1>6. SafeWithoutOverlap'
  BY DEF SafeWithoutOverlap, CrossingNeedsOverlap, DamageNeedsHandler, Up, NoOverlap,
       FdTable, CallShape, TypeOK
<1> QED
  BY <1>1, <1>2, <1>3, <1>4, <1>5, <1>6

LEMMA SessionCloses_Keeps ==
    ASSUME Linked, SessionCloses
    PROVE  Linked'
<1> USE NetAssumption, LowestIsFree DEF SessionCloses, Release, Owned, Waits, Returns, In,
    sockets, httpd, Used, Linked
<1>1. TypeOK'
  BY DEF TypeOK, Calls, Idle, Ops, Closed, Fds, Socket
<1>2. FdTable'
  BY DEF TypeOK, FdTable, Closed, Fds, CallShape, Socket
<1>3. CallShape'
  BY DEF TypeOK, CallShape, Idle, Calls, Socket
<1>4. NoOverlap'
  BY DEF TypeOK, NoOverlap, Idle, CallShape, Socket, Calls
<1>5. Record'
  BY DEF TypeOK, Record, FdTable, Closed, Fds, NoOverlap, CallShape, Socket
<1>6. SafeWithoutOverlap'
  BY DEF SafeWithoutOverlap, CrossingNeedsOverlap, DamageNeedsHandler, Up, NoOverlap,
       FdTable, CallShape, TypeOK
<1> QED
  BY <1>1, <1>2, <1>3, <1>4, <1>5, <1>6

LEMMA lua_httpd_generic_handler_Keeps ==
    ASSUME Linked, lua_httpd_generic_handler
    PROVE  Linked'
<1>1. TypeOK' /\ FdTable' /\ CallShape' /\ NoOverlap' /\ Record'
  BY lua_httpd_generic_handler_Parts
<1>2. SafeWithoutOverlap'
  BY NetAssumption DEF lua_httpd_generic_handler, Damage, vars, httpd, Linked, NoOverlap,
       Up, SafeWithoutOverlap, CrossingNeedsOverlap,
          DamageNeedsHandler
<1> QED
  BY <1>1, <1>2 DEF Linked

LEMMA CollectKeeps ==
    ASSUME Linked, NEW h \in Handles, ~Used(h), Collected(h)
    PROVE  Linked'
<1> USE NetAssumption, LowestIsFree DEF Collected, Forget, Waits, Returns, In, sockets,
    httpd, Used, Linked
<1>1. TypeOK'
  BY DEF TypeOK, Calls, Idle, Ops, Closed, Fds, Socket
<1>2. FdTable'
  BY DEF TypeOK, FdTable, Closed, Fds, CallShape, Socket
<1>3. CallShape'
  BY DEF TypeOK, CallShape, Idle, Calls, Socket
<1>4. NoOverlap'
  BY DEF TypeOK, NoOverlap, Idle, CallShape, Socket, Calls
<1>5. Record'
  BY DEF TypeOK, Record, FdTable, Closed, Fds, NoOverlap, CallShape, Socket
<1>6. SafeWithoutOverlap'
  BY DEF SafeWithoutOverlap, CrossingNeedsOverlap, DamageNeedsHandler, Up, NoOverlap,
       FdTable, CallShape, TypeOK
<1> QED
  BY <1>1, <1>2, <1>3, <1>4, <1>5, <1>6

LEMMA StutterKeeps == ASSUME Linked, UNCHANGED vars PROVE Linked'
<1>1. TypeOK' /\ FdTable' /\ CallShape' /\ NoOverlap' /\ Record'
  BY OnlyDevice DEF Linked, TypeOK, vars, sockets, httpd
<1>2. SafeWithoutOverlap'
  BY DEF Linked, vars, httpd, SafeWithoutOverlap, CrossingNeedsOverlap, DamageNeedsHandler
<1> QED
  BY <1>1, <1>2 DEF Linked

LEMMA NextLinked == Linked /\ [Next]_vars => Linked'
  BY ConnectReturns_Keeps, AcceptFails_Keeps, TransferReturns_Keeps, L_SOCK_TCP_Keeps,
     L_SOCK_UDP_Keeps, F_CONNECT_Keeps, F_LISTEN_Keeps, F_ACCEPT_Keeps, Accepted_Keeps,
     F_SEND_RECV_Keeps, F_CLOSE_Begin_Keeps, F_CLOSE_Keeps, L_HTTP_REQUEST_Keeps,
     RequestReturns_Keeps, L_HTTPD_START_Keeps, F_ON_Keeps, F_STOP_Begin_Keeps,
         F_STOP_Keeps,
     SessionOpens_Keeps, SessionCloses_Keeps, lua_httpd_generic_handler_Keeps, CollectKeeps,
     StutterKeeps DEF Next, Collect

LEMMA InitLinked == Init => Linked
<1> SUFFICES ASSUME Init PROVE Linked
  OBVIOUS
<1> USE NetAssumption DEF Init, Idle, Closed
<1>1. TypeOK
  BY DEF TypeOK, Socket, Fds
<1>2. FdTable
  BY DEF FdTable, Fds
<1>3. CallShape /\ NoOverlap /\ Record
  BY DEF CallShape, NoOverlap, Record
<1>4. SafeWithoutOverlap
  BY DEF SafeWithoutOverlap, CrossingNeedsOverlap, DamageNeedsHandler
<1> QED
  BY <1>1, <1>2, <1>3, <1>4 DEF Linked

-----------------------------------------------------------------------------
(* Counting descriptors.                                                   *)

LEMMA OwnedFinite ==
    ASSUME NEW owners
    PROVE  IsFiniteSet(Owned(owners)) /\ Cardinality(Owned(owners)) \in Nat
<1>1. IsFiniteSet(Fds)
  BY FS_Interval, NetAssumption DEF Fds
<1>2. Owned(owners) \subseteq Fds
  BY DEF Owned
<1> QED
  BY <1>1, <1>2, FS_Subset, FS_CardinalityType

LEMMA CountsKept ==
    ASSUME Counts, OwnersKept, server' = server
    PROVE  Counts'
<1>1. Owned({"server"})' = Owned({"server"})
  BY DEF Owned, OwnersKept
<1>2. Owned({"session"})' \subseteq Owned({"session"})
  BY DEF Owned, OwnersKept
<1>3. /\ Cardinality(Owned({"session"})') <= Cardinality(Owned({"session"}))
      /\ Cardinality(Owned({"session"})') \in Nat /\ Cardinality(Owned({"session"})) \in Nat
  BY <1>2, OwnedFinite, FS_Subset, FS_CardinalityType
<1> QED
  BY <1>1, <1>3, NetAssumption DEF Counts

(* Three elements are the least three of a set of numbers.                 *)
LEMMA ThreeLowest ==
    ASSUME NEW S, S \subseteq Nat, IsFiniteSet(S), Cardinality(S) >= 3
    PROVE  Cardinality({f \in S : Cardinality({g \in S : g < f}) < 3}) = 3
<1> DEFINE Below(f) == {g \in S : g < f}
<1>1. \A x : IsFiniteSet({x}) /\ Cardinality({x}) = 1
  BY FS_Singleton
<1>2. \A x, y : x # y => IsFiniteSet({x, y}) /\ Cardinality({x, y}) = 2
  <2> TAKE x, y
  <2> HAVE x # y
  <2>1. IsFiniteSet({x}) /\ Cardinality({x}) = 1 /\ y \notin {x}
    BY FS_Singleton
  <2>2. Cardinality({x} \cup {y}) = Cardinality({x}) + 1 /\ IsFiniteSet({x} \cup {y})
    BY <2>1, FS_AddElement
  <2>3. {x} \cup {y} = {x, y}
    OBVIOUS
  <2> QED
    BY <2>1, <2>2, <2>3
<1>3. PICK a \in S : \A g \in S : a =< g
  <2>1. S # {}
    BY FS_EmptySet
  <2> QED
    BY <2>1, MinIsLowest
<1>4. PICK b \in S \ {a} : \A g \in S \ {a} : b =< g
  <2>1. S # {a}
    BY <1>1
  <2>2. S \ {a} \subseteq Nat /\ S \ {a} # {}
    BY <1>3, <2>1
  <2> QED
    BY <2>2, MinIsLowest
<1>5. PICK c \in S \ {a, b} : \A g \in S \ {a, b} : c =< g
  <2>1. a # b
    BY <1>4
  <2>2. Cardinality({a, b}) = 2
    BY <1>2, <2>1
  <2>3. S # {a, b}
    BY <2>2
  <2>4. S \ {a, b} \subseteq Nat /\ S \ {a, b} # {}
    BY <1>3, <1>4, <2>3
  <2> QED
    BY <2>4, MinIsLowest
<1>6. a < b /\ b < c /\ {a, b, c} \subseteq S
  BY <1>3, <1>4, <1>5
<1>7. Cardinality({a, b, c}) = 3 /\ IsFiniteSet({a, b, c})
  <2>1. IsFiniteSet({a, b}) /\ Cardinality({a, b}) = 2 /\ c \notin {a, b}
    BY <1>2, <1>6
  <2>2. Cardinality({a, b} \cup {c}) = Cardinality({a, b}) + 1 /\ IsFiniteSet({a, b} \cup {c})
    BY <2>1, FS_AddElement
  <2>3. {a, b} \cup {c} = {a, b, c}
    OBVIOUS
  <2> QED
    BY <2>1, <2>2, <2>3
<1>8. Below(a) = {} /\ Below(b) = {a} /\ Below(c) = {a, b}
  <2>0. /\ \A g \in S : g \in Nat
        /\ \A g \in S : ~(g < a)
        /\ \A g \in S : g < b <=> g = a
        /\ \A g \in S : g < c <=> g = a \/ g = b
    BY <1>3, <1>4, <1>5, <1>6
  <2>1. Below(a) = {}
    BY <2>0
  <2>2. Below(b) = {a}
    BY <2>0, <1>6
  <2>3. Below(c) = {a, b}
    BY <2>0, <1>6
  <2> QED
    BY <2>1, <2>2, <2>3
<1>9. Cardinality(Below(a)) = 0 /\ Cardinality(Below(b)) = 1 /\ Cardinality(Below(c)) = 2
  <2>1. Cardinality(Below(a)) = 0
    BY <1>8, FS_EmptySet
  <2>2. Cardinality(Below(b)) = 1
    BY <1>1, <1>8
  <2>3. a # b
    BY <1>4
  <2>4. Cardinality(Below(c)) = 2
    BY <1>2, <1>8, <2>3
  <2> QED
    BY <2>1, <2>2, <2>4
<1>10. ASSUME NEW f \in S, f \notin {a, b, c}
       PROVE  Cardinality(Below(f)) \in Nat /\ Cardinality(Below(f)) >= 3
  <2>1. {a, b, c} \subseteq Below(f)
    BY <1>3, <1>4, <1>5, <1>6, <1>10
  <2>2. Below(f) \subseteq S
    OBVIOUS
  <2>3. IsFiniteSet(Below(f))
    BY <2>2, FS_Subset
  <2>4. Cardinality({a, b, c}) <= Cardinality(Below(f))
    BY <2>1, <2>3, FS_Subset
  <2> QED
    BY <1>7, <2>3, <2>4, FS_CardinalityType
<1>11. ASSUME NEW f \in S PROVE Cardinality(Below(f)) < 3 <=> f \in {a, b, c}
  <2>1. CASE f \in {a, b, c}
    BY <1>9, <2>1
  <2>2. CASE f \notin {a, b, c}
    BY <1>10, <2>2
  <2> QED
    BY <2>1, <2>2
<1>12. {f \in S : Cardinality(Below(f)) < 3} = {a, b, c}
  BY <1>6, <1>11
<1> QED
  BY <1>7, <1>12

-----------------------------------------------------------------------------
(* The count of each action's step.                                        *)

(* A descriptor that was free, and is not the server's or a session's now. *)
LEMMA TakeKeepsOwners ==
    ASSUME Linked, NEW x, x \notin {"server", "session"}, table' = Take(LowestFree, x)
    PROVE  OwnersKept
  BY LowestIsFree DEF Linked, TypeOK, Take, OwnersKept

(* What a handle has, or has no more, is not the server's.                 *)
LEMMA NewFdKeepsOwners ==
    ASSUME Linked, NEW h \in Handles, NewFd(h)
    PROVE  OwnersKept
  BY LowestIsFree, NetAssumption DEF Linked, TypeOK, NewFd, Forget, Take, OwnersKept

LEMMA SocketsKeepOwners ==
    ASSUME Linked, NEW t \in Threads, NEW h \in Handles,
           \/ L_SOCK_TCP(t, h) \/ L_SOCK_UDP(t, h) \/ F_CONNECT(t, h) \/ F_LISTEN(t, h)
           \/ F_ACCEPT(t, h) \/ Accepted(t, h) \/ F_SEND_RECV(t, h) \/ F_CLOSE_Begin(t, h)
           \/ F_ON(t, h) \/ F_STOP_Begin(t, h)
    PROVE  OwnersKept /\ server' = server
<1>1. server' = server
  BY DEF L_SOCK_TCP, L_SOCK_UDP, F_CONNECT, F_LISTEN, F_ACCEPT, Accepted, F_SEND_RECV,
     F_CLOSE_Begin, F_ON, F_STOP_Begin, Damage, httpd
<1>2. CASE L_SOCK_UDP(t, h) \/ Accepted(t, h)
  <2>1. table' = Take(LowestFree, h) /\ h \notin {"server", "session"}
    BY <1>2, NetAssumption DEF L_SOCK_UDP, Accepted
  <2> QED
    BY <1>1, <2>1, TakeKeepsOwners
<1>3. CASE F_CONNECT(t, h) \/ F_LISTEN(t, h)
  BY <1>1, <1>3, NewFdKeepsOwners DEF F_CONNECT, F_LISTEN
<1>4. CASE table' = table
  BY <1>1, <1>4 DEF OwnersKept
<1> QED
  BY <1>2, <1>3, <1>4 DEF L_SOCK_TCP, F_ACCEPT, F_SEND_RECV, F_CLOSE_Begin, F_ON,
     F_STOP_Begin, Damage

LEMMA CloseKeepsOwners ==
    ASSUME Linked, NEW t \in Threads, F_CLOSE(t)
    PROVE  OwnersKept /\ server' = server
<1> DEFINE h == call[t].h
<1>1. h \in Handles /\ server' = server
  BY DEF F_CLOSE, In, Linked, CallShape, httpd
<1>2. PICK f \in {call[t].fd, fd[h]} :
        \/ table' = table
        \/ f = Closed /\ table' = Forget(h, Release({f}), Closed)
        \/ table[f] \in {h, "free", "lost"} /\ table' = Forget(h, Release({f}), Closed)
  BY DEF F_CLOSE
<1> QED
  BY <1>1, <1>2, NetAssumption DEF OwnersKept, Forget, Release, Linked, TypeOK, Fds, Closed

LEMMA RequestKeepsOwners ==
    ASSUME Linked, NEW t \in Threads, RequestReturns(t)
    PROVE  OwnersKept /\ server' = server
<1>1. table[call[t].fd] = "client" /\ server' = server
  BY DEF RequestReturns, In, Linked, CallShape, httpd
<1> QED
  BY <1>1 DEF RequestReturns, OwnersKept, Release, Linked, TypeOK

LEMMA CollectKeepsOwners ==
    ASSUME Linked, NEW h \in Handles, Collected(h)
    PROVE  OwnersKept /\ server' = server
  BY NetAssumption DEF Collected, OwnersKept, Forget, Linked, TypeOK

LEMMA StartCounts ==
    ASSUME Linked, Counts, NEW t \in Threads, NEW h \in Handles, L_HTTPD_START(t, h)
    PROVE  Counts'
<1> DEFINE low == {f \in FreeFds : Cardinality({g \in FreeFds : g < f}) < 3}
<1>1. /\ server = Nobody /\ server' = h /\ h # Nobody /\ Cardinality(FreeFds) >= 3
      /\ table' = [f \in Fds |->
                    IF f \in FreeFds /\ Cardinality({g \in FreeFds : g < f}) < 3
                    THEN "server" ELSE table[f]]
  BY NetAssumption DEF L_HTTPD_START
<1>2. FreeFds \subseteq Nat /\ FreeFds = Owned({"free"})
  BY NetAssumption DEF FreeFds, Fds, Owned
<1>3. Cardinality(low) = 3
  BY <1>1, <1>2, ThreeLowest, OwnedFinite
<1>4. Owned({"server"}) = {}
  BY <1>1, OwnedFinite, FS_EmptySet DEF Counts
<1>5. \A f \in Fds : f \in low <=> f \in FreeFds /\ Cardinality({g \in FreeFds : g < f}) < 3
  OBVIOUS
<1>6. low \subseteq Fds
  BY DEF FreeFds
<1>7. \A f \in Fds : table'[f] = IF f \in low THEN "server" ELSE table[f]
  BY <1>1, <1>5
<1> HIDE DEF low
<1>8. Owned({"server"})' = low
  BY <1>4, <1>6, <1>7 DEF Owned
<1>9. Owned({"session"})' \subseteq Owned({"session"})
  BY <1>7 DEF Owned
<1>10. Cardinality(Owned({"session"})') <= Cardinality(Owned({"session"}))
       /\ Cardinality(Owned({"session"})') \in Nat /\ Cardinality(Owned({"session"})) \in Nat
  BY <1>9, OwnedFinite, FS_Subset, FS_CardinalityType
<1> QED
  BY <1>1, <1>3, <1>8, <1>10, NetAssumption DEF Counts

LEMMA StopCounts ==
    ASSUME Linked, Counts, NEW t \in Threads, F_STOP(t)
    PROVE  Counts'
<1>1. CASE server # call[t].h
  BY <1>1, CountsKept DEF F_STOP, Damage, OwnersKept, httpd
<1>2. CASE server = call[t].h
  <2>1. table' = Release(Owned({"server", "session"})) /\ server' = Nobody
    BY <1>2 DEF F_STOP
  <2>2. \A f \in Fds : table'[f] \notin {"server", "session"}
    <3> TAKE f \in Fds
    <3>1. table'[f] = IF f \in Owned({"server", "session"}) THEN "free" ELSE table[f]
      BY <2>1 DEF Release
    <3> QED
      BY <3>1 DEF Owned
  <2>3. Owned({"server"})' = {} /\ Owned({"session"})' = {}
    BY <2>2 DEF Owned
  <2> QED
    BY <2>1, <2>3, FS_EmptySet DEF Counts
<1> QED
  BY <1>1, <1>2

LEMMA OpensCounts ==
    ASSUME Linked, Counts, SessionOpens
    PROVE  Counts'
<1>1. /\ server # Nobody /\ server' = server /\ Cardinality(Owned({"session"})) < MaxSessions
      /\ LowestFree # Closed /\ table' = Take(LowestFree, "session")
  BY DEF SessionOpens, httpd
<1>2. LowestFree \in Fds /\ table[LowestFree] = "free"
  BY <1>1, LowestIsFree
<1>3. table' = [table EXCEPT ![LowestFree] = "session"]
  BY <1>1 DEF Take
<1>4. Owned({"server"})' = Owned({"server"})
  BY <1>2, <1>3 DEF Owned, Linked, TypeOK
<1>5. Owned({"session"})' = Owned({"session"}) \cup {LowestFree} /\ LowestFree \notin Owned({"session"})
  BY <1>2, <1>3 DEF Owned, Linked, TypeOK
<1>6. Cardinality(Owned({"session"})') = Cardinality(Owned({"session"})) + 1
  BY <1>5, OwnedFinite, FS_AddElement
<1> QED
  BY <1>1, <1>4, <1>6, OwnedFinite, NetAssumption DEF Counts

LEMMA ClosesCounts ==
    ASSUME Linked, Counts, SessionCloses
    PROVE  Counts'
<1>1. PICK f \in Owned({"session"}) : table' = Release({f})
  BY DEF SessionCloses
<1>2. OwnersKept
  BY <1>1 DEF OwnersKept, Owned, Release
<1> QED
  BY <1>2, CountsKept DEF SessionCloses, httpd

LEMMA HandlerCounts ==
    ASSUME Linked, Counts, lua_httpd_generic_handler \/ UNCHANGED vars
    PROVE  Counts'
<1>1. table' = table /\ server' = server
  BY DEF lua_httpd_generic_handler, Damage, vars, httpd
<1> QED
  BY <1>1, CountsKept DEF OwnersKept

LEMMA NextCounts == Linked /\ Counts /\ [Next]_vars => Counts'
<1> SUFFICES ASSUME Linked, Counts, [Next]_vars PROVE Counts'
  OBVIOUS
<1>1. ASSUME NEW t \in Threads, ConnectReturns(t) \/ AcceptFails(t) \/ TransferReturns(t)
                                \/ L_HTTP_REQUEST(t)
      PROVE  OwnersKept /\ server' = server
  BY <1>1, LowestIsFree DEF OwnersKept, ConnectReturns, AcceptFails, TransferReturns,
     L_HTTP_REQUEST, Take, Linked, TypeOK, httpd
<1>2. ASSUME NEW t \in Threads, F_CLOSE(t) \/ RequestReturns(t)
      PROVE  OwnersKept /\ server' = server
  BY <1>2, CloseKeepsOwners, RequestKeepsOwners
<1>3. ASSUME NEW h \in Handles, Collect(h) PROVE OwnersKept /\ server' = server
  BY <1>3, CollectKeepsOwners DEF Collect
<1> QED
  BY <1>1, <1>2, <1>3, SocketsKeepOwners, CountsKept, StartCounts, StopCounts, OpensCounts,
     ClosesCounts, HandlerCounts DEF Next

LEMMA InitCounts == Init => Counts
<1> SUFFICES ASSUME Init PROVE Counts
  OBVIOUS
<1>1. Owned({"server"}) = {} /\ Owned({"session"}) = {}
  BY DEF Init, Owned
<1> QED
  BY <1>1, FS_EmptySet DEF Init, Counts

-----------------------------------------------------------------------------
(* Every invariant proved here follows from this one.                      *)
THEOREM Inductive == Spec => []Linked
  BY InitLinked, NextLinked, PTL DEF Spec

(* The variables keep their types.                                         *)
THEOREM TypeCorrect == Spec => []TypeOK
  BY Inductive, PTL DEF Linked

(* A close takes no descriptor of another unless two calls on one handle   *)
(* overlap, and then only a handler of the server can damage the memory.   *)
THEOREM ClosesOwnDescriptor == Spec => []SafeWithoutOverlap
  BY Inductive, PTL DEF Linked

(* A handle has the descriptor that LWIP made for it, and no other; with   *)
(* careful scripts none is lost.                                           *)
THEOREM DescriptorsMatch == Spec => [](FdTable /\ Record)
  BY Inductive, PTL DEF Linked

(* Handles and descriptors match, the server has its three and no session  *)
(* too many, and with careful scripts nothing is lost.                     *)
THEOREM EveryDescriptorCounted == Spec => []DescriptorsAccounted
<1>1. Init => Linked /\ Counts
  BY InitLinked, InitCounts
<1>2. Linked /\ Counts /\ [Next]_vars => (Linked /\ Counts)'
  BY NextLinked, NextCounts
<1>3. Linked /\ Counts => DescriptorsAccounted
  BY DEF Linked, Counts, FdTable, Record, Owned, DescriptorsAccounted
<1> QED
  BY <1>1, <1>2, <1>3, PTL DEF Spec
=============================================================================
