--------------------------------- MODULE Net ---------------------------------
(***************************************************************************)
(* The descriptors of LWIP and what has them: the sockets of scripts       *)
(* (net_socket.c), the requests of the HTTP client (net_http.c) and the    *)
(* HTTP server (net_httpd.c) with its own thread.  LWIP hands out the      *)
(* lowest free descriptor, so that one which was closed is soon another's. *)
(* Two threads may be in Lua at once: the owner of luaMutex and the REPL.  *)
(***************************************************************************)
EXTENDS Integers, FiniteSets, FiniteSetsExt

CONSTANTS
    MaxFds,       \* descriptors: LWIP has 10
    MaxSessions,  \* connections of the server: 7 by default
    Handles,      \* handles of sockets and servers that exist at a time
    Threads,      \* the threads that may be in Lua at once
    Nobody        \* no handle

ASSUME NetAssumption ==
    /\ MaxFds \in Nat /\ MaxSessions \in Nat \ {0}
    /\ Nobody \notin Handles
    /\ {"free", "client", "server", "session", "lost"} \cap Handles = {}

Fds == 0 .. MaxFds - 1
Closed == -1  \* the field fd of a socket that is not open

Ops == {"connect", "accept", "io", "close", "request", "stop"}
Calls == [op : Ops, h : Handles \cup {Nobody}, fd : Fds \cup {Closed}]
Idle == [op |-> "idle", h |-> Nobody, fd |-> Closed]

VARIABLES
    device,   \* "up"; "crossed": a close took the descriptor of somebody else; or
              \* "damaged": memory was used after it was freed, or in a race
    care,     \* how scripts behave, see May: chosen once
    role,     \* of a handle: "tcp", "udp", "httpd", or "none" if it does not exist
    fd,       \* the field fd of the handle of a socket
    open,     \* history: the handles that scripts opened and did not close
    table,    \* LWIP's: the handle a descriptor was made for; a "client", the
              \* "server" or one of its "session"s; "free"; or "lost", when the
              \* handle forgot it or is gone
    call,     \* the call a thread waits in
    server,   \* the handle the running server was started for, or Nobody
    srv,      \* the handles whose field srv is set
    uri       \* what the running server has: a handler, whose user_ctx is the handle

sockets == <<role, fd, open>>
httpd == <<server, srv, uri>>
vars == <<device, care, sockets, table, call, httpd>>

Socket(h) == role[h] \in {"tcp", "udp"}

TypeOK ==
    /\ device \in {"up", "crossed", "damaged"} /\ care \in {"full", "serial", "none"}
    /\ role \in [Handles -> {"none", "tcp", "udp", "httpd"}]
    /\ fd \in [Handles -> Fds \cup {Closed}]
    /\ \A h \in Handles : ~Socket(h) => fd[h] = Closed
    /\ open \subseteq {h \in Handles : role[h] # "none"}
    /\ table \in [Fds -> Handles \cup {"free", "client", "server", "session", "lost"}]
    /\ call \in [Threads -> Calls \cup {Idle}]
    /\ \A t \in Threads : call[t].h # Nobody => role[call[t].h] # "none"
    /\ server \in Handles \cup {Nobody}
    /\ srv \subseteq {h \in Handles : role[h] = "httpd"}
    /\ uri \in BOOLEAN

Init ==
    /\ device = "up" /\ care \in {"full", "serial", "none"}
    /\ role = [h \in Handles |-> "none"] /\ fd = [h \in Handles |-> Closed]
    /\ open = {} /\ table = [f \in Fds |-> "free"]
    /\ call = [t \in Threads |-> Idle]
    /\ server = Nobody /\ srv = {} /\ uri = FALSE

-----------------------------------------------------------------------------
Up == device = "up"
FreeFds == {f \in Fds : table[f] = "free"}
LowestFree == IF FreeFds = {} THEN Closed ELSE Min(FreeFds)
Take(f, for) == IF f = Closed THEN table ELSE [table EXCEPT ![f] = for]
\* the descriptors that were made for h, but for f, have no handle any more
Forget(h, tab, f) == [g \in Fds |-> IF tab[g] = h /\ g # f THEN "lost" ELSE tab[g]]
Owned(owners) == {f \in Fds : table[f] \in owners}
Release(fds) == [f \in Fds |-> IF f \in fds THEN "free" ELSE table[f]]
Used(h) == \E t \in Threads : call[t].h = h

\* What scripts call.  "none": anything.  "serial": anything, but no two calls
\* on one handle at a time.  "full": also, by their own record (open), connect or
\* listen on what is not open, use what is open, close or stop it once.
MayCall(t, h, fullOk) ==
    /\ Up /\ call[t] = Idle
    /\ care # "none" => ~Used(h)
    /\ care = "full" => fullOk
MayUse(t, h) == MayCall(t, h, h \in open)
MayNew(t, h) == Up /\ call[t] = Idle /\ role[h] = "none"

Waits(t, op, h, f) == call' = [call EXCEPT ![t] = [op |-> op, h |-> h, fd |-> f]]
Returns(t) == call' = [call EXCEPT ![t] = Idle]
In(t, op) == Up /\ call[t].op = op
Damage == device' = "damaged" /\ UNCHANGED <<care, sockets, table, call, httpd>>

-----------------------------------------------------------------------------
(* Sockets.                                                                *)

L_SOCK_TCP(t, h) ==
    /\ MayNew(t, h)
    /\ role' = [role EXCEPT ![h] = "tcp"]
    /\ UNCHANGED <<device, care, fd, open, table, call, httpd>>

\* the result of socket() is not looked at: a handle may be born closed
L_SOCK_UDP(t, h) ==
    LET f == LowestFree IN
    /\ MayNew(t, h)
    /\ role' = [role EXCEPT ![h] = "udp"] /\ open' = open \cup {h}
    /\ fd' = [fd EXCEPT ![h] = f] /\ table' = Take(f, h)
    /\ UNCHANGED <<device, care, call, httpd>>

\* s->fd = socket(...): what the field held is forgotten
NewFd(h) ==
    /\ open' = open \cup {h}
    /\ fd' = [fd EXCEPT ![h] = LowestFree]
    /\ table' = Forget(h, Take(LowestFree, h), LowestFree)

\* a host name that is not resolved changes nothing; connect() waits
F_CONNECT(t, h) ==
    /\ role[h] = "tcp" /\ MayCall(t, h, h \notin open)
    /\ NewFd(h)
    /\ IF LowestFree = Closed THEN UNCHANGED call ELSE Waits(t, "connect", h, Closed)
    /\ UNCHANGED <<device, care, role, httpd>>

\* connected, or refused: the field keeps the descriptor
ConnectReturns(t) ==
    /\ In(t, "connect") /\ Returns(t)
    /\ UNCHANGED <<device, care, sockets, table, httpd>>

\* nothing to wait for; where bind or listen fails the field keeps the descriptor
F_LISTEN(t, h) ==
    /\ role[h] = "tcp" /\ MayCall(t, h, h \notin open)
    /\ NewFd(h)
    /\ UNCHANGED <<device, care, role, call, httpd>>

F_ACCEPT(t, h) ==
    /\ role[h] = "tcp" /\ MayUse(t, h) /\ fd[h] # Closed
    /\ Waits(t, "accept", h, fd[h])
    /\ UNCHANGED <<device, care, sockets, table, httpd>>

\* variant: the new handle gets the descriptor that listens
Accepted_sameFd(t, h) ==
    /\ In(t, "accept") /\ role[h] = "none"
    /\ LowestFree # Closed /\ table[call[t].fd] # "free"
    /\ role' = [role EXCEPT ![h] = "tcp"] /\ open' = open \cup {h}
    /\ fd' = [fd EXCEPT ![h] = call[t].fd] /\ table' = Take(LowestFree, h)
    /\ Returns(t)
    /\ UNCHANGED <<device, care, httpd>>

Accepted(t, h) ==
    LET f == LowestFree IN
    /\ In(t, "accept") /\ role[h] = "none"
    /\ f # Closed /\ table[call[t].fd] # "free"
    /\ role' = [role EXCEPT ![h] = "tcp"] /\ open' = open \cup {h}
    /\ fd' = [fd EXCEPT ![h] = f] /\ table' = Take(f, h)
    /\ Returns(t)
    /\ UNCHANGED <<device, care, httpd>>

AcceptFails(t) ==
    /\ In(t, "accept") /\ Returns(t)
    /\ UNCHANGED <<device, care, sockets, table, httpd>>

\* send, recv, sendto, recvfrom
F_SEND_RECV(t, h) ==
    /\ Socket(h) /\ MayUse(t, h) /\ fd[h] # Closed
    /\ Waits(t, "io", h, Closed)
    /\ UNCHANGED <<device, care, sockets, table, httpd>>

TransferReturns(t) ==
    /\ In(t, "io") /\ Returns(t)
    /\ UNCHANGED <<device, care, sockets, table, httpd>>

F_CLOSE_Begin(t, h) ==
    /\ Socket(h) /\ MayUse(t, h)
    /\ IF fd[h] = Closed
       THEN open' = open \ {h} /\ UNCHANGED call
       ELSE Waits(t, "close", h, fd[h]) /\ UNCHANGED open
    /\ UNCHANGED <<device, care, role, fd, table, httpd>>

\* variant: the field keeps the number of the descriptor
F_CLOSE_keepsFd(t) ==
    LET h == call[t].h
        f == call[t].fd IN
    /\ In(t, "close")
    /\ IF table[f] \notin {h, "free", "lost"}
       THEN device' = "crossed" /\ UNCHANGED <<table, open, call>>
       ELSE /\ table' = Release({f}) /\ open' = open \ {h} /\ Returns(t)
            /\ UNCHANGED device
    /\ UNCHANGED <<care, role, fd, httpd>>

\* the descriptor that was tested, or what the field holds by now
F_CLOSE(t) ==
    LET h == call[t].h IN
    /\ In(t, "close")
    /\ \E f \in {call[t].fd, fd[h]} :
        IF f # Closed /\ table[f] \notin {h, "free", "lost"}
        THEN device' = "crossed" /\ UNCHANGED <<sockets, table, call>>
        ELSE /\ table' = Forget(h, Release({f}), Closed)
             /\ fd' = [fd EXCEPT ![h] = Closed] /\ open' = open \ {h}
             /\ Returns(t)
             /\ UNCHANGED <<device, role>>
    /\ UNCHANGED <<care, httpd>>

-----------------------------------------------------------------------------
(* The HTTP client: one request, one client.                               *)

L_HTTP_REQUEST(t) ==
    /\ Up /\ call[t] = Idle /\ LowestFree # Closed
    /\ table' = Take(LowestFree, "client")
    /\ Waits(t, "request", Nobody, LowestFree)
    /\ UNCHANGED <<device, care, sockets, httpd>>

\* the client is cleaned up; or perform failed, and the error leaves before that:
\* its connection stays open if it was made
RequestReturns(t) ==
    /\ In(t, "request") /\ Returns(t)
    /\ \E kept \in BOOLEAN :
        table' = IF kept THEN table ELSE Release({call[t].fd})
    /\ UNCHANGED <<device, care, sockets, httpd>>

-----------------------------------------------------------------------------
(* The HTTP server.                                                        *)

\* three descriptors, to listen and to be told to stop; one server at a time,
\* since the control port is fixed; on failure the handle is not returned
L_HTTPD_START(t, h) ==
    /\ MayNew(t, h) /\ server = Nobody /\ Cardinality(FreeFds) >= 3
    /\ role' = [role EXCEPT ![h] = "httpd"] /\ open' = open \cup {h}
    /\ server' = h /\ srv' = srv \cup {h} /\ uri' = FALSE
    /\ table' = [f \in Fds |->
                    IF f \in FreeFds /\ Cardinality({g \in FreeFds : g < f}) < 3
                    THEN "server" ELSE table[f]]
    /\ UNCHANGED <<device, care, fd, call>>

\* a NULL server is refused; one that is gone is not
F_ON(t, h) ==
    /\ role[h] = "httpd" /\ MayUse(t, h) /\ h \in srv
    /\ IF server # h THEN Damage
       ELSE /\ uri' = TRUE
            /\ UNCHANGED <<device, care, sockets, table, call, server, srv>>

F_STOP_Begin(t, h) ==
    /\ role[h] = "httpd" /\ MayUse(t, h) /\ h \in srv
    /\ Waits(t, "stop", h, Closed)
    /\ UNCHANGED <<device, care, sockets, table, httpd>>

\* httpd_stop has waited for the server's thread
F_STOP(t) ==
    LET h == call[t].h IN
    /\ In(t, "stop")
    /\ IF server # h THEN Damage
       ELSE /\ table' = Release(Owned({"server", "session"}))
            /\ server' = Nobody /\ uri' = FALSE
            /\ srv' = srv \ {h} /\ open' = open \ {h}
            /\ Returns(t)
            /\ UNCHANGED <<device, care, role, fd>>

\* httpd_accept_conn: where all sessions are taken the oldest makes room
SessionOpens ==
    LET sessions == Owned({"session"}) IN
    /\ Up /\ server # Nobody /\ Cardinality(sessions) < MaxSessions /\ LowestFree # Closed
    /\ table' = Take(LowestFree, "session")
    /\ UNCHANGED <<device, care, sockets, call, httpd>>

SessionCloses ==
    /\ Up /\ server # Nobody
    /\ \E f \in Owned({"session"}) : table' = Release({f})
    /\ UNCHANGED <<device, care, sockets, call, httpd>>

\* A request for a path that a script registered.  The handler looks for the
\* callback on the Lua stack of the handle, without luaMutex: if a thread is in
\* Lua the outcome is open.  It finds none (store_lua_callback puts nothing
\* under the key) and answers 404.
lua_httpd_generic_handler ==
    /\ Up /\ uri /\ Owned({"session"}) # {}
    /\ \/ server \in srv /\ UNCHANGED vars
       \/ Damage

-----------------------------------------------------------------------------
Collected(h) ==
    /\ Up /\ role[h] # "none"
    /\ care = "full" => h \notin open
    /\ role' = [role EXCEPT ![h] = "none"] /\ fd' = [fd EXCEPT ![h] = Closed]
    /\ open' = open \ {h} /\ srv' = srv \ {h}
    /\ table' = Forget(h, table, Closed)
    /\ UNCHANGED <<device, care, call, server, uri>>

\* variant: a handle is collected although a call is using it
Collect_used(h) == Collected(h)

\* the collector takes a handle: there is no finaliser, what it has stays open,
\* and a server keeps running with the pointer to it
Collect(h) == ~Used(h) /\ Collected(h)

Next ==
    \/ \E t \in Threads :
        \/ ConnectReturns(t) \/ AcceptFails(t) \/ TransferReturns(t) \/ F_CLOSE(t)
        \/ L_HTTP_REQUEST(t) \/ RequestReturns(t) \/ F_STOP(t)
        \/ \E h \in Handles :
            \/ L_SOCK_TCP(t, h) \/ L_SOCK_UDP(t, h)
            \/ F_CONNECT(t, h) \/ F_LISTEN(t, h) \/ F_ACCEPT(t, h) \/ Accepted(t, h)
            \/ F_SEND_RECV(t, h) \/ F_CLOSE_Begin(t, h)
            \/ L_HTTPD_START(t, h) \/ F_ON(t, h) \/ F_STOP_Begin(t, h)
    \/ SessionOpens \/ SessionCloses \/ lua_httpd_generic_handler
    \/ \E h \in Handles : Collect(h)

Spec == Init /\ [][Next]_vars

-----------------------------------------------------------------------------
\* Every descriptor can be given back by the one handle it was made for, and a
\* handle holds no other; a server has its three, and nothing of it stays when it
\* is stopped.  Scripts that close before they drop or open again lose none, and
\* the server they have started they can stop.
DescriptorsAccounted ==
    Up =>
        /\ \A h \in Handles, f \in Fds : fd[h] = f <=> table[f] = h
        /\ Cardinality(Owned({"server"})) = IF server = Nobody THEN 0 ELSE 3
        /\ Cardinality(Owned({"session"})) <= IF server = Nobody THEN 0 ELSE MaxSessions
        /\ care = "full" =>
            /\ Owned({"lost"}) = {}
            /\ \A h \in Handles : fd[h] # Closed => h \in open
            /\ server # Nobody => server \in srv \cap open

\* a close took the descriptor of another
CrossingNeedsOverlap == device = "crossed" => care = "none"

\* memory was used after it was freed, or in a race
DamageNeedsHandler == care # "none" /\ device = "damaged" => uri

\* A close never takes a descriptor of another handle, of the server or of a
\* request, though its number may have been theirs a moment ago or soon will be:
\* that needs two calls on one handle at a time, in the gap between the test of
\* the field and its reset.  As long as those do not overlap, start, on and stop
\* in any order are safe, on a server that was stopped too: what is left is the
\* handler, which uses the Lua state of a handle beside the threads in Lua.
SafeWithoutOverlap == CrossingNeedsOverlap /\ DamageNeedsHandler
=============================================================================
