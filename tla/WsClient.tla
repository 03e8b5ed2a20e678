------------------------------ MODULE WsClient ------------------------------
(***************************************************************************)
(* The WebSocket of a script (net_websocket.c) and the client behind it    *)
(* (esp_websocket_client.c): the task that connects, reads, pings and      *)
(* connects again, and the threads in Lua that send and close.  The fields *)
(* of the client are shared: some under its recursive lock, some not.      *)
(* Every WebSocket has a client of its own, so there is one here; another  *)
(* is opened when it is gone.                                              *)
(***************************************************************************)
EXTENDS FiniteSets

CONSTANT Threads  \* the threads that may be in Lua at once

Task == "task"
Nobody == "nobody"
ASSUME WsAssumption == {Task, Nobody} \cap Threads = {}

\* the states below WEBSOCKET_STATE_INIT are one: a client that does not run
States == {"unknown", "init", "connected", "wait", "closing"}
Bits == {"stopped", "closeSent"}
Pcs == {"none", "created", "begun", "loop", "locked", "unlocked", "poll", "recv",
        "failed", "closeWait", "finish", "exit", "gone"}
Closing == {"stop", "stopWait", "stopWoken", "destroy"}
CallPcs == {"idle", "start", "send", "sending"} \cup Closing

VARIABLES
    device,     \* "up", or "damaged": the client was used after it was freed
    care,       \* whether scripts overlap calls on a handle or drop it open: chosen once
    prompt,     \* whether the task's first and last statements run before the
                \* next call of a thread that made it or waits for it: chosen once
    handle,     \* of the script: "none", "open", "closed" (c is NULL) or "lost"
    client,     \* the allocation: "none", "alive" or "freed"
    state, run, bits, pong,  \* of the client; pong: wait_for_pong_resp
    lock,       \* its owner
    transport,  \* "open" or "closed"
    peer,       \* the other end: "up", "silent" or "gone"
    pc,         \* of the task
    call,       \* of a thread: where it is in a call
    late        \* history: a send that the close frame overtook has failed

fields == <<state, run, bits, pong>>
script == <<handle, client, call>>
vars == <<device, care, prompt, script, fields, lock, transport, peer, pc, late>>

TypeOK ==
    /\ device \in {"up", "damaged"} /\ care \in BOOLEAN /\ prompt \in BOOLEAN
    /\ handle \in {"none", "open", "closed", "lost"}
    /\ client \in {"none", "alive", "freed"}
    /\ state \in States /\ run \in BOOLEAN /\ bits \subseteq Bits /\ pong \in BOOLEAN
    /\ lock \in Threads \cup {Task, Nobody}
    /\ lock = Task <=> pc = "locked"
    /\ transport \in {"open", "closed"} /\ peer \in {"up", "silent", "gone"}
    /\ pc \in Pcs /\ call \in [Threads -> CallPcs] /\ late \in BOOLEAN

Init ==
    /\ device = "up" /\ care \in BOOLEAN /\ prompt \in BOOLEAN
    /\ handle = "none" /\ client = "none"
    /\ state = "unknown" /\ run = FALSE /\ bits = {} /\ pong = FALSE
    /\ lock = Nobody /\ transport = "closed" /\ peer = "gone"
    /\ pc = "none" /\ call = [t \in Threads |-> "idle"] /\ late = FALSE

-----------------------------------------------------------------------------
Up == device = "up"
Damage == device' = "damaged" /\ UNCHANGED <<care, prompt, script, fields, lock,
                                             transport, peer, pc, late>>
Goto(from, to) == Up /\ client = "alive" /\ pc = from /\ pc' = to
Step(t, from, to) == Up /\ call[t] = from /\ call' = [call EXCEPT ![t] = to]

\* esp_websocket_client_abort_connection: closed, and to be opened again after
\* a while; a client that does not run is left alone
AbortConnection ==
    IF state = "unknown" THEN UNCHANGED <<state, transport>>
    ELSE state' = "wait" /\ transport' = "closed"

-----------------------------------------------------------------------------
(* The task.                                                               *)

TaskRuns ==
    /\ Goto("created", "begun") /\ run' = TRUE
    /\ UNCHANGED <<device, care, prompt, script, state, bits, pong, lock, transport, peer, late>>

TaskInit ==
    /\ Goto("begun", "loop")
    /\ state' = "init" /\ bits' = {}
    /\ UNCHANGED <<device, care, prompt, script, run, pong, lock, transport, peer, late>>

TaskLocks ==
    /\ Goto("loop", "locked") /\ run
    /\ lock = Nobody /\ lock' = Task
    /\ UNCHANGED <<device, care, prompt, script, fields, transport, peer, late>>

TaskLeaves ==
    /\ Goto("loop", "finish") /\ ~run
    /\ UNCHANGED <<device, care, prompt, script, fields, lock, transport, peer, late>>

\* one turn of the switch, under the lock
Turn(s) ==
    /\ Goto("locked", "unlocked") /\ lock' = Nobody
    /\ state = s
    /\ UNCHANGED <<device, care, prompt, script, run, late>>

ConnectOk ==
    /\ Turn("init")
    /\ state' = "connected" /\ transport' = "open" /\ peer' = "up" /\ pong' = FALSE
    /\ UNCHANGED bits

\* variant: that turn keeps the lock
ConnectFails_locked ==
    /\ Goto("locked", "unlocked") /\ state = "init" /\ AbortConnection
    /\ UNCHANGED <<device, care, prompt, script, run, bits, pong, lock, peer, late>>

ConnectFails ==
    /\ Turn("init") /\ AbortConnection
    /\ UNCHANGED <<bits, pong, peer>>

\* variant: the answer is not waited for
SendPing_forgets ==
    /\ Turn("connected") /\ "closeSent" \notin bits
    /\ UNCHANGED <<state, bits, pong, transport, peer>>

\* not once the close frame was sent
SendPing ==
    /\ Turn("connected") /\ "closeSent" \notin bits
    /\ pong' = TRUE
    /\ UNCHANGED <<state, bits, transport, peer>>

PongTimeout ==
    /\ Turn("connected") /\ "closeSent" \notin bits /\ pong
    /\ AbortConnection
    /\ UNCHANGED <<bits, pong, peer>>

\* nothing is due
Quiet ==
    /\ \/ Turn("connected") \/ Turn("wait") \/ Turn("unknown")
    /\ UNCHANGED <<state, bits, pong, transport, peer>>

Reconnect ==
    /\ Turn("wait") /\ state' = "init"
    /\ UNCHANGED <<bits, pong, transport, peer>>

\* the close frame of the server is answered
SendCloseFrame ==
    /\ Turn("closing") /\ bits' = bits \cup {"closeSent"}
    /\ UNCHANGED <<state, pong, transport, peer>>

\* what to do next depends on a state that senders may have changed meanwhile
TaskUnlocked ==
    /\ Goto("unlocked", CASE state = "connected" -> "poll"
                          [] state = "closing" /\ "closeSent" \in bits -> "closeWait"
                          [] OTHER -> "loop")
    /\ UNCHANGED <<device, care, prompt, script, fields, lock, transport, peer, late>>

Broken == transport = "closed" \/ peer = "gone"

PollTimeout ==
    /\ Goto("poll", "loop") /\ ~Broken
    /\ UNCHANGED <<device, care, prompt, script, fields, lock, transport, peer, late>>

PollFails ==
    /\ \E from \in {"poll", "recv"} : Goto(from, "failed")
    /\ Broken
    /\ UNCHANGED <<device, care, prompt, script, fields, lock, transport, peer, late>>

PollReady ==
    /\ Goto("poll", "recv") /\ ~Broken /\ peer = "up"
    /\ UNCHANGED <<device, care, prompt, script, fields, lock, transport, peer, late>>

\* read without the lock, though senders may abort the connection meanwhile:
\* data or a PING, which is answered; a PONG; or the close frame of the server
Received ==
    /\ Goto("recv", "loop")
    /\ \/ UNCHANGED <<state, pong>>
       \/ pong' = FALSE /\ UNCHANGED state
       \/ state' = "closing" /\ UNCHANGED pong
    /\ UNCHANGED <<device, care, prompt, script, run, bits, lock, transport, peer, late>>

TaskAborts ==
    /\ Goto("failed", "loop") /\ lock = Nobody
    /\ AbortConnection
    /\ UNCHANGED <<device, care, prompt, script, run, bits, pong, lock, peer, late>>

\* variant: it connects again, and the close frame still counts as sent
CloseFinished_again ==
    /\ Goto("closeWait", "loop")
    /\ state' = "wait" /\ transport' = "closed"
    /\ UNCHANGED <<device, care, prompt, script, run, bits, pong, lock, peer, late>>

\* variant: it says that it has stopped before it has
CloseFinished_early ==
    /\ Goto("closeWait", "finish")
    /\ run' = FALSE /\ state' = "unknown" /\ bits' = bits \cup {"stopped"}
    /\ UNCHANGED <<device, care, prompt, script, pong, lock, transport, peer, late>>

\* the server closes, or a second has passed: close_reconnect is not set
CloseFinished ==
    /\ Goto("closeWait", "finish")
    /\ run' = FALSE /\ state' = "unknown"
    /\ UNCHANGED <<device, care, prompt, script, bits, pong, lock, transport, peer, late>>

\* variant: nobody is told
TaskStopped_silent ==
    /\ Goto("finish", "exit")
    /\ prompt => \A t \in Threads : call[t] # "start"
    /\ transport' = "closed"
    /\ UNCHANGED <<device, care, prompt, script, fields, lock, peer, late>>

TaskStopped ==
    /\ Goto("finish", "exit")
    /\ prompt => \A t \in Threads : call[t] # "start"
    /\ transport' = "closed" /\ bits' = bits \cup {"stopped"}
    /\ UNCHANGED <<device, care, prompt, script, state, run, pong, lock, peer, late>>

\* state is written and selected_for_destroying read after the bit is set
TaskExits ==
    /\ Goto("exit", "gone") /\ state' = "unknown"
    /\ UNCHANGED <<device, care, prompt, script, run, bits, pong, lock, transport, peer, late>>

\* whatever the task does next, it does with the client
TaskUsesFreed == Up /\ client = "freed" /\ pc \notin {"none", "gone"} /\ Damage

PeerChanges ==
    /\ Up /\ peer' \in {"silent", "gone"} /\ peer # "gone" /\ peer' # peer
    /\ UNCHANGED <<device, care, prompt, script, fields, lock, transport, pc, late>>

-----------------------------------------------------------------------------
(* The threads in Lua.                                                     *)

MayCall(t) == Up /\ call[t] = "idle" /\ (care => \A u \in Threads : call[u] = "idle")

\* init and start, up to the creation of the task; what fails there raises an error
L_WS_CONNECT(t) ==
    /\ MayCall(t) /\ handle \in {"none", "closed"} /\ pc \in {"none", "gone"}
    /\ \A u \in Threads : call[u] = "idle"
    /\ Step(t, "idle", "start")
    /\ handle' = "none" /\ client' = "alive" /\ pc' = "created"
    /\ state' = "unknown" /\ run' = FALSE /\ bits' = {"stopped"} /\ pong' = FALSE
    /\ late' = FALSE
    /\ UNCHANGED <<device, care, prompt, lock, transport, peer>>

\* start clears the bits once the task exists, which may have run already
StartReturns(t) ==
    /\ Step(t, "start", "idle")
    /\ bits' = {} /\ handle' = "open"
    /\ UNCHANGED <<device, care, prompt, client, state, run, pong, lock, transport,
                   peer, pc, late>>

\* is_connected is asked before the lock is taken
ws_send(t) ==
    /\ MayCall(t) /\ handle = "open"
    /\ IF client = "freed" THEN Damage
       ELSE /\ state = "connected" /\ Step(t, "idle", "send")
            /\ UNCHANGED <<device, care, prompt, handle, client, fields, lock,
                           transport, peer, pc, late>>

SendLocks(t) ==
    /\ Up /\ call[t] = "send"
    /\ IF client = "freed" THEN Damage
       ELSE /\ lock = Nobody /\ lock' = t /\ Step(t, "send", "sending")
            /\ UNCHANGED <<device, care, prompt, handle, client, fields, transport,
                           peer, pc, late>>

\* the frame is written; or it cannot be, and the connection is aborted
SendReturns(t) ==
    /\ Up /\ call[t] = "sending"
    /\ IF client = "freed" THEN Damage
       ELSE /\ Step(t, "sending", "idle") /\ lock' = Nobody
            /\ IF Broken
               THEN AbortConnection /\ late' = (late \/ "closeSent" \in bits)
               ELSE UNCHANGED <<state, transport, late>>
            /\ UNCHANGED <<device, care, prompt, handle, client, run, bits, pong, peer, pc>>

\* a client that has stopped by itself is only destroyed
ws_close(t) ==
    /\ MayCall(t) /\ handle = "open"
    /\ prompt => pc # "created"
    /\ IF client = "freed" THEN Damage
       ELSE /\ Step(t, "idle", IF "stopped" \in bits THEN "destroy" ELSE "stop")
            /\ UNCHANGED <<device, care, prompt, handle, client, fields, lock,
                           transport, peer, pc, late>>

StopTask(t) ==
    /\ Up /\ call[t] = "stop"
    /\ IF client = "freed" THEN Damage
       ELSE /\ Step(t, "stop", "stopWait") /\ run' = FALSE
            /\ UNCHANGED <<device, care, prompt, handle, client, state, bits, pong,
                           lock, transport, peer, pc, late>>

StopWoken(t) ==
    /\ Up /\ call[t] = "stopWait"
    /\ IF client = "freed" THEN Damage
       ELSE /\ "stopped" \in bits
            /\ Step(t, "stopWait", "destroy") /\ state' = "unknown"
            /\ UNCHANGED <<device, care, prompt, handle, client, run, bits, pong,
                           lock, transport, peer, pc, late>>

\* destroy stops a client that is not stopped, then frees it
Destroy(t) ==
    /\ Up /\ call[t] = "destroy" /\ (prompt => pc # "exit")
    /\ IF client = "freed" THEN Damage
       ELSE IF "stopped" \notin bits
       THEN /\ Step(t, "destroy", "stop")
            /\ UNCHANGED <<device, care, prompt, handle, client, fields, lock,
                           transport, peer, pc, late>>
       ELSE /\ Step(t, "destroy", "idle")
            /\ client' = "freed" /\ handle' = "closed"
            /\ UNCHANGED <<device, care, prompt, fields, lock, transport, peer, pc, late>>

\* there is no finaliser: the client and its task go on
Collect ==
    /\ Up /\ ~care /\ handle = "open" /\ \A t \in Threads : call[t] = "idle"
    /\ handle' = "lost"
    /\ UNCHANGED <<device, care, prompt, client, call, fields, lock, transport, peer, pc, late>>

TaskStep ==
    \/ TaskRuns \/ TaskInit \/ TaskLocks \/ TaskLeaves
    \/ ConnectOk \/ ConnectFails \/ SendPing \/ PongTimeout \/ Quiet \/ Reconnect
    \/ SendCloseFrame \/ TaskUnlocked \/ PollTimeout \/ PollFails \/ PollReady
    \/ Received \/ TaskAborts \/ CloseFinished \/ TaskStopped \/ TaskExits \/ TaskUsesFreed

CallStep(t) ==
    \/ StartReturns(t) \/ SendLocks(t) \/ SendReturns(t)
    \/ StopTask(t) \/ StopWoken(t) \/ Destroy(t)

Next ==
    \/ TaskStep \/ PeerChanges \/ Collect
    \/ \E t \in Threads :
        CallStep(t) \/ L_WS_CONNECT(t) \/ ws_send(t) \/ ws_close(t)

\* Threads and the task run; a lock that is given again and again is got; and of
\* the task's turns those happen in the long run whose time has come: a ping, the
\* end of the wait for an answer, the next connection, which succeeds at times.
Fairness ==
    /\ WF_vars(TaskStep) /\ SF_vars(TaskLocks) /\ SF_vars(TaskAborts)
    /\ \A t \in Threads : WF_vars(CallStep(t)) /\ SF_vars(SendLocks(t))
    /\ SF_vars(SendPing) /\ SF_vars(PongTimeout) /\ SF_vars(Reconnect) /\ SF_vars(ConnectOk)

Spec == Init /\ [][Next]_vars /\ Fairness

-----------------------------------------------------------------------------
\* The client is never used after it was freed, whatever the order in which task,
\* network and script act, if calls on a handle do not overlap and the task gets
\* to its end before the thread that waits for it goes on.
SafeUnlessRaced == device = "damaged" => ~(care /\ prompt)

\* A connection on which the close frame counts as sent, so that it is not pinged
\* and its loss is not noticed, comes only from a send that checked the state
\* before the close frame and failed after it.
PingsWhenConnected ==
    state = "connected" /\ pc \in {"loop", "locked"} /\ "closeSent" \in bits => late

\* close returns: the task sees that it shall stop in every state it can be in,
\* while it waits for a lock, a connection or an answer, and says so.
CloseReturns ==
    \A t \in Threads :
        care /\ prompt /\ call[t] \in Closing ~> call[t] = "idle"

\* A peer that does not answer any more is noticed and the connection opened
\* again, until the server or the script closes it.
StaysInTouch ==
    /\ run /\ (state = "wait" \/ (state = "connected" /\ peer # "up"))
        ~> ~run \/ (state = "connected" /\ peer = "up") \/ state = "closing" \/ late
=============================================================================
