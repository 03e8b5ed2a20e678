--------------------------- MODULE WsClient_proofs ---------------------------
(***************************************************************************)
(* Theorems about WsClient for every number of threads.                    *)
(***************************************************************************)
EXTENDS WsClient, TLAPS

(* Who is writing a frame has the lock.                                    *)
SendingLocks == \A t \in Threads : call[t] = "sending" => lock = t

(* Careful scripts are in one call at a time.                              *)
OneCall == care => \A t, u \in Threads : call[t] # "idle" /\ call[u] # "idle" => t = u

(* Once start has returned the bit means what it says.                     *)
StoppedIsEnd ==
    care /\ prompt /\ client = "alive" /\ "stopped" \in bits =>
        pc \in {"exit", "gone"} \/ \E t \in Threads : call[t] = "start"

(* What is freed nobody uses.                                              *)
FreedIsDone ==
    care /\ prompt /\ client # "alive" =>
        /\ pc \in {"none", "gone"} /\ handle # "open"
        /\ \A t \in Threads : call[t] = "idle"

(* After the close frame there is only the end, unless a send fails.       *)
CloseSentEnds ==
    "closeSent" \in bits =>
        \/ late
        \/ state = "unknown" /\ pc \notin {"poll", "recv"}
        \/ state = "closing" /\ pc = "unlocked"
        \/ pc \in {"closeWait", "finish", "exit", "gone"}

IInv ==
    /\ TypeOK /\ SendingLocks /\ OneCall /\ StoppedIsEnd /\ FreedIsDone
    /\ CloseSentEnds /\ SafeUnlessRaced

LEMMA InitIInv == Init => IInv
  BY WsAssumption
  DEF Init, IInv, TypeOK, SendingLocks, OneCall, StoppedIsEnd, FreedIsDone, CloseSentEnds,
      SafeUnlessRaced, States, Pcs, CallPcs, Bits, Task, Nobody

LEMMA Moves ==
    ASSUME TypeOK, NEW t \in Threads, NEW from, NEW to \in CallPcs, Step(t, from, to)
    PROVE  call' \in [Threads -> CallPcs]
  BY DEF TypeOK, Step

LEMMA CallsNext == ASSUME TypeOK, [Next]_vars PROVE call' \in [Threads -> CallPcs]
<1>1. {"idle", "start", "send", "sending", "stop", "stopWait", "destroy"} \subseteq CallPcs
  BY DEF CallPcs, Closing
<1>2. CASE call' = call
  BY <1>2 DEF TypeOK
<1>3. ASSUME NEW t \in Threads, call' # call,
             CallStep(t) \/ L_WS_CONNECT(t) \/ ws_send(t) \/ ws_close(t)
      PROVE  \E from : \E to \in CallPcs : Step(t, from, to)
  BY <1>1, <1>3, Zenon
  DEF CallStep, StartReturns, SendLocks, SendReturns, StopTask, StopWoken, Destroy,
      L_WS_CONNECT, ws_send, ws_close, Damage, script
<1>4. ASSUME TaskStep \/ PeerChanges \/ Collect \/ UNCHANGED vars PROVE call' = call
  BY <1>4, Zenon
  DEF TaskStep, TaskRuns, TaskInit, TaskLocks, TaskLeaves, ConnectOk, ConnectFails, Turn,
      SendPing, PongTimeout, Quiet, Reconnect, SendCloseFrame, TaskUnlocked, PollTimeout,
      PollFails, PollReady, Received, TaskAborts, CloseFinished, TaskStopped, TaskExits,
      TaskUsesFreed, Damage, PeerChanges, Collect, script, vars
<1> QED
  BY <1>2, <1>3, <1>4, Moves DEF Next

(* A use of freed memory changes nothing the conjuncts but the last speak of. *)
LEMMA DamageKeeps ==
    ASSUME Damage
    PROVE  /\ TypeOK => TypeOK'
           /\ SendingLocks => SendingLocks'
           /\ OneCall => OneCall'
           /\ StoppedIsEnd => StoppedIsEnd'
           /\ FreedIsDone => FreedIsDone'
           /\ CloseSentEnds => CloseSentEnds'
<1> USE DEF Damage, script, fields
<1>1. TypeOK => TypeOK'
  BY DEF TypeOK
<1>2. /\ SendingLocks => SendingLocks'
      /\ OneCall => OneCall'
      /\ StoppedIsEnd => StoppedIsEnd'
      /\ FreedIsDone => FreedIsDone'
      /\ CloseSentEnds => CloseSentEnds'
  BY DEF SendingLocks, OneCall, StoppedIsEnd, FreedIsDone, CloseSentEnds
<1> QED
  BY <1>1, <1>2

LEMMA TypeNext == ASSUME TypeOK, SendingLocks, [Next]_vars PROVE TypeOK'
<1>c. call' \in [Threads -> CallPcs]
  BY CallsNext
<1>1. CASE TaskRuns
  BY <1>1, <1>c, WsAssumption DEF TaskRuns, TypeOK, Task, Nobody, States, Bits, Pcs, Goto,
       script, fields
<1>2. CASE TaskInit
  BY <1>2, <1>c, WsAssumption DEF TaskInit, TypeOK, Task, Nobody, States, Bits, Pcs, Goto,
       script, fields
<1>3. CASE TaskLocks
  BY <1>3, <1>c, WsAssumption DEF TaskLocks, TypeOK, Task, Nobody, States, Bits, Pcs,
       Goto, script, fields
<1>4. CASE TaskLeaves
  BY <1>4, <1>c, WsAssumption DEF TaskLeaves, TypeOK, Task, Nobody, States, Bits, Pcs,
       Goto, script, fields
<1>5. CASE ConnectOk
  BY <1>5, <1>c, WsAssumption DEF ConnectOk, Turn, TypeOK, Task, Nobody, States, Bits,
       Pcs, Goto, script, fields
<1>6. CASE ConnectFails
  BY <1>6, <1>c, WsAssumption DEF ConnectFails, Turn, AbortConnection, TypeOK, Task,
       Nobody, States, Bits, Pcs, Goto, script, fields
<1>7. CASE SendPing
  BY <1>7, <1>c, WsAssumption DEF SendPing, Turn, TypeOK, Task, Nobody, States, Bits, Pcs,
       Goto, script, fields
<1>8. CASE PongTimeout
  BY <1>8, <1>c, WsAssumption DEF PongTimeout, Turn, AbortConnection, TypeOK, Task,
       Nobody, States, Bits, Pcs, Goto, script, fields
<1>9. CASE Quiet
  BY <1>9, <1>c, WsAssumption DEF Quiet, Turn, TypeOK, Task, Nobody, States, Bits, Pcs,
       Goto, script, fields
<1>10. CASE Reconnect
  BY <1>10, <1>c, WsAssumption DEF Reconnect, Turn, TypeOK, Task, Nobody, States, Bits,
       Pcs, Goto, script, fields
<1>11. CASE SendCloseFrame
  BY <1>11, <1>c, WsAssumption DEF SendCloseFrame, Turn, TypeOK, Task, Nobody, States,
       Bits, Pcs, Goto, script, fields
<1>12. CASE TaskUnlocked
  BY <1>12, <1>c, WsAssumption DEF TaskUnlocked, TypeOK, Task, Nobody, States, Bits, Pcs,
       Goto, script, fields
<1>13. CASE PollTimeout
  BY <1>13, <1>c, WsAssumption DEF PollTimeout, TypeOK, Task, Nobody, States, Bits, Pcs,
       Goto, script, fields
<1>14. CASE PollFails
  BY <1>14, <1>c, WsAssumption DEF PollFails, TypeOK, Task, Nobody, States, Bits, Pcs,
       Goto, script, fields
<1>15. CASE PollReady
  BY <1>15, <1>c, WsAssumption DEF PollReady, TypeOK, Task, Nobody, States, Bits, Pcs,
       Goto, script, fields
<1>16. CASE Received
  <2>1. /\ state' \in States /\ pong' \in BOOLEAN
        /\ device' = device /\ care' = care /\ prompt' = prompt /\ handle' = handle
        /\ client' = client /\ run' = run /\ bits' = bits /\ lock' = lock
        /\ transport' = transport /\ peer' = peer /\ late' = late
    <3>1. pong' = pong \/ pong' = FALSE
      BY <1>16 DEF Received
    <3>2. pong' \in BOOLEAN
      BY <3>1, Zenon DEF TypeOK
    <3>3. state' \in States
      BY <1>16 DEF Received, TypeOK, States
    <3> QED
      BY <1>16, <3>2, <3>3 DEF Received, script
  <2>2. pc' \in Pcs /\ (lock' = Task <=> pc' = "locked")
    BY <1>16 DEF Received, Goto, Pcs, TypeOK
  <2> QED
    BY <1>c, <2>1, <2>2 DEF TypeOK
<1>17. CASE TaskAborts
  <2>1. /\ state' \in States /\ transport' \in {"open", "closed"}
        /\ device' = device /\ care' = care /\ prompt' = prompt /\ handle' = handle
        /\ client' = client /\ run' = run /\ bits' = bits /\ pong' = pong
        /\ lock' = lock /\ peer' = peer /\ late' = late
    BY <1>17 DEF TaskAborts, AbortConnection, TypeOK, States, script
  <2>2. pc' \in Pcs /\ (lock' = Task <=> pc' = "locked")
    BY <1>17, WsAssumption DEF TaskAborts, Goto, Pcs, Task, Nobody
  <2> QED
    BY <1>c, <2>1, <2>2 DEF TypeOK
<1>18. CASE CloseFinished
  <2>1. /\ state' \in States /\ run' \in BOOLEAN
        /\ device' = device /\ care' = care /\ prompt' = prompt /\ handle' = handle
        /\ client' = client /\ bits' = bits /\ pong' = pong /\ lock' = lock
        /\ transport' = transport /\ peer' = peer /\ late' = late
    BY <1>18 DEF CloseFinished, States, script
  <2>2. pc' \in Pcs /\ (lock' = Task <=> pc' = "locked")
    BY <1>18 DEF CloseFinished, Goto, Pcs, TypeOK
  <2> QED
    BY <1>c, <2>1, <2>2 DEF TypeOK
<1>19. CASE TaskStopped
  BY <1>19, <1>c, WsAssumption DEF TaskStopped, TypeOK, Task, Nobody, States, Bits, Pcs,
       Goto, script, fields
<1>20. CASE TaskExits
  BY <1>20, <1>c, WsAssumption DEF TaskExits, TypeOK, Task, Nobody, States, Bits, Pcs,
       Goto, script, fields
<1>21. CASE TaskUsesFreed
  BY <1>21, <1>c, WsAssumption DEF TaskUsesFreed, TypeOK, Task, Nobody, States, Bits, Pcs,
       Goto, script, fields, Damage
<1>22. CASE PeerChanges
  BY <1>22, <1>c, WsAssumption DEF PeerChanges, TypeOK, Task, Nobody, States, Bits, Pcs,
       Goto, script, fields
<1>23. CASE Collect
  BY <1>23, <1>c, WsAssumption DEF Collect, TypeOK, Task, Nobody, States, Bits, Pcs, Goto,
       script, fields
<1>24. CASE UNCHANGED vars
  BY <1>24, <1>c, WsAssumption DEF vars, TypeOK, Task, Nobody, States, Bits, Pcs, Goto,
       script, fields
<1>25. ASSUME NEW t \in Threads, CallStep(t) \/ L_WS_CONNECT(t) \/ ws_send(t) \/ ws_close(t)
      PROVE  TypeOK'
  <2>1. CASE StartReturns(t)
    BY <2>1, <1>c, WsAssumption DEF StartReturns, TypeOK, Task, Nobody, States, Bits, Pcs,
         Goto, script, fields
  <2>2. CASE SendLocks(t)
    <3>1. CASE client = "freed"
      BY <2>2, <3>1, DamageKeeps DEF SendLocks
    <3>2. CASE client # "freed"
      BY <2>2, <3>2, <1>c, WsAssumption DEF SendLocks, TypeOK, script, fields, Task, Nobody
    <3> QED
      BY <3>1, <3>2
  <2>3. CASE SendReturns(t)
    <3>1. CASE client = "freed"
      BY <2>3, <3>1, DamageKeeps DEF SendReturns
    <3>2. CASE client # "freed" /\ Broken
      BY <2>3, <3>2, <1>c, WsAssumption DEF SendReturns, AbortConnection, TypeOK, script,
           fields, Task, Nobody, States, SendingLocks
    <3>3. CASE client # "freed" /\ ~Broken
      BY <2>3, <3>3, <1>c, WsAssumption DEF SendReturns, AbortConnection, TypeOK, script,
           fields, Task, Nobody, States, SendingLocks
    <3> QED
      BY <3>1, <3>2, <3>3
  <2>4. CASE StopTask(t)
    <3>1. CASE client = "freed"
      BY <2>4, <3>1, DamageKeeps DEF StopTask
    <3>2. CASE client # "freed"
      BY <2>4, <3>2, <1>c DEF StopTask, TypeOK, script, fields
    <3> QED
      BY <3>1, <3>2
  <2>5. CASE StopWoken(t)
    <3>1. CASE client = "freed"
      BY <2>5, <3>1, DamageKeeps DEF StopWoken
    <3>2. CASE client # "freed"
      BY <2>5, <3>2, <1>c DEF StopWoken, TypeOK, script, fields, States
    <3> QED
      BY <3>1, <3>2
  <2>6. CASE Destroy(t)
    <3>1. CASE client = "freed"
      BY <2>6, <3>1, DamageKeeps DEF Destroy
    <3>2. CASE client # "freed"
      BY <2>6, <3>2, <1>c DEF Destroy, TypeOK, script, fields
    <3> QED
      BY <3>1, <3>2
  <2>7. CASE L_WS_CONNECT(t)
    BY <2>7, <1>c, WsAssumption DEF L_WS_CONNECT, TypeOK, Task, Nobody, States, Bits, Pcs,
         Goto, script, fields
  <2>8. CASE ws_send(t)
    <3>1. CASE client = "freed"
      BY <2>8, <3>1, DamageKeeps DEF ws_send
    <3>2. CASE client # "freed"
      BY <2>8, <3>2, <1>c DEF ws_send, TypeOK, script, fields
    <3> QED
      BY <3>1, <3>2
  <2>9. CASE ws_close(t)
    <3>1. CASE client = "freed"
      BY <2>9, <3>1, DamageKeeps DEF ws_close
    <3>2. CASE client # "freed"
      BY <2>9, <3>2, <1>c DEF ws_close, TypeOK, script, fields
    <3> QED
      BY <3>1, <3>2
  <2> QED
    BY <1>25, <2>1, <2>2, <2>3, <2>4, <2>5, <2>6, <2>7, <2>8, <2>9 DEF CallStep
<1> QED
  BY <1>1, <1>2, <1>3, <1>4, <1>5, <1>6, <1>7, <1>8, <1>9, <1>10, <1>11, <1>12, <1>13,
       <1>14, <1>15, <1>16, <1>17, <1>18, <1>19, <1>20, <1>21, <1>22, <1>23, <1>24,
       <1>25 DEF Next, TaskStep

(* What the task and the other end leave alone, and where they go.          *)
LEMMA TaskFacts ==
    ASSUME TaskStep \/ PeerChanges
    PROVE  /\ UNCHANGED <<care, prompt, handle, client, call>>
           /\ lock' = lock \/ (lock = Nobody /\ lock' = Task) \/ (lock' = Nobody /\ pc = "locked")
           /\ "stopped" \in bits' => "stopped" \in bits \/ pc' = "exit"
           /\ pc \in {"exit", "gone"} => pc' \in {"exit", "gone"}
           /\ client # "alive" => pc' = pc
<1>1. UNCHANGED <<care, prompt, handle, client, call>>
  BY Zenon DEF TaskStep, TaskRuns, TaskInit, TaskLocks, TaskLeaves, ConnectOk,
      ConnectFails, SendPing, PongTimeout, Quiet, Reconnect, SendCloseFrame,
      TaskUnlocked, PollTimeout, PollFails, PollReady, Received, TaskAborts,
      CloseFinished, TaskStopped, TaskExits, TaskUsesFreed, Turn, Goto, AbortConnection,
      Damage, PeerChanges, script, fields
<1>2. lock' = lock \/ (lock = Nobody /\ lock' = Task) \/ (lock' = Nobody /\ pc = "locked")
  BY Zenon DEF TaskStep, TaskRuns, TaskInit, TaskLocks, TaskLeaves, ConnectOk,
      ConnectFails, SendPing, PongTimeout, Quiet, Reconnect, SendCloseFrame,
      TaskUnlocked, PollTimeout, PollFails, PollReady, Received, TaskAborts,
      CloseFinished, TaskStopped, TaskExits, TaskUsesFreed, Turn, Goto, AbortConnection,
      Damage, PeerChanges, script, fields
<1>3. "stopped" \in bits' => "stopped" \in bits \/ pc' = "exit"
  BY DEF TaskStep, TaskRuns, TaskInit, TaskLocks, TaskLeaves, ConnectOk,
      ConnectFails, SendPing, PongTimeout, Quiet, Reconnect, SendCloseFrame,
      TaskUnlocked, PollTimeout, PollFails, PollReady, Received, TaskAborts,
      CloseFinished, TaskStopped, TaskExits, TaskUsesFreed, Turn, Goto, AbortConnection,
      Damage, PeerChanges, script, fields
<1>4. pc \in {"exit", "gone"} => pc' \in {"exit", "gone"}
  BY Zenon DEF TaskStep, TaskRuns, TaskInit, TaskLocks, TaskLeaves, ConnectOk,
      ConnectFails, SendPing, PongTimeout, Quiet, Reconnect, SendCloseFrame,
      TaskUnlocked, PollTimeout, PollFails, PollReady, Received, TaskAborts,
      CloseFinished, TaskStopped, TaskExits, TaskUsesFreed, Turn, Goto, AbortConnection,
      Damage, PeerChanges, script, fields
<1>5. client # "alive" => pc' = pc
  BY Zenon DEF TaskStep, TaskRuns, TaskInit, TaskLocks, TaskLeaves, ConnectOk,
      ConnectFails, SendPing, PongTimeout, Quiet, Reconnect, SendCloseFrame,
      TaskUnlocked, PollTimeout, PollFails, PollReady, Received, TaskAborts,
      CloseFinished, TaskStopped, TaskExits, TaskUsesFreed, Turn, Goto, AbortConnection,
      Damage, PeerChanges, script, fields
<1> QED
  BY <1>1, <1>2, <1>3, <1>4, <1>5

LEMMA SendingNext == ASSUME TypeOK, SendingLocks, [Next]_vars PROVE SendingLocks'
<1> USE WsAssumption DEF TypeOK, SendingLocks, Task, Nobody
<1>1. CASE TaskStep \/ PeerChanges
  BY <1>1, TaskFacts
<1>2. CASE Collect \/ UNCHANGED vars
  BY <1>2 DEF Collect, vars, script, fields
<1>3. ASSUME NEW t \in Threads, CallStep(t) \/ L_WS_CONNECT(t) \/ ws_send(t) \/ ws_close(t)
      PROVE  SendingLocks'
  <2>1. CASE StartReturns(t)
    BY <2>1 DEF StartReturns, Step, MayCall, script, fields
  <2>2. CASE SendLocks(t)
    BY <2>2, DamageKeeps DEF SendLocks, Step, MayCall, script, fields
  <2>3. CASE SendReturns(t)
    BY <2>3, DamageKeeps DEF SendReturns, Step, MayCall, script, fields
  <2>4. CASE StopTask(t)
    BY <2>4, DamageKeeps DEF StopTask, Step, MayCall, script, fields
  <2>5. CASE StopWoken(t)
    BY <2>5, DamageKeeps DEF StopWoken, Step, MayCall, script, fields
  <2>6. CASE Destroy(t)
    BY <2>6, DamageKeeps DEF Destroy, Step, MayCall, script, fields
  <2>7. CASE L_WS_CONNECT(t)
    BY <2>7 DEF L_WS_CONNECT, Step, MayCall, script, fields
  <2>8. CASE ws_send(t)
    BY <2>8, DamageKeeps DEF ws_send, Step, MayCall, script, fields
  <2>9. CASE ws_close(t)
    BY <2>9, DamageKeeps DEF ws_close, Step, MayCall, script, fields
  <2> QED
    BY <1>3, <2>1, <2>2, <2>3, <2>4, <2>5, <2>6, <2>7, <2>8, <2>9 DEF CallStep
<1> QED
  BY <1>1, <1>2, <1>3 DEF Next

LEMMA OneCallNext == ASSUME TypeOK, OneCall, [Next]_vars PROVE OneCall'
<1> USE DEF TypeOK, OneCall
<1>1. CASE TaskStep \/ PeerChanges
  BY <1>1, TaskFacts
<1>2. CASE Collect \/ UNCHANGED vars
  BY <1>2 DEF Collect, vars, script, fields
<1>3. ASSUME NEW t \in Threads, CallStep(t) \/ L_WS_CONNECT(t) \/ ws_send(t) \/ ws_close(t)
      PROVE  OneCall'
  <2>1. CASE StartReturns(t)
    BY <2>1 DEF StartReturns, Step, MayCall, script, fields
  <2>2. CASE SendLocks(t)
    BY <2>2, DamageKeeps DEF SendLocks, Step, MayCall, script, fields
  <2>3. CASE SendReturns(t)
    BY <2>3, DamageKeeps DEF SendReturns, Step, MayCall, script, fields
  <2>4. CASE StopTask(t)
    BY <2>4, DamageKeeps DEF StopTask, Step, MayCall, script, fields
  <2>5. CASE StopWoken(t)
    BY <2>5, DamageKeeps DEF StopWoken, Step, MayCall, script, fields
  <2>6. CASE Destroy(t)
    BY <2>6, DamageKeeps DEF Destroy, Step, MayCall, script, fields
  <2>7. CASE L_WS_CONNECT(t)
    BY <2>7 DEF L_WS_CONNECT, Step, MayCall, script, fields
  <2>8. CASE ws_send(t)
    BY <2>8, DamageKeeps DEF ws_send, Step, MayCall, script, fields
  <2>9. CASE ws_close(t)
    BY <2>9, DamageKeeps DEF ws_close, Step, MayCall, script, fields
  <2> QED
    BY <1>3, <2>1, <2>2, <2>3, <2>4, <2>5, <2>6, <2>7, <2>8, <2>9 DEF CallStep
<1> QED
  BY <1>1, <1>2, <1>3 DEF Next

LEMMA StoppedNext ==
    ASSUME TypeOK, OneCall, StoppedIsEnd, FreedIsDone, [Next]_vars
    PROVE  StoppedIsEnd'
<1> USE DEF TypeOK, OneCall, StoppedIsEnd, FreedIsDone
<1>1. CASE TaskStep \/ PeerChanges
  BY <1>1, TaskFacts
<1>2. CASE Collect \/ UNCHANGED vars
  BY <1>2 DEF Collect, vars, script, fields
<1>3. ASSUME NEW t \in Threads, CallStep(t) \/ L_WS_CONNECT(t) \/ ws_send(t) \/ ws_close(t)
      PROVE  StoppedIsEnd'
  <2>1. CASE StartReturns(t)
    BY <2>1 DEF StartReturns, Step, MayCall, script, fields
  <2>2. CASE SendLocks(t)
    BY <2>2, DamageKeeps DEF SendLocks, Step, MayCall, script, fields
  <2>3. CASE SendReturns(t)
    BY <2>3, DamageKeeps DEF SendReturns, Step, MayCall, script, fields
  <2>4. CASE StopTask(t)
    BY <2>4, DamageKeeps DEF StopTask, Step, MayCall, script, fields
  <2>5. CASE StopWoken(t)
    BY <2>5, DamageKeeps DEF StopWoken, Step, MayCall, script, fields
  <2>6. CASE Destroy(t)
    BY <2>6, DamageKeeps DEF Destroy, Step, MayCall, script, fields
  <2>7. CASE L_WS_CONNECT(t)
    BY <2>7 DEF L_WS_CONNECT, Step, MayCall, script, fields
  <2>8. CASE ws_send(t)
    BY <2>8, DamageKeeps DEF ws_send, Step, MayCall, script, fields
  <2>9. CASE ws_close(t)
    BY <2>9, DamageKeeps DEF ws_close, Step, MayCall, script, fields
  <2> QED
    BY <1>3, <2>1, <2>2, <2>3, <2>4, <2>5, <2>6, <2>7, <2>8, <2>9 DEF CallStep
<1> QED
  BY <1>1, <1>2, <1>3 DEF Next

LEMMA FreedNext ==
    ASSUME TypeOK, OneCall, StoppedIsEnd, FreedIsDone, [Next]_vars
    PROVE  FreedIsDone'
<1> USE DEF TypeOK, OneCall, StoppedIsEnd, FreedIsDone
<1>1. CASE TaskStep \/ PeerChanges
  BY <1>1, TaskFacts
<1>2. CASE Collect \/ UNCHANGED vars
  BY <1>2 DEF Collect, vars, script, fields
<1>3. ASSUME NEW t \in Threads, CallStep(t) \/ L_WS_CONNECT(t) \/ ws_send(t) \/ ws_close(t)
      PROVE  FreedIsDone'
  <2>1. CASE StartReturns(t)
    BY <2>1 DEF StartReturns, Step, MayCall, script, fields
  <2>2. CASE SendLocks(t)
    BY <2>2, DamageKeeps DEF SendLocks, Step, MayCall, script, fields
  <2>3. CASE SendReturns(t)
    BY <2>3, DamageKeeps DEF SendReturns, Step, MayCall, script, fields
  <2>4. CASE StopTask(t)
    BY <2>4, DamageKeeps DEF StopTask, Step, MayCall, script, fields
  <2>5. CASE StopWoken(t)
    BY <2>5, DamageKeeps DEF StopWoken, Step, MayCall, script, fields
  <2>6. CASE Destroy(t)
    BY <2>6, DamageKeeps DEF Destroy, Step, MayCall, script, fields
  <2>7. CASE L_WS_CONNECT(t)
    BY <2>7 DEF L_WS_CONNECT, Step, MayCall, script, fields
  <2>8. CASE ws_send(t)
    BY <2>8, DamageKeeps DEF ws_send, Step, MayCall, script, fields
  <2>9. CASE ws_close(t)
    BY <2>9, DamageKeeps DEF ws_close, Step, MayCall, script, fields
  <2> QED
    BY <1>3, <2>1, <2>2, <2>3, <2>4, <2>5, <2>6, <2>7, <2>8, <2>9 DEF CallStep
<1> QED
  BY <1>1, <1>2, <1>3 DEF Next

LEMMA CloseSentNext ==
    ASSUME TypeOK, StoppedIsEnd, FreedIsDone, CloseSentEnds, [Next]_vars
    PROVE  CloseSentEnds'
<1>1. CASE TaskRuns
  BY <1>1 DEF TaskRuns, TypeOK, CloseSentEnds, Goto, Step, MayCall, script, fields
<1>2. CASE TaskInit
  BY <1>2 DEF TaskInit, TypeOK, CloseSentEnds, Goto, Step, MayCall, script, fields
<1>3. CASE TaskLocks
  BY <1>3 DEF TaskLocks, TypeOK, CloseSentEnds, Goto, Step, MayCall, script, fields
<1>4. CASE TaskLeaves
  BY <1>4 DEF TaskLeaves, TypeOK, CloseSentEnds, Goto, Step, MayCall, script, fields
<1>5. CASE ConnectOk
  BY <1>5 DEF ConnectOk, Turn, TypeOK, CloseSentEnds, Goto, Step, MayCall, script, fields
<1>6. CASE ConnectFails
  BY <1>6 DEF ConnectFails, Turn, AbortConnection, TypeOK, CloseSentEnds, Goto, Step,
       MayCall, script, fields
<1>7. CASE SendPing
  BY <1>7 DEF SendPing, Turn, TypeOK, CloseSentEnds, Goto, Step, MayCall, script, fields
<1>8. CASE PongTimeout
  BY <1>8 DEF PongTimeout, Turn, AbortConnection, TypeOK, CloseSentEnds, Goto, Step,
       MayCall, script, fields
<1>9. CASE Quiet
  BY <1>9 DEF Quiet, Turn, TypeOK, CloseSentEnds, Goto, Step, MayCall, script, fields
<1>10. CASE Reconnect
  BY <1>10 DEF Reconnect, Turn, TypeOK, CloseSentEnds, Goto, Step, MayCall, script, fields
<1>11. CASE SendCloseFrame
  BY <1>11 DEF SendCloseFrame, Turn, TypeOK, CloseSentEnds, Goto, Step, MayCall, script,
       fields
<1>12. CASE TaskUnlocked
  BY <1>12 DEF TaskUnlocked, TypeOK, CloseSentEnds, Goto, Step, MayCall, script, fields
<1>13. CASE PollTimeout
  BY <1>13 DEF PollTimeout, TypeOK, CloseSentEnds, Goto, Step, MayCall, script, fields
<1>14. CASE PollFails
  BY <1>14 DEF PollFails, TypeOK, CloseSentEnds, Goto, Step, MayCall, script, fields
<1>15. CASE PollReady
  BY <1>15 DEF PollReady, TypeOK, CloseSentEnds, Goto, Step, MayCall, script, fields
<1>16. CASE Received
  <2>1. CASE UNCHANGED <<state, pong>>
    BY <1>16, <2>1 DEF Received, TypeOK, CloseSentEnds, Goto, Step, MayCall, script, fields
  <2>2. CASE pong' = FALSE /\ UNCHANGED state
    BY <1>16, <2>2 DEF Received, TypeOK, CloseSentEnds, Goto, Step, MayCall, script, fields
  <2>3. CASE state' = "closing" /\ UNCHANGED pong
    BY <1>16, <2>3 DEF Received, TypeOK, CloseSentEnds, Goto, Step, MayCall, script, fields
  <2> QED
    BY <1>16, <2>1, <2>2, <2>3 DEF Received
<1>17. CASE TaskAborts
  BY <1>17 DEF TaskAborts, AbortConnection, TypeOK, CloseSentEnds, Goto, Step, MayCall,
       script, fields
<1>18. CASE CloseFinished
  BY <1>18 DEF CloseFinished, TypeOK, CloseSentEnds, Goto, Step, MayCall, script, fields
<1>19. CASE TaskStopped
  BY <1>19 DEF TaskStopped, TypeOK, CloseSentEnds, Goto, Step, MayCall, script, fields
<1>20. CASE TaskExits
  BY <1>20 DEF TaskExits, TypeOK, CloseSentEnds, Goto, Step, MayCall, script, fields
<1>21. CASE TaskUsesFreed
  BY <1>21 DEF TaskUsesFreed, TypeOK, CloseSentEnds, Goto, Step, MayCall, script, fields,
       Damage
<1>22. CASE PeerChanges
  BY <1>22 DEF PeerChanges, TypeOK, CloseSentEnds, Goto, Step, MayCall, script, fields
<1>23. CASE Collect
  BY <1>23 DEF Collect, TypeOK, CloseSentEnds, Goto, Step, MayCall, script, fields
<1>24. CASE UNCHANGED vars
  BY <1>24 DEF vars, TypeOK, CloseSentEnds, Goto, Step, MayCall, script, fields
<1>25. ASSUME NEW t \in Threads, CallStep(t) \/ L_WS_CONNECT(t) \/ ws_send(t) \/ ws_close(t)
      PROVE  CloseSentEnds'
  <2>1. CASE StartReturns(t)
    BY <2>1 DEF StartReturns, TypeOK, CloseSentEnds, Goto, Step, MayCall, script, fields
  <2>2. CASE SendLocks(t)
    <3>1. CASE client = "freed"
      BY <2>2, <3>1, DamageKeeps DEF SendLocks
    <3>2. CASE client # "freed"
      BY <2>2, <3>2 DEF SendLocks, TypeOK, CloseSentEnds, Goto, Step, MayCall, script,
           fields
    <3> QED
      BY <3>1, <3>2
  <2>3. CASE SendReturns(t)
    <3>1. CASE client = "freed"
      BY <2>3, <3>1, DamageKeeps DEF SendReturns
    <3>2. CASE client # "freed" /\ Broken
      BY <2>3, <3>2 DEF SendReturns, AbortConnection, TypeOK, CloseSentEnds, Goto, Step,
           MayCall, script, fields
    <3>3. CASE client # "freed" /\ ~Broken
      BY <2>3, <3>3 DEF SendReturns, AbortConnection, TypeOK, CloseSentEnds, Goto, Step,
           MayCall, script, fields
    <3> QED
      BY <3>1, <3>2, <3>3
  <2>4. CASE StopTask(t)
    <3>1. CASE client = "freed"
      BY <2>4, <3>1, DamageKeeps DEF StopTask
    <3>2. CASE client # "freed"
      BY <2>4, <3>2 DEF StopTask, TypeOK, CloseSentEnds, Goto, Step, MayCall, script, fields
    <3> QED
      BY <3>1, <3>2
  <2>5. CASE StopWoken(t)
    <3>1. CASE client = "freed"
      BY <2>5, <3>1, DamageKeeps DEF StopWoken
    <3>2. CASE client # "freed"
      BY <2>5, <3>2 DEF StopWoken, TypeOK, CloseSentEnds, Goto, Step, MayCall, script,
           fields
    <3> QED
      BY <3>1, <3>2
  <2>6. CASE Destroy(t)
    <3>1. CASE client = "freed"
      BY <2>6, <3>1, DamageKeeps DEF Destroy
    <3>2. CASE client # "freed"
      BY <2>6, <3>2 DEF Destroy, TypeOK, CloseSentEnds, Goto, Step, MayCall, script, fields
    <3> QED
      BY <3>1, <3>2
  <2>7. CASE L_WS_CONNECT(t)
    BY <2>7 DEF L_WS_CONNECT, TypeOK, CloseSentEnds, Goto, Step, MayCall, script, fields
  <2>8. CASE ws_send(t)
    <3>1. CASE client = "freed"
      BY <2>8, <3>1, DamageKeeps DEF ws_send
    <3>2. CASE client # "freed"
      BY <2>8, <3>2 DEF ws_send, TypeOK, CloseSentEnds, Goto, Step, MayCall, script, fields
    <3> QED
      BY <3>1, <3>2
  <2>9. CASE ws_close(t)
    <3>1. CASE client = "freed"
      BY <2>9, <3>1, DamageKeeps DEF ws_close
    <3>2. CASE client # "freed"
      BY <2>9, <3>2 DEF ws_close, TypeOK, CloseSentEnds, Goto, Step, MayCall, script, fields
    <3> QED
      BY <3>1, <3>2
  <2> QED
    BY <1>25, <2>1, <2>2, <2>3, <2>4, <2>5, <2>6, <2>7, <2>8, <2>9 DEF CallStep
<1> QED
  BY <1>1, <1>2, <1>3, <1>4, <1>5, <1>6, <1>7, <1>8, <1>9, <1>10, <1>11, <1>12, <1>13,
       <1>14, <1>15, <1>16, <1>17, <1>18, <1>19, <1>20, <1>21, <1>22, <1>23, <1>24,
       <1>25 DEF Next, TaskStep

(* The device is damaged by what is done with a freed client, and by nothing else. *)
LEMMA DamageNeedsFreed ==
    ASSUME [Next]_vars
    PROVE  /\ UNCHANGED <<care, prompt>>
           /\ \/ device' = device
              \/ /\ client = "freed"
                 /\ \/ pc \notin {"none", "gone"} \/ handle = "open"
                    \/ \E t \in Threads : call[t] # "idle"
<1>1. CASE TaskStep \/ PeerChanges \/ Collect \/ UNCHANGED vars
  <2>1. UNCHANGED <<care, prompt>>
    BY <1>1, TaskFacts, Zenon DEF Collect, vars
  <2>2. device' = device \/ (client = "freed" /\ pc \notin {"none", "gone"})
    BY <1>1, Zenon DEF TaskStep, TaskRuns, TaskInit, TaskLocks, TaskLeaves, ConnectOk,
        ConnectFails, SendPing, PongTimeout, Quiet, Reconnect, SendCloseFrame,
        TaskUnlocked, PollTimeout, PollFails, PollReady, Received, TaskAborts,
        CloseFinished, TaskStopped, TaskExits, TaskUsesFreed, Turn, Damage, PeerChanges,
        Collect, vars, script, fields
  <2> QED
    BY <2>1, <2>2
<1>2. ASSUME NEW t \in Threads, CallStep(t) \/ L_WS_CONNECT(t) \/ ws_send(t) \/ ws_close(t)
      PROVE  /\ UNCHANGED <<care, prompt>>
             /\ device' = device \/ (client = "freed" /\ (handle = "open" \/ call[t] # "idle"))
  <2>1. UNCHANGED <<care, prompt>>
    BY <1>2, Zenon DEF CallStep, StartReturns, SendLocks, SendReturns, StopTask,
        StopWoken, Destroy, L_WS_CONNECT, ws_send, ws_close, Step, MayCall, Damage,
        script, fields
  <2>2. device' = device \/ (client = "freed" /\ (handle = "open" \/ call[t] # "idle"))
    BY <1>2 DEF CallStep, StartReturns, SendLocks, SendReturns, StopTask,
        StopWoken, Destroy, L_WS_CONNECT, ws_send, ws_close, Step, MayCall, Damage,
        script, fields
  <2> QED
    BY <2>1, <2>2
<1> QED
  BY <1>1, <1>2 DEF Next

LEMMA NextIInv == IInv /\ [Next]_vars => IInv'
<1> SUFFICES ASSUME IInv, [Next]_vars PROVE IInv'
  OBVIOUS
<1>1. TypeOK' /\ SendingLocks' /\ OneCall' /\ StoppedIsEnd' /\ FreedIsDone' /\ CloseSentEnds'
  BY TypeNext, SendingNext, OneCallNext, StoppedNext, FreedNext, CloseSentNext DEF IInv
<1>2. SafeUnlessRaced'
  BY DamageNeedsFreed DEF IInv, FreedIsDone, SafeUnlessRaced
<1> QED
  BY <1>1, <1>2 DEF IInv

(* Every invariant of this module follows from this one.                   *)
THEOREM Inductive == Spec => []IInv
  BY InitIInv, NextIInv, PTL DEF Spec

(* The variables keep their types, and the lock is the task's exactly while *)
(* it is in the locked part of its turn.                                   *)
THEOREM TypeCorrect == Spec => []TypeOK
  BY Inductive, PTL DEF IInv

(* With calls that do not overlap, and a task that gets to its end before  *)
(* the thread that waits for it goes on, a freed client is never used.     *)
THEOREM FreedIsUnused == Spec => []SafeUnlessRaced
  BY Inductive, PTL DEF IInv

(* A connection that is not pinged any more has the race of a send with    *)
(* the close frame behind it.                                              *)
THEOREM PingsGoOn == Spec => []PingsWhenConnected
<1>1. IInv => PingsWhenConnected
  BY DEF IInv, CloseSentEnds, PingsWhenConnected
<1> QED
  BY <1>1, Inductive, PTL
==============================================================================
