--------------------------- MODULE LuaTask_proofs ---------------------------
(***************************************************************************)
(* Theorems about LuaTask for every number of tasks, every script and      *)
(* every queue length.                                                     *)
(***************************************************************************)
EXTENDS LuaTask, TLAPS

(* The fields of the parameter blocks keep their types.                    *)
LEMMA ReleasedType ==
    ASSUME NEW p \in Params
    PROVE  /\ Released(p) \in Params
           /\ [Released(p) EXCEPT !.stop_flag = TRUE] \in Params
  BY DEF Released, Params

LEMMA FieldTypes ==
    ASSUME NEW p \in Params
    PROVE  /\ [p EXCEPT !.stop_flag = TRUE] \in Params
           /\ [p EXCEPT !.func_ref = "released"] \in Params
           /\ [p EXCEPT !.queue = "deleted"] \in Params
           /\ [p EXCEPT !.mem = "freed"] \in Params
  BY DEF Params

LEMMA NewParamType ==
    ASSUME NEW t \in Nat, NEW queue \in {"null", "live", "deleted"}
    PROVE  /\ NewParam(t, queue) \in Params
           /\ [NewParam(t, queue) EXCEPT !.mem = "freed"] \in Params
<1>1. Timer(t) \in Nat
  BY DEF Timer
<1>2. NoParam \in Params
  BY SizesAssumption DEF NoParam, Params
<1> QED
  BY <1>1, <1>2 DEF NewParam, Params

LEMMA RestartType == Restart => TypeOK'
  BY SizesAssumption, OwnersDistinct DEF Restart, TypeOK, NoParam, Params, PCs

LEMMA TypeStep == TypeOK /\ [Next]_vars => TypeOK'
<1> SUFFICES ASSUME TypeOK, [Next]_vars PROVE TypeOK'
  OBVIOUS
<1> USE DEF Up, Undefined, NullOrAssert, threads
<1>1. CASE BootBegin \/ BootEnd \/ ReplBegin \/ ReplEnd
  BY <1>1 DEF TypeOK, BootBegin, BootEnd, ReplBegin, ReplEnd
<1>2. ASSUME NEW w \in Workers, L_TASK_CREATE(w) PROVE TypeOK'
  <2> PICK t \in TimerArgs : TaskCreated(w, t) \/ TaskRefused(w, t) \/ CreateFaults
    BY <1>2 DEF L_TASK_CREATE
  <2>t. t \in Nat
    BY SizesAssumption
  <2>1. CASE TaskCreated(w, t)
    <3> PICK queue \in {"live", "null"} : param' = [param EXCEPT ![w] = NewParam(t, queue)]
      BY <2>1 DEF TaskCreated
    <3>1. NewParam(t, queue) \in Params
      BY <2>t, NewParamType
    <3> QED
      BY <1>2, <2>1, <3>1 DEF TaskCreated, L_TASK_CREATE, TypeOK, PCs
  <2>2. CASE TaskRefused(w, t)
    BY <1>2, <2>2, <2>t, NewParamType DEF TaskRefused, L_TASK_CREATE, TypeOK, PCs
  <2>3. CASE CreateFaults
    BY <1>2, <2>3 DEF CreateFaults, L_TASK_CREATE, TypeOK
  <2> QED
    BY <2>1, <2>2, <2>3
<1>3. ASSUME NEW w \in Workers, L_TASK_START(w) PROVE TypeOK'
  BY <1>3, SizesAssumption DEF L_TASK_START, Uses, Dangles, TypeOK, Params
<1>4. ASSUME NEW w \in Workers, L_TASK_STOP(w) PROVE TypeOK'
  <2>1. param' \in [Workers -> Params]
    <3>1. param' = param \/ param' = [param EXCEPT ![w].stop_flag = TRUE]
      BY <1>4 DEF L_TASK_STOP, Dangles
    <3>2. /\ param \in [Workers -> Params]
          /\ [param[w] EXCEPT !.stop_flag = TRUE] \in Params
      BY FieldTypes DEF TypeOK
    <3> QED
      BY <3>1, <3>2
  <2> QED
    BY <1>4, <2>1 DEF L_TASK_STOP, Dangles, TypeOK
<1>5. ASSUME NEW w \in Workers, L_TASK_SUSPEND(w) \/ L_TASK_RESUME(w) PROVE TypeOK'
  BY <1>5 DEF L_TASK_SUSPEND, L_TASK_RESUME, Uses, Dangles, TypeOK
<1>6. ASSUME NEW w \in Workers, L_TASK_GC(w) PROVE TypeOK'
  BY <1>6, ReleasedType DEF L_TASK_GC, TypeOK
<1>7. CASE L_OS_REBOOT \/ Reboot
  BY <1>7, RestartType DEF L_OS_REBOOT, Reboot
<1>8. ASSUME NEW w \in Workers, ReceiveTrigger(w) PROVE TypeOK'
  <2>1. CASE /\ param[w].triggers > 0
             /\ param' = [param EXCEPT ![w].triggers = @ - 1]
    <3>1. param[w] \in Params /\ param[w].triggers - 1 \in 0..QueueLen
      BY <2>1, SizesAssumption DEF TypeOK, Params
    <3>2. [param[w] EXCEPT !.triggers = @ - 1] \in Params
      BY <3>1 DEF Params
    <3>3. param' \in [Workers -> Params]
      BY <2>1, <3>2 DEF TypeOK
    <3> QED
      BY <1>8, <3>3 DEF ReceiveTrigger, At, Goto, TypeOK, PCs
  <2>2. CASE param' = param
    BY <1>8, <2>2 DEF ReceiveTrigger, At, Goto, TypeOK, PCs
  <2> QED
    BY <1>8, <2>1, <2>2 DEF ReceiveTrigger
<1>9. ASSUME NEW w \in Workers, TestStopFlag(w) PROVE TypeOK'
  BY <1>9 DEF TestStopFlag, At, Goto, TypeOK, PCs
<1>10. ASSUME NEW w \in Workers, TakeLuaMutex(w) PROVE TypeOK'
  BY <1>10 DEF TakeLuaMutex, At, Goto, TypeOK, PCs
<1>11. ASSUME NEW w \in Workers, GiveLuaMutex(w) \/ DelayUntil(w) \/ ExitThread(w)
       PROVE TypeOK'
  BY <1>11 DEF GiveLuaMutex, DelayUntil, ExitThread, At, Goto, TypeOK, PCs
<1>12. ASSUME NEW w \in Workers, UnrefCallback(w) \/ DeleteQueue(w) \/ FreeParam(w)
       PROVE TypeOK'
  <2>1. CASE UnrefCallback(w)
    BY <2>1, FieldTypes DEF UnrefCallback, At, Goto, TypeOK, PCs
  <2>2. CASE DeleteQueue(w)
    BY <2>2, FieldTypes DEF DeleteQueue, At, Goto, TypeOK, PCs
  <2>3. CASE FreeParam(w)
    BY <2>3, FieldTypes DEF FreeParam, At, Goto, TypeOK, PCs
  <2> QED
    BY <1>12, <2>1, <2>2, <2>3
<1>13. CASE HeapPanic \/ LuaRace
  BY <1>13 DEF HeapPanic, LuaRace, TypeOK
<1>14. CASE UNCHANGED vars
  BY <1>14 DEF vars, TypeOK
<1> QED
  BY <1>1, <1>2, <1>3, <1>4, <1>5, <1>6, <1>7, <1>8, <1>9, <1>10, <1>11, <1>12,
     <1>13, <1>14 DEF Next, ScriptStep, WorkerRuns

(* Every variable keeps its type, whatever the scripts do.                 *)
THEOREM TypeCorrect == Spec => []TypeOK
<1>1. Init => TypeOK
  BY SizesAssumption, OwnersDistinct DEF Init, TypeOK, NoParam, Params, PCs
<1> QED
  BY <1>1, TypeStep, PTL DEF Spec

-----------------------------------------------------------------------------
(* luaMutex is owned exactly by the worker that is in its callback, or by  *)
(* app_main while the boot script runs.                                    *)
MutexOwner ==
    /\ \A w \in Workers : InCallback(w) <=> luaMutex = w
    /\ main = "script" <=> luaMutex = AppMain

LEMMA MutexOwnerStep == TypeOK /\ MutexOwner /\ [Next]_vars => MutexOwner'
<1> SUFFICES ASSUME TypeOK, MutexOwner, [Next]_vars PROVE MutexOwner'
  OBVIOUS
<1> USE OwnersDistinct DEF MutexOwner, InCallback, TypeOK, Up, threads
<1>1. CASE BootBegin
  BY <1>1 DEF BootBegin
<1>2. CASE BootEnd
  BY <1>2 DEF BootEnd
<1>3. CASE ReplBegin \/ ReplEnd \/ HeapPanic \/ LuaRace
  BY <1>3 DEF ReplBegin, ReplEnd, HeapPanic, LuaRace
<1>4. ASSUME NEW w \in Workers, L_TASK_CREATE(w) PROVE MutexOwner'
  BY <1>4 DEF L_TASK_CREATE, TaskCreated, TaskRefused, CreateFaults
<1>5. ASSUME NEW w \in Workers,
             \/ L_TASK_START(w) \/ L_TASK_STOP(w) \/ L_TASK_SUSPEND(w)
             \/ L_TASK_RESUME(w) \/ L_TASK_GC(w)
      PROVE  MutexOwner'
  BY <1>5 DEF L_TASK_START, L_TASK_STOP, L_TASK_SUSPEND, L_TASK_RESUME, L_TASK_GC
<1>6. CASE L_OS_REBOOT \/ Reboot
  BY <1>6 DEF L_OS_REBOOT, Reboot, Restart
<1>7. ASSUME NEW w \in Workers, TakeLuaMutex(w) PROVE MutexOwner'
  BY <1>7 DEF TakeLuaMutex, At, Goto
<1>8. ASSUME NEW w \in Workers, GiveLuaMutex(w) PROVE MutexOwner'
  BY <1>8 DEF GiveLuaMutex, At, Goto
<1>9. ASSUME NEW w \in Workers,
             \/ ReceiveTrigger(w) \/ TestStopFlag(w) \/ DelayUntil(w)
             \/ UnrefCallback(w) \/ DeleteQueue(w) \/ FreeParam(w) \/ ExitThread(w)
      PROVE  MutexOwner'
  BY <1>9 DEF ReceiveTrigger, TestStopFlag, DelayUntil, UnrefCallback,
              DeleteQueue, FreeParam, ExitThread, At, Goto
<1>10. CASE UNCHANGED vars
  BY <1>10 DEF vars
<1> QED
  BY <1>1, <1>2, <1>3, <1>4, <1>5, <1>6, <1>7, <1>8, <1>9, <1>10
     DEF Next, ScriptStep, WorkerRuns

THEOREM MutexOwned == Spec => []MutexOwner
<1>1. Init => MutexOwner
  BY OwnersDistinct DEF Init, MutexOwner, InCallback
<1> QED
  BY <1>1, TypeCorrect, MutexOwnerStep, PTL DEF Spec

(* The callbacks and the boot script never overlap, for any number of      *)
(* tasks, any script and whatever the collector does.                      *)
THEOREM Serialised == Spec => []CallbacksSerialised
<1>1. MutexOwner => CallbacksSerialised
  BY OwnersDistinct DEF MutexOwner, CallbacksSerialised
<1> QED
  BY <1>1, MutexOwned, PTL

-----------------------------------------------------------------------------
(* Why at most one callback follows task.stop: while the handle is there,  *)
(* a worker that has tested stop_flag and waits for luaMutex with the flag *)
(* set has not begun a callback since, and every later test ends its loop. *)
StopInvOf(w) ==
    /\ pc[w] = "none" => ud[w] = "none" /\ ~param[w].stop_flag
    /\ ud[w] = "none" => pc[w] \in {"none", "failed"}
    /\ ~param[w].stop_flag => late[w] = 0
    /\ /\ ud[w] = "live"
       /\ pc[w] \in {"wait", "loop", "take", "call", "delay", "unref", "qdel", "free"}
       => param[w].mem = "live"
    /\ ud[w] = "live" =>
         /\ late[w] =< 1
         /\ pc[w] \in {"wait", "take"} /\ param[w].stop_flag => late[w] = 0

StopInv == \A w \in Workers : StopInvOf(w)

LEMMA StopInvStep == TypeOK /\ StopInv /\ [Next]_vars => StopInv'
<1> SUFFICES ASSUME TypeOK, StopInv, [Next]_vars, NEW v \in Workers
             PROVE StopInvOf(v)'
  BY DEF StopInv
<1>v. /\ StopInvOf(v)
      /\ param[v] \in Params /\ late[v] \in 0..2
      /\ param \in [Workers -> Params] /\ pc \in [Workers -> PCs]
      /\ ud \in [Workers -> {"none", "live", "collected"}]
      /\ late \in [Workers -> 0..2]
  BY DEF StopInv, TypeOK
<1> USE <1>v DEF StopInvOf, Up, threads
<1>1. CASE BootBegin \/ BootEnd \/ ReplBegin \/ ReplEnd \/ HeapPanic \/ LuaRace
  BY <1>1 DEF BootBegin, BootEnd, ReplBegin, ReplEnd, HeapPanic, LuaRace
<1>2. ASSUME NEW w \in Workers, L_TASK_CREATE(w) PROVE StopInvOf(v)'
  <2>1. CASE v = w
    <3>l. late'[v] = 0 /\ pc[v] = "none" /\ ud[v] = "none"
      BY <1>2, <2>1 DEF L_TASK_CREATE
    <3> PICK t \in TimerArgs : TaskCreated(w, t) \/ TaskRefused(w, t) \/ CreateFaults
      BY <1>2 DEF L_TASK_CREATE
    <3>1. CASE TaskCreated(w, t)
      <4> PICK queue : param' = [param EXCEPT ![w] = NewParam(t, queue)]
        BY <3>1 DEF TaskCreated
      <4>1. NewParam(t, queue).mem = "live"
        BY DEF NewParam, NoParam
      <4>2. param'[v].mem = "live" /\ pc'[v] = "wait" /\ ud'[v] = "live"
        BY <2>1, <3>1, <4>1 DEF TaskCreated
      <4> QED
        BY <3>l, <4>2
    <3>2. CASE TaskRefused(w, t)
      <4>1. pc'[v] = "failed" /\ ud'[v] = "none"
        BY <2>1, <3>l, <3>2 DEF TaskRefused
      <4> QED
        BY <3>l, <4>1
    <3>3. CASE CreateFaults
      BY <3>l, <3>3 DEF CreateFaults
    <3> QED
      BY <3>1, <3>2, <3>3
  <2>2. CASE v # w
    BY <1>2, <2>2 DEF L_TASK_CREATE, TaskCreated, TaskRefused, CreateFaults
  <2> QED
    BY <2>1, <2>2
<1>3. ASSUME NEW w \in Workers, L_TASK_START(w) PROVE StopInvOf(v)'
  <2>1. /\ param'[v].mem = param[v].mem
        /\ param'[v].stop_flag = param[v].stop_flag
    BY <1>3 DEF L_TASK_START, Dangles, Params
  <2> QED
    BY <1>3, <2>1 DEF L_TASK_START
<1>4. ASSUME NEW w \in Workers, L_TASK_STOP(w) PROVE StopInvOf(v)'
  <2>1. CASE param' = param
    BY <1>4, <2>1 DEF L_TASK_STOP
  <2>2. CASE param' = [param EXCEPT ![w].stop_flag = TRUE]
    <3>1. /\ param'[v].mem = param[v].mem
          /\ param[v].stop_flag => param'[v].stop_flag
      BY <2>2 DEF Params
    <3> QED
      BY <1>4, <3>1, <2>2 DEF L_TASK_STOP, Uses
  <2> QED
    BY <1>4, <2>1, <2>2 DEF L_TASK_STOP, Dangles
<1>5. ASSUME NEW w \in Workers, L_TASK_SUSPEND(w) \/ L_TASK_RESUME(w)
      PROVE StopInvOf(v)'
  BY <1>5 DEF L_TASK_SUSPEND, L_TASK_RESUME, Uses, Dangles
<1>6. ASSUME NEW w \in Workers, L_TASK_GC(w) PROVE StopInvOf(v)'
  <2>1. CASE v = w
    <3>1. param'[v].stop_flag /\ ud'[v] = "collected" /\ pc' = pc
      BY <1>6, <2>1 DEF L_TASK_GC, Params, Released
    <3> QED
      BY <1>6, <2>1, <3>1 DEF L_TASK_GC
  <2>2. CASE v # w
    BY <1>6, <2>2 DEF L_TASK_GC
  <2> QED
    BY <2>1, <2>2
<1>7. CASE L_OS_REBOOT \/ Reboot
  BY <1>7 DEF L_OS_REBOOT, Reboot, Restart, NoParam
<1>8. ASSUME NEW w \in Workers, ReceiveTrigger(w) PROVE StopInvOf(v)'
  BY <1>8 DEF ReceiveTrigger, At, Goto, Params
<1>9. ASSUME NEW w \in Workers, TestStopFlag(w) PROVE StopInvOf(v)'
  BY <1>9 DEF TestStopFlag, At, Goto, Params
<1>10. ASSUME NEW w \in Workers, TakeLuaMutex(w) PROVE StopInvOf(v)'
  BY <1>10 DEF TakeLuaMutex, At, Goto, Params
<1>11. ASSUME NEW w \in Workers, GiveLuaMutex(w) \/ DelayUntil(w) \/ ExitThread(w)
       PROVE StopInvOf(v)'
  BY <1>11 DEF GiveLuaMutex, DelayUntil, ExitThread, At, Goto
<1>12. ASSUME NEW w \in Workers, UnrefCallback(w) \/ DeleteQueue(w) \/ FreeParam(w)
       PROVE StopInvOf(v)'
  BY <1>12 DEF UnrefCallback, DeleteQueue, FreeParam, At, Goto, Params
<1>13. CASE UNCHANGED vars
  BY <1>13 DEF vars
<1> QED
  BY <1>1, <1>2, <1>3, <1>4, <1>5, <1>6, <1>7, <1>8, <1>9, <1>10, <1>11, <1>12,
     <1>13 DEF Next, ScriptStep, WorkerRuns

(* After task.stop at most one more callback begins, for any script that   *)
(* keeps the handle.                                                       *)
THEOREM StopIsBounded == Spec => []StopBound
<1>1. Init => StopInv
  <2> SUFFICES ASSUME Init, NEW w \in Workers PROVE StopInvOf(w)
    BY DEF StopInv
  <2>1. /\ pc[w] = "none" /\ ud[w] = "none" /\ late[w] = 0
        /\ ~param[w].stop_flag
    BY DEF Init, NoParam
  <2> QED
    BY <2>1 DEF StopInvOf
<1>2. StopInv => StopBound
  BY DEF StopInv, StopInvOf, StopBound
<1> QED
  BY <1>1, <1>2, TypeCorrect, StopInvStep, PTL DEF Spec
-----------------------------------------------------------------------------
(* What discipline buys: as long as a handle may be used its worker is     *)
(* before the end of its loop and all that the block names exists; the     *)
(* clean-up finds everything as it left it.                                *)
SafeInvOf(w) ==
    /\ pc[w] # "failed" /\ ud[w] # "collected"
    /\ pc[w] = "none" => ud[w] = "none"
    /\ pc[w] \in {"wait", "loop", "take", "call", "delay", "unref"} =>
         /\ param[w].mem = "live" /\ param[w].queue = "live"
         /\ param[w].func_ref = "held" /\ param[w].timer >= TickPeriodMs
    /\ pc[w] = "qdel" => param[w].mem = "live" /\ param[w].queue = "live"
    /\ pc[w] = "free" => param[w].mem = "live"
    /\ pc[w] \in {"unref", "qdel", "free", "exit", "gone"} => param[w].stop_flag

SafeInv == (device # "up" => LuaShared) /\ \A w \in Workers : SafeInvOf(w)

LEMMA PeriodPositive ==
    ASSUME NEW t \in Nat, t >= TickPeriodMs PROVE t \div TickPeriodMs # 0
  BY SizesAssumption

LEMMA SafeInvStep ==
    ASSUME Disciplined PROVE TypeOK /\ SafeInv /\ [Next]_vars => SafeInv'
<1> SUFFICES ASSUME TypeOK, SafeInv, [Next]_vars PROVE SafeInv'
  OBVIOUS
<1>t. /\ param \in [Workers -> Params] /\ pc \in [Workers -> PCs]
      /\ ud \in [Workers -> {"none", "live", "collected"}]
  BY DEF TypeOK
<1>i. \A w \in Workers : SafeInvOf(w)
  BY DEF SafeInv
<1> USE DEF Up
<1>d. /\ "gc" \notin Script /\ ~HandlesReused /\ ~HeapCanRunOut
      /\ \A t \in TimerArgs : Timer(t) >= TickPeriodMs
  BY DEF Disciplined
<1>u. ASSUME NEW w \in Workers, NEW f, Uses(f, w)
      PROVE  ~param[w].stop_flag /\ param[w].mem = "live" /\ param[w].queue = "live"
  BY <1>u, <1>t, <1>i, <1>d DEF Uses, SafeInvOf, PCs
<1>1. CASE BootBegin \/ BootEnd \/ ReplBegin \/ ReplEnd
  BY <1>1, <1>i DEF BootBegin, BootEnd, ReplBegin, ReplEnd, SafeInv, SafeInvOf
<1>2. ASSUME NEW w \in Workers, L_TASK_CREATE(w) PROVE SafeInv'
  <2> PICK t \in TimerArgs : TaskCreated(w, t) \/ TaskRefused(w, t) \/ CreateFaults
    BY <1>2 DEF L_TASK_CREATE
  <2>1. TaskCreated(w, t)
    BY <1>d DEF TaskRefused, CreateFaults
  <2>2. param' = [param EXCEPT ![w] = NewParam(t, "live")]
    BY <2>1, <1>d DEF TaskCreated
  <2>3. /\ NewParam(t, "live").mem = "live" /\ NewParam(t, "live").queue = "live"
        /\ NewParam(t, "live").func_ref = "held"
        /\ NewParam(t, "live").timer >= TickPeriodMs
    BY <1>d DEF NewParam, NoParam
  <2>4. /\ param'[w] = NewParam(t, "live") /\ pc'[w] = "wait" /\ device' = "up"
        /\ \A v \in Workers \ {w} :
             param'[v] = param[v] /\ pc'[v] = pc[v] /\ ud'[v] = ud[v]
    BY <1>2, <2>1, <2>2, <1>t DEF TaskCreated, L_TASK_CREATE
  <2>5. ud'[w] = "live"
    BY <2>1, <1>t DEF TaskCreated
  <2> QED
    BY <2>3, <2>4, <2>5, <1>i DEF SafeInv, SafeInvOf
<1>3. ASSUME NEW w \in Workers, L_TASK_START(w) PROVE SafeInv'
  <2>1. /\ param' = [param EXCEPT ![w].triggers = @ + 1]
        /\ device' = "up" /\ UNCHANGED <<pc, ud>>
    BY <1>3, <1>u DEF L_TASK_START, Dangles, Uses
  <2> QED
    BY <2>1, <1>t, <1>i DEF SafeInv, SafeInvOf, Params
<1>4. ASSUME NEW w \in Workers, L_TASK_STOP(w) PROVE SafeInv'
  <2>1. /\ param' = [param EXCEPT ![w].stop_flag = TRUE]
        /\ device' = "up" /\ UNCHANGED <<pc, ud>>
    BY <1>4, <1>u DEF L_TASK_STOP, Dangles, Uses
  <2> QED
    BY <2>1, <1>t, <1>i DEF SafeInv, SafeInvOf, Params
<1>5. ASSUME NEW w \in Workers, L_TASK_SUSPEND(w) \/ L_TASK_RESUME(w) PROVE SafeInv'
  <2>1. device' = "up" /\ UNCHANGED <<pc, ud, param>>
    BY <1>5, <1>u DEF L_TASK_SUSPEND, L_TASK_RESUME, Dangles, Uses
  <2> QED
    BY <2>1, <1>i DEF SafeInv, SafeInvOf
<1>6. ASSUME NEW w \in Workers PROVE ~L_TASK_GC(w)
  BY <1>d DEF L_TASK_GC
<1>7. CASE L_OS_REBOOT \/ Reboot
  BY <1>7 DEF L_OS_REBOOT, Reboot, Restart, SafeInv, SafeInvOf
<1>8. ASSUME NEW w \in Workers, ReceiveTrigger(w) PROVE SafeInv'
  <2>1. /\ param' = [param EXCEPT ![w].triggers = @ - 1]
        /\ pc[w] = "wait" /\ pc' = [pc EXCEPT ![w] = "loop"]
        /\ device' = "up" /\ ud' = ud
    BY <1>8, <1>i DEF ReceiveTrigger, At, Goto, SafeInvOf
  <2> QED
    BY <2>1, <1>t, <1>i DEF SafeInv, SafeInvOf, Params
<1>9. ASSUME NEW w \in Workers, TestStopFlag(w) PROVE SafeInv'
  BY <1>9, <1>t, <1>i DEF TestStopFlag, At, Goto, SafeInv, SafeInvOf, Params
<1>10. ASSUME NEW w \in Workers, TakeLuaMutex(w) PROVE SafeInv'
  BY <1>10, <1>t, <1>i DEF TakeLuaMutex, At, Goto, SafeInv, SafeInvOf
<1>11. ASSUME NEW w \in Workers, GiveLuaMutex(w) PROVE SafeInv'
  BY <1>11, <1>t, <1>i DEF GiveLuaMutex, At, Goto, SafeInv, SafeInvOf
<1>12. ASSUME NEW w \in Workers, DelayUntil(w) PROVE SafeInv'
  <2>1. param[w].timer \in Nat /\ param[w].timer >= TickPeriodMs
    BY <1>12, <1>t, <1>i DEF DelayUntil, At, SafeInvOf, Params
  <2>2. param[w].timer \div TickPeriodMs # 0
    BY <2>1, PeriodPositive
  <2> QED
    BY <1>12, <2>2, <1>t, <1>i DEF DelayUntil, At, Goto, SafeInv, SafeInvOf
<1>13. ASSUME NEW w \in Workers, UnrefCallback(w) PROVE SafeInv'
  BY <1>13, <1>t, <1>i DEF UnrefCallback, At, Goto, SafeInv, SafeInvOf, Params
<1>14. ASSUME NEW w \in Workers, DeleteQueue(w) PROVE SafeInv'
  BY <1>14, <1>t, <1>i DEF DeleteQueue, At, Goto, SafeInv, SafeInvOf, Params
<1>15. ASSUME NEW w \in Workers, FreeParam(w) PROVE SafeInv'
  BY <1>15, <1>t, <1>i DEF FreeParam, At, Goto, SafeInv, SafeInvOf, Params
<1>16. ASSUME NEW w \in Workers, ExitThread(w) PROVE SafeInv'
  BY <1>16, <1>t, <1>i DEF ExitThread, At, Goto, SafeInv, SafeInvOf
<1>17. CASE HeapPanic \/ LuaRace
  BY <1>17, <1>i DEF HeapPanic, LuaRace, LuaShared, Inside, SafeInv, SafeInvOf, threads
<1>18. CASE UNCHANGED vars
  BY <1>18, <1>i DEF vars, threads, LuaShared, Inside, SafeInv, SafeInvOf
<1> QED
  BY <1>1, <1>2, <1>3, <1>4, <1>5, <1>6, <1>7, <1>8, <1>9, <1>10, <1>11, <1>12,
     <1>13, <1>14, <1>15, <1>16, <1>17, <1>18 DEF Next, ScriptStep, WorkerRuns

(* Of the threads that share the lua_State one has no luaMutex.            *)
LEMMA RaceNeedsOutsider ==
    TypeOK /\ MutexOwner /\ LuaShared =>
        repl = "running" \/ \E w \in Workers : pc[w] = "unref"
  BY OwnersDistinct DEF TypeOK, MutexOwner, InCallback, LuaShared, Inside

(* A disciplined script, of any number of tasks, brings the device down in *)
(* no other way than by a command, or the end of a worker, beside another  *)
(* thread in Lua; and no worker looks at a block that is gone.             *)
THEOREM OnlyRacesHurtDiscipline ==
    ASSUME Disciplined PROVE Spec => [](OnlyRacesHurt /\ BlockOutlivesWorker)
<1>1. Init => SafeInv
  BY DEF Init, SafeInv, SafeInvOf
<1>2. TypeOK /\ MutexOwner /\ SafeInv => OnlyRacesHurt /\ BlockOutlivesWorker
  BY RaceNeedsOutsider DEF SafeInv, SafeInvOf, OnlyRacesHurt, BlockOutlivesWorker
<1>3. TypeOK /\ SafeInv /\ [Next]_vars => SafeInv'
  BY SafeInvStep
<1> QED
  BY <1>1, <1>2, <1>3, TypeCorrect, MutexOwned, PTL DEF Spec

LEMMA InitInvariants == Init => TypeOK /\ MutexOwner /\ StopInv /\ SafeInv
<1> SUFFICES ASSUME Init PROVE TypeOK /\ MutexOwner /\ StopInv /\ SafeInv
  OBVIOUS
<1>1. TypeOK
  BY SizesAssumption, OwnersDistinct DEF Init, TypeOK, NoParam, Params, PCs
<1>2. MutexOwner
  BY OwnersDistinct DEF Init, MutexOwner, InCallback
<1>3. SafeInv
  BY DEF Init, SafeInv, SafeInvOf
<1>4. ASSUME NEW w \in Workers PROVE StopInvOf(w)
  <2>1. /\ pc[w] = "none" /\ ud[w] = "none" /\ late[w] = 0
        /\ ~param[w].stop_flag
    BY DEF Init, NoParam
  <2> QED
    BY <2>1 DEF StopInvOf
<1> QED
  BY <1>1, <1>2, <1>3, <1>4 DEF StopInv

-----------------------------------------------------------------------------
(* The steps of the program as steps of TaskLibrary.                       *)
LEMMA StatusOfLabel ==
    /\ statusOf("none") = "absent" /\ statusOf("wait") = "armed"
    /\ \A l \in {"loop", "take", "call", "delay"} : statusOf(l) = "active"
    /\ \A l \in {"unref", "qdel", "free", "exit", "gone"} : statusOf(l) = "ended"
  BY DEF statusOf

\* the mapping reads no more of the state than this
SameBars == /\ statusBar' = statusBar /\ runningBar' = runningBar
            /\ stoppedBar' = stoppedBar /\ graceBar' = graceBar

LEMMA PromiseStep ==
    ASSUME Disciplined
    PROVE  TypeOK /\ MutexOwner /\ StopInv /\ SafeInv /\ [Next]_vars
             => [Promise!Next]_(Promise!vars)
<1> SUFFICES ASSUME TypeOK, MutexOwner, StopInv, SafeInv, [Next]_vars
             PROVE  [Promise!Next]_(Promise!vars)
  OBVIOUS
<1>t. /\ param \in [Workers -> Params] /\ pc \in [Workers -> PCs]
      /\ late \in [Workers -> 0..2] /\ TypeOK'
  BY TypeStep DEF TypeOK
<1>i. \A w \in Workers : SafeInvOf(w) /\ StopInvOf(w)
  BY DEF SafeInv, StopInv
<1>d. /\ "gc" \notin Script /\ ~HandlesReused /\ ~HeapCanRunOut
  BY DEF Disciplined
<1>s. /\ statusBar = [w \in Workers |-> statusOf(pc[w])]
      /\ statusBar' = [w \in Workers |-> statusOf(pc'[w])]
  BY DEF statusBar
<1>u. ASSUME NEW w \in Workers, NEW f, Uses(f, w)
      PROVE  /\ ~param[w].stop_flag /\ param[w].mem = "live" /\ param[w].queue = "live"
             /\ pc[w] \in {"wait", "loop", "take", "call", "delay"}
  BY <1>u, <1>t, <1>i, <1>d DEF Uses, SafeInvOf, PCs
<1>same. ASSUME SameBars PROVE [Promise!Next]_(Promise!vars)
  BY <1>same DEF SameBars, Promise!vars
<1>1. CASE BootBegin
  <2>1. Promise!BootBegins
    BY <1>1, <1>s, OwnersDistinct
       DEF BootBegin, MutexOwner, InCallback, Promise!BootBegins, runningBar,
           stoppedBar, graceBar
  <2> QED
    BY <2>1 DEF Promise!Next
<1>2. CASE BootEnd
  <2>1. Promise!BootEnds
    BY <1>2, <1>s, OwnersDistinct
       DEF BootEnd, MutexOwner, InCallback, Promise!BootEnds, runningBar,
           stoppedBar, graceBar
  <2> QED
    BY <2>1 DEF Promise!Next
<1>3. CASE ReplBegin \/ ReplEnd
  BY <1>3, <1>same
     DEF ReplBegin, ReplEnd, SameBars, statusBar, runningBar, stoppedBar, graceBar,
         InCallback
<1>4. ASSUME NEW w \in Workers, L_TASK_CREATE(w) PROVE Promise!Create(w)
  <2> PICK t \in TimerArgs : TaskCreated(w, t) \/ TaskRefused(w, t) \/ CreateFaults
    BY <1>4 DEF L_TASK_CREATE
  <2>1. TaskCreated(w, t)
    BY <1>d DEF TaskRefused, CreateFaults
  <2>2. param' = [param EXCEPT ![w] = NewParam(t, "live")]
    BY <2>1, <1>d DEF TaskCreated
  <2>3. ~NewParam(t, "live").stop_flag /\ ~param[w].stop_flag
    BY <1>4, <1>i DEF L_TASK_CREATE, StopInvOf, NewParam, NoParam
  <2>4. stoppedBar' = stoppedBar
    BY <2>2, <2>3, <1>t DEF stoppedBar
  <2>5. pc[w] = "none" /\ pc' = [pc EXCEPT ![w] = "wait"]
    BY <1>4, <2>1 DEF L_TASK_CREATE, TaskCreated
  <2>6. statusBar' = [statusBar EXCEPT ![w] = "armed"] /\ statusBar[w] = "absent"
    BY <2>5, <1>s, <1>t, StatusOfLabel
  <2>7. runningBar' = runningBar /\ graceBar' = graceBar
    BY <1>4, <2>5, <1>t DEF L_TASK_CREATE, threads, runningBar, graceBar, InCallback
  <2> QED
    BY <2>4, <2>6, <2>7 DEF Promise!Create
<1>5. ASSUME NEW w \in Workers,
             L_TASK_START(w) \/ L_TASK_SUSPEND(w) \/ L_TASK_RESUME(w)
      PROVE  SameBars
  <2>1. \A v \in Workers : param'[v].stop_flag = param[v].stop_flag
    <3>1. param' = [param EXCEPT ![w].triggers = @ + 1] \/ param' = param
      BY <1>5, <1>u DEF L_TASK_START, L_TASK_SUSPEND, L_TASK_RESUME, Dangles
    <3> QED
      BY <3>1, <1>t DEF Params
  <2>2. UNCHANGED <<threads, pc, late>>
    BY <1>5 DEF L_TASK_START, L_TASK_SUSPEND, L_TASK_RESUME
  <2> QED
    BY <2>1, <2>2 DEF threads, SameBars, statusBar, runningBar, stoppedBar, graceBar,
                      InCallback
<1>6. ASSUME NEW w \in Workers, L_TASK_STOP(w) PROVE Promise!Stop(w)
  <2>1. /\ param' = [param EXCEPT ![w].stop_flag = TRUE]
        /\ pc[w] \in {"wait", "loop", "take", "call", "delay"}
        /\ UNCHANGED <<threads, pc, late>>
    BY <1>6, <1>u DEF L_TASK_STOP, Dangles
  <2>2. stoppedBar' = stoppedBar \cup {w}
    BY <2>1, <1>t DEF stoppedBar, Params
  <2>3. statusBar[w] \in {"armed", "active"}
    BY <2>1, <1>s, StatusOfLabel
  <2> QED
    BY <2>1, <2>2, <2>3
       DEF Promise!Stop, threads, statusBar, runningBar, graceBar, InCallback
<1>7. ASSUME NEW w \in Workers PROVE ~L_TASK_GC(w)
  BY <1>d DEF L_TASK_GC
<1>8. CASE L_OS_REBOOT \/ Reboot
  <2>1. Restart
    BY <1>8 DEF L_OS_REBOOT, Reboot
  <2>2. statusBar' = [w \in Workers |-> "absent"]
    BY <2>1, <1>s, StatusOfLabel DEF Restart
  <2>3. stoppedBar' = {}
    BY <2>1 DEF Restart, stoppedBar, NoParam
  <2>4. runningBar' = {} /\ graceBar' = [w \in Workers |-> 1]
    BY <2>1 DEF Restart, runningBar, graceBar, InCallback
  <2> QED
    BY <2>2, <2>3, <2>4 DEF Promise!Restart, Promise!Next
<1>9. ASSUME NEW w \in Workers, ReceiveTrigger(w) PROVE Promise!Activate(w)
  <2>1. /\ param' = [param EXCEPT ![w].triggers = @ - 1]
        /\ pc[w] = "wait" /\ pc' = [pc EXCEPT ![w] = "loop"]
        /\ UNCHANGED <<threads, late>>
    BY <1>9, <1>i DEF ReceiveTrigger, At, Goto, SafeInvOf
  <2>2. statusBar' = [statusBar EXCEPT ![w] = "active"] /\ statusBar[w] = "armed"
    BY <2>1, <1>s, <1>t, StatusOfLabel
  <2>3. stoppedBar' = stoppedBar
    BY <2>1, <1>t DEF stoppedBar, Params
  <2>4. runningBar' = runningBar /\ graceBar' = graceBar
    BY <2>1, <1>t DEF threads, runningBar, graceBar, InCallback
  <2> QED
    BY <2>2, <2>3, <2>4 DEF Promise!Activate
<1>10. ASSUME NEW w \in Workers, TestStopFlag(w) PROVE Promise!End(w) \/ SameBars
  <2>0. pc[w] = "loop" /\ param' = param /\ late' = late /\ main' = main
    BY <1>10 DEF TestStopFlag, At, threads
  <2>r. runningBar' = runningBar /\ w \notin runningBar
    BY <1>10, <2>0, <1>t, OwnersDistinct DEF TestStopFlag, Goto, runningBar, InCallback
  <2>1. CASE param[w].stop_flag
    <3>1. pc' = [pc EXCEPT ![w] = "unref"]
      BY <1>10, <2>0, <2>1, <1>i DEF TestStopFlag, Goto, SafeInvOf
    <3>2. statusBar' = [statusBar EXCEPT ![w] = "ended"] /\ statusBar[w] = "active"
      BY <2>0, <3>1, <1>s, <1>t, StatusOfLabel
    <3> QED
      BY <2>0, <2>r, <2>1, <3>2 DEF Promise!End, stoppedBar, graceBar
  <2>2. CASE ~param[w].stop_flag
    <3>1. pc' = [pc EXCEPT ![w] = "take"]
      BY <1>10, <2>0, <2>2, <1>i DEF TestStopFlag, Goto, SafeInvOf
    <3>2. statusBar' = statusBar
      BY <2>0, <3>1, <1>s, <1>t, StatusOfLabel
    <3> QED
      BY <2>0, <2>r, <3>2 DEF SameBars, stoppedBar, graceBar
  <2> QED
    BY <2>1, <2>2
<1>11. ASSUME NEW w \in Workers, TakeLuaMutex(w) PROVE Promise!Begin(w)
  <2>1. /\ pc[w] = "take" /\ luaMutex = Free /\ pc' = [pc EXCEPT ![w] = "call"]
        /\ param' = param /\ main' = main
    BY <1>11 DEF TakeLuaMutex, At, Goto, threads
  <2>2. runningBar = {}
    BY <2>1, OwnersDistinct DEF MutexOwner, runningBar
  <2>3. runningBar' = {w}
    BY <2>1, <2>2, <1>t DEF runningBar, InCallback
  <2>4. statusBar' = statusBar /\ statusBar[w] = "active"
    BY <2>1, <1>s, <1>t, StatusOfLabel
  <2>5. stoppedBar' = stoppedBar /\ (w \in stoppedBar <=> param[w].stop_flag)
    BY <2>1 DEF stoppedBar
  <2>6. CASE param[w].stop_flag
    <3>1. late[w] = 0
      <4>1. ud[w] = "live"
        BY <2>1, <1>i, <1>t DEF StopInvOf, SafeInvOf, TypeOK
      <4> QED
        BY <2>1, <2>6, <4>1, <1>i DEF StopInvOf
    <3>2. late' = [late EXCEPT ![w] = 1]
      BY <1>11, <2>6, <3>1, <1>t DEF TakeLuaMutex
    <3>3. graceBar[w] = 1 /\ graceBar' = [graceBar EXCEPT ![w] = @ - 1]
      <4>1. graceBar' = [v \in Workers |-> IF v = w THEN 0 ELSE 1 - late[v]]
        BY <3>2, <1>t DEF graceBar
      <4>2. graceBar = [v \in Workers |-> 1 - late[v]] /\ 1 - late[w] = 1
        BY <3>1 DEF graceBar
      <4>3. [graceBar EXCEPT ![w] = @ - 1]
              = [v \in Workers |-> IF v = w THEN 0 ELSE 1 - late[v]]
        BY <4>2
      <4> QED
        BY <4>1, <4>2, <4>3
    <3> QED
      BY <2>2, <2>3, <2>4, <2>5, <2>6, <3>3 DEF Promise!Begin
  <2>7. CASE ~param[w].stop_flag
    <3>1. late' = late
      BY <1>11, <2>7, <1>t DEF TakeLuaMutex
    <3> QED
      BY <2>2, <2>3, <2>4, <2>5, <2>7, <3>1 DEF Promise!Begin, graceBar
  <2> QED
    BY <2>6, <2>7
<1>12. ASSUME NEW w \in Workers, GiveLuaMutex(w) PROVE Promise!Finish(w)
  <2>1. /\ pc[w] = "call" /\ pc' = [pc EXCEPT ![w] = "delay"]
        /\ param' = param /\ main' = main /\ late' = late
    BY <1>12 DEF GiveLuaMutex, At, Goto, threads
  <2>2. luaMutex = w
    BY <2>1 DEF MutexOwner, InCallback
  <2>3. runningBar = {w} /\ runningBar' = {}
    BY <2>1, <2>2, <1>t, OwnersDistinct DEF MutexOwner, runningBar, InCallback
  <2>4. statusBar' = statusBar
    BY <2>1, <1>s, <1>t, StatusOfLabel
  <2> QED
    BY <2>1, <2>3, <2>4 DEF Promise!Finish, stoppedBar, graceBar
<1>13. ASSUME NEW w \in Workers, DelayUntil(w) PROVE SameBars
  <2>1. param[w].timer \in Nat /\ param[w].timer >= TickPeriodMs
    BY <1>13, <1>t, <1>i DEF DelayUntil, At, SafeInvOf, Params
  <2>2. param[w].timer \div TickPeriodMs # 0
    BY <2>1, PeriodPositive
  <2>3. /\ pc[w] = "delay" /\ pc' = [pc EXCEPT ![w] = "loop"]
        /\ param' = param /\ main' = main /\ late' = late
    BY <1>13, <2>2 DEF DelayUntil, At, Goto, threads
  <2>4. statusBar' = statusBar
    BY <2>3, <1>s, <1>t, StatusOfLabel
  <2>5. runningBar' = runningBar
    BY <2>3, <1>t DEF runningBar, InCallback
  <2> QED
    BY <2>3, <2>4, <2>5 DEF SameBars, stoppedBar, graceBar
<1>14. ASSUME NEW w \in Workers,
              \/ UnrefCallback(w) \/ DeleteQueue(w) \/ FreeParam(w) \/ ExitThread(w)
       PROVE  SameBars
  <2>1. \E l, m \in {"unref", "qdel", "free", "exit", "gone"} :
            pc[w] = l /\ pc' = [pc EXCEPT ![w] = m]
    BY <1>14 DEF UnrefCallback, DeleteQueue, FreeParam, ExitThread, At, Goto
  <2>2. main' = main /\ late' = late
    BY <1>14 DEF UnrefCallback, DeleteQueue, FreeParam, ExitThread, threads
  <2>3. \A v \in Workers : param'[v].stop_flag = param[v].stop_flag
    BY <1>14, <1>t DEF UnrefCallback, DeleteQueue, FreeParam, ExitThread, Params
  <2>4. statusBar' = statusBar
    BY <2>1, <1>s, <1>t, StatusOfLabel
  <2>5. runningBar' = runningBar
    BY <2>1, <2>2, <1>t DEF runningBar, InCallback
  <2> QED
    BY <2>2, <2>3, <2>4, <2>5 DEF SameBars, stoppedBar, graceBar
<1>15. CASE HeapPanic \/ LuaRace
  BY <1>15, <1>same
     DEF HeapPanic, LuaRace, threads, SameBars, statusBar, runningBar, stoppedBar,
         graceBar, InCallback
<1>16. CASE UNCHANGED vars
  BY <1>16, <1>same
     DEF vars, threads, SameBars, statusBar, runningBar, stoppedBar, graceBar, InCallback
<1> QED
  BY <1>same, <1>1, <1>2, <1>3, <1>4, <1>5, <1>6, <1>7, <1>8, <1>9, <1>10, <1>11,
     <1>12, <1>13, <1>14, <1>15, <1>16
     DEF Next, ScriptStep, WorkerRuns, Promise!Next

(* The program, driven by disciplined scripts, implements TaskLibrary.     *)
THEOREM PromiseKept == ASSUME Disciplined PROVE Spec => KeepsPromise
<1>1. Init => Promise!Init
  <2> SUFFICES ASSUME Init PROVE Promise!Init
    OBVIOUS
  <2>1. statusBar = [w \in Workers |-> "absent"]
    BY StatusOfLabel DEF Init, statusBar, statusOf
  <2>2. stoppedBar = {}
    BY DEF Init, stoppedBar, NoParam
  <2> QED
    BY <2>1, <2>2 DEF Init, Promise!Init, runningBar, graceBar, InCallback
<1>2. Init => StopInv /\ SafeInv /\ MutexOwner /\ TypeOK
  BY InitInvariants
<1>3. TypeOK /\ MutexOwner /\ StopInv /\ SafeInv /\ [Next]_vars
        => [Promise!Next]_(Promise!vars)
  BY PromiseStep
<1>4. TypeOK /\ SafeInv /\ [Next]_vars => SafeInv'
  BY SafeInvStep
<1> QED
  BY <1>1, <1>2, <1>3, <1>4, TypeStep, MutexOwnerStep, StopInvStep, PTL
     DEF Spec, KeepsPromise, Promise!Spec

-----------------------------------------------------------------------------
(* Each step of the clean-up leaves the next one less to do, and neither a *)
(* call nor the collector takes any of it back.                            *)
LeakInvOf(w) ==
    /\ pc[w] \in {"qdel", "free", "exit", "gone"} => param[w].func_ref = "released"
    /\ pc[w] \in {"free", "exit", "gone"} => param[w].queue = "deleted"
    /\ pc[w] \in {"exit", "gone"} => param[w].mem = "freed"

(* A block that was not stopped is whole as long as its worker is in its   *)
(* loop, and a worker leaves the loop only when it is stopped.             *)
IntactInvOf(w) ==
    /\ pc[w] \in {"none", "failed"} => ud[w] = "none"
    /\ pc[w] \notin {"none", "failed"} /\ ~param[w].stop_flag =>
          /\ pc[w] \in {"wait", "loop", "take", "call", "delay"}
          /\ param[w].mem = "live" /\ param[w].queue # "deleted"
          /\ param[w].func_ref = "held"
    /\ pc[w] \notin {"none", "failed"} => param[w].mem # "none"

AnyInv == \A w \in Workers : LeakInvOf(w) /\ IntactInvOf(w)

(* What a step does to one block, in the terms of the two invariants.      *)
LEMMA BlockSteps ==
    ASSUME TypeOK, NEW w \in Workers, NEW v \in Workers
    PROVE  /\ L_TASK_START(w) =>
                 /\ param'[v].mem = param[v].mem /\ param'[v].queue = param[v].queue
                 /\ param'[v].func_ref = param[v].func_ref
                 /\ param'[v].stop_flag = param[v].stop_flag
           /\ L_TASK_STOP(w) =>
                 /\ param'[v].mem = param[v].mem /\ param'[v].queue = param[v].queue
                 /\ param'[v].func_ref = param[v].func_ref
                 /\ param[v].stop_flag => param'[v].stop_flag
           /\ L_TASK_GC(w) =>
                 \/ /\ v = w /\ param'[v].mem = "freed" /\ param'[v].func_ref = "released"
                    /\ param'[v].stop_flag
                    /\ param[v].queue = "deleted" => param'[v].queue = "deleted"
                 \/ v # w /\ param'[v] = param[v]
<1>1. param \in [Workers -> Params] /\ param[v] \in Params /\ param[w] \in Params
  BY DEF TypeOK
<1>2. ASSUME L_TASK_START(w)
      PROVE  /\ param'[v].mem = param[v].mem /\ param'[v].queue = param[v].queue
             /\ param'[v].func_ref = param[v].func_ref
             /\ param'[v].stop_flag = param[v].stop_flag
  <2>1. param' = param \/ param' = [param EXCEPT ![w].triggers = @ + 1]
    BY <1>2 DEF L_TASK_START, Dangles
  <2> QED
    BY <1>1, <2>1 DEF Params
<1>3. ASSUME L_TASK_STOP(w)
      PROVE  /\ param'[v].mem = param[v].mem /\ param'[v].queue = param[v].queue
             /\ param'[v].func_ref = param[v].func_ref
             /\ param[v].stop_flag => param'[v].stop_flag
  <2>1. param' = param \/ param' = [param EXCEPT ![w].stop_flag = TRUE]
    BY <1>3 DEF L_TASK_STOP, Dangles
  <2> QED
    BY <1>1, <2>1 DEF Params
<1>4. ASSUME L_TASK_GC(w)
      PROVE  \/ /\ v = w /\ param'[v].mem = "freed" /\ param'[v].func_ref = "released"
                /\ param'[v].stop_flag
                /\ param[v].queue = "deleted" => param'[v].queue = "deleted"
             \/ v # w /\ param'[v] = param[v]
  BY <1>1, <1>4 DEF L_TASK_GC, Released, Params
<1> QED
  BY <1>2, <1>3, <1>4

LEMMA AnyInvStep == TypeOK /\ AnyInv /\ [Next]_vars => AnyInv'
<1> SUFFICES ASSUME TypeOK, AnyInv, [Next]_vars, NEW v \in Workers
             PROVE  LeakInvOf(v)' /\ IntactInvOf(v)'
  BY DEF AnyInv
<1>v. /\ LeakInvOf(v) /\ IntactInvOf(v)
      /\ param[v] \in Params /\ param \in [Workers -> Params]
      /\ pc \in [Workers -> PCs] /\ ud \in [Workers -> {"none", "live", "collected"}]
  BY DEF AnyInv, TypeOK
<1> USE <1>v DEF LeakInvOf, IntactInvOf, Up, threads
<1>1. CASE BootBegin \/ BootEnd \/ ReplBegin \/ ReplEnd \/ HeapPanic \/ LuaRace
  BY <1>1 DEF BootBegin, BootEnd, ReplBegin, ReplEnd, HeapPanic, LuaRace
<1>2. ASSUME NEW w \in Workers, L_TASK_CREATE(w)
      PROVE  LeakInvOf(v)' /\ IntactInvOf(v)'
  <2>0. pc[w] = "none"
    BY <1>2 DEF L_TASK_CREATE
  <2> PICK t \in TimerArgs : TaskCreated(w, t) \/ TaskRefused(w, t) \/ CreateFaults
    BY <1>2 DEF L_TASK_CREATE
  <2>1. CASE v = w /\ TaskCreated(w, t)
    <3> PICK queue \in {"live", "null"} : param' = [param EXCEPT ![w] = NewParam(t, queue)]
      BY <2>1 DEF TaskCreated
    <3>1. /\ NewParam(t, queue).mem = "live" /\ NewParam(t, queue).queue = queue
          /\ NewParam(t, queue).func_ref = "held"
      BY DEF NewParam, NoParam
    <3>2. pc'[v] = "wait" /\ param'[v] = NewParam(t, queue)
      BY <2>1 DEF TaskCreated
    <3> QED
      BY <3>1, <3>2
  <2>2. CASE v = w /\ TaskRefused(w, t)
    BY <2>0, <2>2 DEF TaskRefused
  <2>3. CASE CreateFaults
    BY <2>3 DEF CreateFaults
  <2>4. CASE v # w
    BY <2>4 DEF TaskCreated, TaskRefused, CreateFaults
  <2> QED
    BY <2>1, <2>2, <2>3, <2>4
<1>3. ASSUME NEW w \in Workers,
             \/ L_TASK_START(w) \/ L_TASK_STOP(w) \/ L_TASK_SUSPEND(w) \/ L_TASK_RESUME(w)
      PROVE  LeakInvOf(v)' /\ IntactInvOf(v)'
  <2>1. pc' = pc /\ ud' = ud
    BY <1>3 DEF L_TASK_START, L_TASK_STOP, L_TASK_SUSPEND, L_TASK_RESUME
  <2>2. /\ param'[v].mem = param[v].mem /\ param'[v].queue = param[v].queue
        /\ param'[v].func_ref = param[v].func_ref
        /\ param[v].stop_flag => param'[v].stop_flag
    BY <1>3, BlockSteps DEF L_TASK_SUSPEND, L_TASK_RESUME, Dangles
  <2> QED
    BY <2>1, <2>2
<1>4. ASSUME NEW w \in Workers, L_TASK_GC(w) PROVE LeakInvOf(v)' /\ IntactInvOf(v)'
  <2>1. pc' = pc /\ ud[w] = "live" /\ (v # w => ud'[v] = ud[v])
    BY <1>4 DEF L_TASK_GC
  <2>2. \/ /\ v = w /\ param'[v].mem = "freed" /\ param'[v].func_ref = "released"
           /\ param'[v].stop_flag
           /\ param[v].queue = "deleted" => param'[v].queue = "deleted"
        \/ v # w /\ param'[v] = param[v]
    BY <1>4, BlockSteps
  <2> QED
    BY <2>1, <2>2
<1>5. CASE L_OS_REBOOT \/ Reboot
  BY <1>5 DEF L_OS_REBOOT, Reboot, Restart, NoParam
<1>6. ASSUME NEW w \in Workers, ReceiveTrigger(w) PROVE LeakInvOf(v)' /\ IntactInvOf(v)'
  BY <1>6 DEF ReceiveTrigger, At, Goto, Params
<1>7. ASSUME NEW w \in Workers, TestStopFlag(w) PROVE LeakInvOf(v)' /\ IntactInvOf(v)'
  <2>1. /\ pc[w] = "loop" /\ UNCHANGED <<param, ud>>
        /\ \/ pc' = [pc EXCEPT ![w] = "take"]
           \/ /\ pc' = [pc EXCEPT ![w] = "unref"]
              /\ param[w].mem = "live" => param[w].stop_flag
    BY <1>7 DEF TestStopFlag, At, Goto
  <2> QED
    BY <2>1
<1>8. ASSUME NEW w \in Workers,
             \/ TakeLuaMutex(w) \/ GiveLuaMutex(w) \/ DelayUntil(w) \/ ExitThread(w)
      PROVE  LeakInvOf(v)' /\ IntactInvOf(v)'
  <2>1. /\ UNCHANGED <<param, ud>>
        /\ \/ pc' = pc
           \/ \E l, m \in {"take", "call", "delay", "loop"} :
                 pc[w] = l /\ pc' = [pc EXCEPT ![w] = m]
           \/ pc[w] = "exit" /\ pc' = [pc EXCEPT ![w] = "gone"]
    BY <1>8 DEF TakeLuaMutex, GiveLuaMutex, DelayUntil, ExitThread, At, Goto
  <2> QED
    BY <2>1
<1>9. ASSUME NEW w \in Workers, UnrefCallback(w) \/ DeleteQueue(w) \/ FreeParam(w)
      PROVE  LeakInvOf(v)' /\ IntactInvOf(v)'
  <2>1. CASE UnrefCallback(w)
    BY <2>1 DEF UnrefCallback, At, Goto, Params
  <2>2. CASE DeleteQueue(w)
    BY <2>2 DEF DeleteQueue, At, Goto, Params
  <2>3. CASE FreeParam(w)
    BY <2>3 DEF FreeParam, At, Goto, Params
  <2> QED
    BY <1>9, <2>1, <2>2, <2>3
<1>10. CASE UNCHANGED vars
  BY <1>10 DEF vars
<1> QED
  BY <1>1, <1>2, <1>3, <1>4, <1>5, <1>6, <1>7, <1>8, <1>9, <1>10
     DEF Next, ScriptStep, WorkerRuns

LEMMA AnyInvInit == Init => AnyInv
<1> SUFFICES ASSUME Init, NEW w \in Workers PROVE LeakInvOf(w) /\ IntactInvOf(w)
  BY DEF AnyInv
<1>1. pc[w] = "none" /\ ud[w] = "none"
  BY DEF Init
<1> QED
  BY <1>1 DEF LeakInvOf, IntactInvOf

(* Whatever the scripts do, a worker that ends has given back its block,   *)
(* its queue and the reference to its callback.                            *)
THEOREM WorkersLeaveNothing == Spec => []NothingLeaks
<1>1. AnyInv => NothingLeaks
  BY DEF AnyInv, LeakInvOf, NothingLeaks
<1> QED
  BY <1>1, TypeCorrect, AnyInvInit, AnyInvStep, PTL DEF Spec

(* A use that is undefined is one of a task that was stopped, or of the    *)
(* lua_State beside a command.                                             *)
LEMMA DamageStep ==
    TypeOK /\ MutexOwner /\ AnyInv /\ DamageNeedsCause /\ [Next]_vars
        => DamageNeedsCause'
<1> SUFFICES ASSUME TypeOK, MutexOwner, AnyInv, DamageNeedsCause, [Next]_vars,
                    device' = "corrupt"
             PROVE  \/ \E w \in Workers : param'[w].stop_flag
                    \/ repl' = "running" /\ LuaShared'
  BY DEF DamageNeedsCause
<1>i. /\ \A w \in Workers : IntactInvOf(w)
      /\ param \in [Workers -> Params] /\ pc \in [Workers -> PCs]
  BY DEF AnyInv, TypeOK
<1>u. ASSUME NEW w \in Workers, NEW f, Uses(f, w),
             param[w].mem = "freed" \/ param[w].queue = "deleted"
      PROVE  param[w].stop_flag
  BY <1>i, <1>u DEF Uses, IntactInvOf
<1> USE DEF Up, threads
<1>1. CASE BootBegin \/ BootEnd \/ ReplBegin \/ ReplEnd \/ HeapPanic
  BY <1>1 DEF BootBegin, BootEnd, ReplBegin, ReplEnd, HeapPanic, NullOrAssert
<1>0. CASE LuaRace
  <2>1. UNCHANGED <<repl, pc, main, param>> /\ LuaShared
    BY <1>0 DEF LuaRace
  <2>2. repl = "running" \/ \E w \in Workers : pc[w] = "unref"
    BY <2>1, RaceNeedsOutsider
  <2>3. \A w \in Workers : pc[w] = "unref" => param[w].stop_flag
    BY <1>i DEF IntactInvOf
  <2> QED
    BY <2>1, <2>2, <2>3 DEF LuaShared, Inside
<1>2. ASSUME NEW w \in Workers, L_TASK_CREATE(w) PROVE FALSE
  BY <1>2 DEF L_TASK_CREATE, TaskCreated, TaskRefused, CreateFaults, NullOrAssert
<1>3. ASSUME NEW w \in Workers, L_TASK_START(w) PROVE param'[w].stop_flag
  <2>1. param[w].stop_flag
    BY <1>3, <1>u DEF L_TASK_START, Dangles, Uses
  <2> QED
    BY <1>3, <2>1, BlockSteps
<1>4. ASSUME NEW w \in Workers, L_TASK_STOP(w) PROVE param'[w].stop_flag
  <2>1. param[w].stop_flag
    BY <1>4, <1>u DEF L_TASK_STOP, Dangles, Uses
  <2> QED
    BY <1>4, <2>1, BlockSteps
<1>5. ASSUME NEW w \in Workers, L_TASK_SUSPEND(w) \/ L_TASK_RESUME(w)
      PROVE  param'[w].stop_flag
  <2>1. param[w].stop_flag /\ param' = param
    <3>1. CASE L_TASK_SUSPEND(w)
      BY <3>1, <1>u DEF L_TASK_SUSPEND, Dangles, Uses
    <3>2. CASE L_TASK_RESUME(w)
      BY <3>2, <1>u DEF L_TASK_RESUME, Dangles, Uses
    <3> QED
      BY <1>5, <3>1, <3>2
  <2> QED
    BY <2>1
<1>6. ASSUME NEW w \in Workers, L_TASK_GC(w) PROVE param'[w].stop_flag
  BY <1>6, BlockSteps
<1>7. CASE L_OS_REBOOT \/ Reboot
  BY <1>7 DEF L_OS_REBOOT, Reboot, Restart
<1>8. ASSUME NEW w \in Workers, ReceiveTrigger(w) PROVE param'[w].stop_flag
  BY <1>8, <1>i DEF ReceiveTrigger, At, NullOrAssert, IntactInvOf
<1>9. ASSUME NEW w \in Workers, TestStopFlag(w) \/ GiveLuaMutex(w) \/ ExitThread(w)
      PROVE  FALSE
  BY <1>9 DEF TestStopFlag, GiveLuaMutex, ExitThread, At
<1>10. ASSUME NEW w \in Workers, TakeLuaMutex(w) PROVE param'[w].stop_flag
  BY <1>10, <1>i DEF TakeLuaMutex, At, IntactInvOf
<1>11. ASSUME NEW w \in Workers, DelayUntil(w) PROVE FALSE
  BY <1>11 DEF DelayUntil, At, NullOrAssert
<1>12. ASSUME NEW w \in Workers, UnrefCallback(w) \/ DeleteQueue(w) \/ FreeParam(w)
       PROVE  param'[w].stop_flag
  <2>1. param[w].stop_flag
    BY <1>12, <1>i DEF UnrefCallback, DeleteQueue, FreeParam, At, IntactInvOf
  <2> QED
    BY <1>12, <2>1, <1>i DEF UnrefCallback, DeleteQueue, FreeParam, Params
<1>13. CASE UNCHANGED vars
  BY <1>13 DEF vars, DamageNeedsCause, LuaShared, Inside
<1> QED
  BY <1>0, <1>1, <1>2, <1>3, <1>4, <1>5, <1>6, <1>7, <1>8, <1>9, <1>10, <1>11, <1>12,
     <1>13
     DEF Next, ScriptStep, WorkerRuns

(* Failed allocations and short periods may bring the device down, but     *)
(* the memory is damaged only after a task was stopped or its handle was   *)
(* dropped, or by a command beside another thread in Lua.                  *)
THEOREM DamageHasCause == Spec => []DamageNeedsCause
<1>1. Init => DamageNeedsCause
  BY DEF Init, DamageNeedsCause
<1> QED
  BY <1>1, TypeCorrect, MutexOwned, AnyInvInit, AnyInvStep, DamageStep, PTL DEF Spec
=============================================================================
