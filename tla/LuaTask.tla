------------------------------ MODULE LuaTask ------------------------------
(***************************************************************************)
(* The task library of the Lua CLI (components/FOS/fos_task.c) with the    *)
(* luaMutex that app_main creates (main/Core_Level.c): worker threads that *)
(* each run one Lua callback periodically, the script calls that create,   *)
(* start, stop, suspend and resume them, the collector that finalises a    *)
(* dropped handle, and the two other threads that run Lua: app_main (the   *)
(* boot script, under luaMutex) and the REPL (without it).  The REPL, and  *)
(* the luaL_unref at the end of a worker, may meet another thread in the   *)
(* one lua_State they all use.                                             *)
(*                                                                         *)
(* A use of memory that has been given back is undefined: the device goes  *)
(* on unharmed, or with a damaged heap ("corrupt"), or panics; so are two  *)
(* threads in the lua_State, for as long as both are in it.  A damaged     *)
(* heap is followed only to the panic it leads to.  A panic reboots.       *)
(***************************************************************************)
EXTENDS Integers

CONSTANTS
    Workers,        \* the task.create calls of a script, one thread each
    AppMain,        \* the main task as an owner of luaMutex
    Free,           \* the owner of luaMutex when nobody has it
    QueueLen,       \* length of a trigger queue (10 in the code)
    TickPeriodMs,   \* portTICK_PERIOD_MS
    TimerArgs,      \* the periods, in ms, scripts ask for
    HeapCanRunOut,  \* whether allocations may fail
    Script,         \* which calls the scripts make, see Calls
    HandlesReused   \* whether scripts go on using a handle after stop

Calls == {"start", "stop", "suspend", "resume", "gc", "reboot"}

ASSUME OwnersDistinct == AppMain # Free /\ {AppMain, Free} \cap Workers = {}
ASSUME SizesAssumption ==
    /\ QueueLen \in Nat \ {0} /\ TickPeriodMs \in Nat \ {0}
    /\ TimerArgs \subseteq Nat
ASSUME ScriptAssumption ==
    Script \subseteq Calls /\ HeapCanRunOut \in BOOLEAN /\ HandlesReused \in BOOLEAN

VARIABLES
    device,     \* "up", "corrupt" (heap damaged) or "panic"
    main,       \* app_main: "init", running the boot "script", "done"
    repl,       \* the REPL thread: "idle" or "running" a command
    luaMutex,   \* its owner, or Free
    pc,         \* where each worker thread is in lua_task
    param,      \* the lua_task_param_t block of each task
    suspended,  \* whether vTaskSuspend holds the thread
    ud,         \* the handle: "none", "live" or "collected"
    late        \* history: callbacks begun after stop_flag was set (up to 2)

threads == <<main, repl>>
vars == <<device, threads, luaMutex, pc, param, suspended, ud, late>>

PCs == {"none", "failed", "wait", "loop", "take", "call", "delay",
        "unref", "qdel", "free", "exit", "gone"}
Params == [mem : {"none", "live", "freed"}, stop_flag : BOOLEAN,
           queue : {"none", "null", "live", "deleted"},
           triggers : 0..QueueLen, timer : Nat,
           func_ref : {"none", "held", "released"}]
NoParam == [mem |-> "none", stop_flag |-> FALSE, queue |-> "none",
            triggers |-> 0, timer |-> 0, func_ref |-> "none"]

TypeOK ==
    /\ device \in {"up", "corrupt", "panic"}
    /\ main \in {"init", "script", "done"}
    /\ repl \in {"idle", "running"}
    /\ luaMutex \in Workers \cup {AppMain, Free}
    /\ pc \in [Workers -> PCs]
    /\ param \in [Workers -> Params]
    /\ suspended \in [Workers -> BOOLEAN]
    /\ ud \in [Workers -> {"none", "live", "collected"}]
    /\ late \in [Workers -> 0..2]

Init ==
    /\ device = "up"
    /\ main = "init"
    /\ repl = "idle"
    /\ luaMutex = Free
    /\ pc = [w \in Workers |-> "none"]
    /\ param = [w \in Workers |-> NoParam]
    /\ suspended = [w \in Workers |-> FALSE]
    /\ ud = [w \in Workers |-> "none"]
    /\ late = [w \in Workers |-> 0]

Up == device = "up"
Undefined == device' \in {"up", "corrupt", "panic"}
NullOrAssert == device' = "panic"

-----------------------------------------------------------------------------
(* The threads that run Lua.                                               *)

\* app_main takes luaMutex and runs /home/boot.lua
BootBegin ==
    /\ Up /\ main = "init" /\ luaMutex = Free
    /\ luaMutex' = AppMain
    /\ main' = "script"
    /\ UNCHANGED <<device, repl, pc, param, suspended, ud, late>>

BootEnd ==
    /\ Up /\ main = "script"
    /\ luaMutex' = Free
    /\ main' = "done"
    /\ UNCHANGED <<device, repl, pc, param, suspended, ud, late>>

\* _HandleLuaCommand, created by app_main last, calls lua_pcall
ReplBegin ==
    /\ Up /\ main = "done" /\ repl = "idle"
    /\ repl' = "running"
    /\ UNCHANGED <<device, main, luaMutex, pc, param, suspended, ud, late>>

ReplEnd ==
    /\ Up /\ repl = "running"
    /\ repl' = "idle"
    /\ UNCHANGED <<device, main, luaMutex, pc, param, suspended, ud, late>>

InCallback(w) == pc[w] = "call"
LuaRuns == \/ main = "script"
           \/ repl = "running"
           \/ \E w \in Workers : InCallback(w) /\ ~suspended[w]

\* a worker is in the lua_State, suspended or not: in its callback, or in the
\* luaL_unref that it reaches without luaMutex
Inside(w) == pc[w] \in {"call", "unref"}
LuaShared ==
    \/ \E v, w \in Workers : v # w /\ Inside(v) /\ Inside(w)
    \/ (main = "script" \/ repl = "running") /\ \E w \in Workers : Inside(w)

\* lua_pcall beside lua_pcall or luaL_unref: the stack of the lua_State, its
\* registry and its heap are written by both, at any time while both are there
LuaRace ==
    /\ Up /\ LuaShared
    /\ device' \in {"corrupt", "panic"}
    /\ UNCHANGED <<threads, luaMutex, pc, param, suspended, ud, late>>

-----------------------------------------------------------------------------
(* The calls a script makes.                                               *)

\* variant: 0 is not replaced by the default
Timer_noDefault(t) == t

\* the argument of task.create, 0 meaning the default
Timer(t) == IF t = 0 THEN 100 ELSE t

\* param is allocated, and so is its queue unless the heap has run out
NewParam(t, queue) ==
    [NoParam EXCEPT !.mem = "live", !.queue = queue,
                    !.timer = Timer(t), !.func_ref = "held"]

TaskCreated(w, t) ==
    \E queue \in {"live"} \cup (IF HeapCanRunOut THEN {"null"} ELSE {}) :
        /\ param' = [param EXCEPT ![w] = NewParam(t, queue)]
        /\ pc' = [pc EXCEPT ![w] = "wait"]
        /\ ud' = [ud EXCEPT ![w] = "live"]
        /\ UNCHANGED device

\* variant: the handle is returned although xTaskCreate failed
TaskRefused_handle(w, t) ==
    /\ HeapCanRunOut
    /\ param' = [param EXCEPT ![w] = [NewParam(t, "deleted") EXCEPT !.mem = "freed"]]
    /\ pc' = [pc EXCEPT ![w] = "failed"]
    /\ ud' = [ud EXCEPT ![w] = "live"]
    /\ UNCHANGED device

\* xTaskCreate fails: the block goes, the callback's reference stays
TaskRefused(w, t) ==
    /\ HeapCanRunOut
    /\ param' = [param EXCEPT ![w] = [NewParam(t, "deleted") EXCEPT !.mem = "freed"]]
    /\ pc' = [pc EXCEPT ![w] = "failed"]
    /\ UNCHANGED <<device, ud>>

\* malloc returns NULL, or vQueueDelete is given the NULL of xQueueCreate
CreateFaults ==
    HeapCanRunOut /\ NullOrAssert /\ UNCHANGED <<pc, param, ud>>

L_TASK_CREATE(w) ==
    /\ Up /\ LuaRuns /\ pc[w] = "none"
    /\ \E t \in TimerArgs : TaskCreated(w, t) \/ TaskRefused(w, t) \/ CreateFaults
    /\ UNCHANGED <<threads, luaMutex, suspended, late>>

\* the script calls f on the handle of w
Uses(f, w) ==
    /\ Up /\ LuaRuns /\ f \in Script /\ ud[w] = "live"
    /\ HandlesReused \/ ~param[w].stop_flag

\* check_task returns a pointer to a block that has been given back
Dangles(w) ==
    /\ param[w].mem = "freed"
    /\ Undefined
    /\ UNCHANGED <<param, suspended>>

\* variant: the queue is written past its end
L_TASK_START_overruns(w) ==
    /\ Uses("start", w)
    /\ param[w].mem = "live" /\ param[w].triggers =< QueueLen
    /\ param' = [param EXCEPT ![w].triggers = @ + 1]
    /\ UNCHANGED <<device, threads, luaMutex, pc, suspended, ud, late>>

L_TASK_START(w) ==
    /\ Uses("start", w)
    /\ \/ Dangles(w)
       \/ /\ param[w].mem = "live" /\ param[w].queue = "deleted"
          /\ Undefined
          /\ UNCHANGED <<param, suspended>>
       \/ /\ param[w].mem = "live" /\ param[w].queue = "live"
          /\ param[w].triggers < QueueLen   \* a full queue drops the trigger
          /\ param' = [param EXCEPT ![w].triggers = @ + 1]
          /\ UNCHANGED <<device, suspended>>
    /\ UNCHANGED <<threads, luaMutex, pc, ud, late>>

L_TASK_STOP(w) ==
    /\ Uses("stop", w)
    /\ \/ Dangles(w)
       \/ /\ param[w].mem = "live"
          /\ param' = [param EXCEPT ![w].stop_flag = TRUE]
          /\ UNCHANGED <<device, suspended>>
    /\ UNCHANGED <<threads, luaMutex, pc, ud, late>>

L_TASK_SUSPEND(w) ==
    /\ Uses("suspend", w)
    /\ \/ Dangles(w)
       \/ /\ param[w].mem = "live"
          /\ suspended' = [suspended EXCEPT ![w] = TRUE]
          /\ UNCHANGED <<device, param>>
    /\ UNCHANGED <<threads, luaMutex, pc, ud, late>>

L_TASK_RESUME(w) ==
    /\ Uses("resume", w)
    /\ \/ Dangles(w)
       \/ /\ param[w].mem = "live"
          /\ suspended' = [suspended EXCEPT ![w] = FALSE]
          /\ UNCHANGED <<device, param>>
    /\ UNCHANGED <<threads, luaMutex, pc, ud, late>>

\* what giving back a block (by its worker or by the collector) leaves
Released(p) ==
    [p EXCEPT !.mem = "freed", !.func_ref = "released",
              !.queue = IF p.queue = "null" THEN "null" ELSE "deleted"]

\* the collector finalises a handle the script has dropped
L_TASK_GC(w) ==
    /\ Up /\ LuaRuns /\ "gc" \in Script /\ ud[w] = "live"
    /\ ud' = [ud EXCEPT ![w] = "collected"]
    /\ param' = [param EXCEPT ![w] = [Released(@) EXCEPT !.stop_flag = TRUE]]
    /\ IF /\ param[w].mem = "live" /\ param[w].queue # "deleted"
          /\ param[w].func_ref = "held"
         THEN UNCHANGED device
         ELSE Undefined
    /\ UNCHANGED <<threads, luaMutex, pc, suspended, late>>

\* esp_restart: RAM is lost, app_main starts again
Restart ==
    /\ device' = "up"
    /\ main' = "init"
    /\ repl' = "idle"
    /\ luaMutex' = Free
    /\ pc' = [w \in Workers |-> "none"]
    /\ param' = [w \in Workers |-> NoParam]
    /\ suspended' = [w \in Workers |-> FALSE]
    /\ ud' = [w \in Workers |-> "none"]
    /\ late' = [w \in Workers |-> 0]

L_OS_REBOOT == Up /\ LuaRuns /\ "reboot" \in Script /\ Restart

-----------------------------------------------------------------------------
(* lua_task, the worker thread.                                            *)

At(w, label) == Up /\ pc[w] = label /\ ~suspended[w]
Goto(w, label) == pc' = [pc EXCEPT ![w] = label]

\* xQueueReceive(param->queue, portMAX_DELAY)
ReceiveTrigger(w) ==
    /\ At(w, "wait")
    /\ \/ /\ param[w].mem = "live" /\ param[w].queue = "live"
          /\ param[w].triggers > 0
          /\ param' = [param EXCEPT ![w].triggers = @ - 1]
          /\ Goto(w, "loop")
          /\ UNCHANGED device
       \/ /\ param[w].mem = "live" /\ param[w].queue = "null"
          /\ NullOrAssert
          /\ UNCHANGED <<pc, param>>
       \/ /\ param[w].mem = "freed"
          /\ Undefined
          /\ UNCHANGED <<pc, param>>
    /\ UNCHANGED <<threads, luaMutex, suspended, ud, late>>

\* variant: for (;;)
TestStopFlag_never(w) ==
    /\ At(w, "loop")
    /\ Goto(w, "take")
    /\ UNCHANGED <<device, threads, luaMutex, param, suspended, ud, late>>

\* while (!param->stop_flag): a freed block may hold anything
TestStopFlag(w) ==
    /\ At(w, "loop")
    /\ \E stop \in IF param[w].mem = "live" THEN {param[w].stop_flag} ELSE BOOLEAN :
           Goto(w, IF stop THEN "unref" ELSE "take")
    /\ UNCHANGED <<device, threads, luaMutex, param, suspended, ud, late>>

\* variant: the wait for luaMutex times out, and the result is ignored
TakeLuaMutex_timesOut(w) ==
    /\ At(w, "take")
    /\ luaMutex' = w
    /\ Goto(w, "call")
    /\ UNCHANGED <<device, threads, param, suspended, ud, late>>

\* xSemaphoreTake(luaMutex), then the callback of func_ref starts
TakeLuaMutex(w) ==
    /\ At(w, "take") /\ luaMutex = Free
    /\ luaMutex' = w
    /\ Goto(w, "call")
    /\ late' = [late EXCEPT ![w] =
                  IF param[w].stop_flag /\ @ < 2 THEN @ + 1 ELSE @]
    /\ IF param[w].mem = "live" THEN UNCHANGED device ELSE Undefined
    /\ UNCHANGED <<threads, param, suspended, ud>>

\* variant: an error ends the worker
GiveLuaMutex_breaks(w) ==
    /\ At(w, "call")
    /\ luaMutex' = Free
    /\ \E l \in {"delay", "unref"} : Goto(w, l)
    /\ UNCHANGED <<device, threads, param, suspended, ud, late>>

\* variant: an error leaves the loop body before xSemaphoreGive
GiveLuaMutex_keeps(w) ==
    /\ At(w, "call")
    /\ \E m \in {Free, w} : luaMutex' = m
    /\ Goto(w, "delay")
    /\ UNCHANGED <<device, threads, param, suspended, ud, late>>

\* the callback returns, or its error is logged and popped
GiveLuaMutex(w) ==
    /\ At(w, "call")
    /\ luaMutex' = Free
    /\ Goto(w, "delay")
    /\ UNCHANGED <<device, threads, param, suspended, ud, late>>

\* vTaskDelayUntil asserts that its period is not 0 ticks
DelayUntil(w) ==
    /\ At(w, "delay")
    /\ IF param[w].timer \div TickPeriodMs = 0
         THEN NullOrAssert /\ UNCHANGED pc
         ELSE Goto(w, "loop") /\ UNCHANGED device
    /\ UNCHANGED <<threads, luaMutex, param, suspended, ud, late>>

\* the clean-up: luaL_unref, vQueueDelete, free, vTaskDelete(NULL)
UnrefCallback(w) ==
    /\ At(w, "unref")
    /\ param' = [param EXCEPT ![w].func_ref = "released"]
    /\ Goto(w, "qdel")
    /\ IF param[w].mem = "live" /\ param[w].func_ref = "held"
         THEN UNCHANGED device ELSE Undefined
    /\ UNCHANGED <<threads, luaMutex, suspended, ud, late>>

\* variant: the queue is left behind
DeleteQueue_forgotten(w) ==
    /\ At(w, "qdel")
    /\ Goto(w, "free")
    /\ UNCHANGED <<device, threads, luaMutex, param, suspended, ud, late>>

DeleteQueue(w) ==
    /\ At(w, "qdel")
    /\ param' = [param EXCEPT ![w].queue = "deleted"]
    /\ Goto(w, "free")
    /\ IF param[w].mem = "live" /\ param[w].queue = "live"
         THEN UNCHANGED device ELSE Undefined
    /\ UNCHANGED <<threads, luaMutex, suspended, ud, late>>

FreeParam(w) ==
    /\ At(w, "free")
    /\ param' = [param EXCEPT ![w].mem = "freed"]
    /\ Goto(w, "exit")
    /\ IF param[w].mem = "live" THEN UNCHANGED device ELSE Undefined
    /\ UNCHANGED <<threads, luaMutex, suspended, ud, late>>

ExitThread(w) ==
    /\ At(w, "exit")
    /\ Goto(w, "gone")
    /\ UNCHANGED <<device, threads, luaMutex, param, suspended, ud, late>>

-----------------------------------------------------------------------------
\* a damaged heap is found out sooner or later
HeapPanic ==
    /\ device = "corrupt"
    /\ NullOrAssert
    /\ UNCHANGED <<threads, luaMutex, pc, param, suspended, ud, late>>

Reboot == device = "panic" /\ Restart

ScriptStep ==
    \/ \E w \in Workers :
         \/ L_TASK_CREATE(w) \/ L_TASK_START(w) \/ L_TASK_STOP(w)
         \/ L_TASK_SUSPEND(w) \/ L_TASK_RESUME(w) \/ L_TASK_GC(w)
    \/ L_OS_REBOOT

\* a thread that can go on without luaMutex
WorkerRuns(w) ==
    \/ ReceiveTrigger(w) \/ TestStopFlag(w) \/ GiveLuaMutex(w) \/ DelayUntil(w)
    \/ UnrefCallback(w) \/ DeleteQueue(w) \/ FreeParam(w) \/ ExitThread(w)

Next ==
    \/ BootBegin \/ BootEnd \/ ReplBegin \/ ReplEnd \/ LuaRace
    \/ ScriptStep
    \/ \E w \in Workers : WorkerRuns(w) \/ TakeLuaMutex(w)
    \/ HeapPanic \/ Reboot

Spec == Init /\ [][Next]_vars

(***************************************************************************)
(* FreeRTOS runs every ready thread: the workers of a script have one      *)
(* priority and block in vTaskDelayUntil between callbacks.  The waiters   *)
(* of a mutex get it in turn.  The boot script and the callbacks end.      *)
(***************************************************************************)
Fairness ==
    /\ WF_vars(BootBegin) /\ WF_vars(BootEnd)
    /\ WF_vars(HeapPanic) /\ WF_vars(Reboot)
    /\ \A w \in Workers : WF_vars(WorkerRuns(w)) /\ SF_vars(TakeLuaMutex(w))

FairSpec == Spec /\ Fairness

-----------------------------------------------------------------------------
(* Properties.                                                             *)

\* Scripts that keep within what the library can bear: handles are kept for
\* ever, never used after stop, memory suffices, and no period is below a tick.
Disciplined ==
    /\ "gc" \notin Script /\ ~HandlesReused /\ ~HeapCanRunOut
    /\ \A t \in TimerArgs : Timer(t) >= TickPeriodMs

\* The callbacks of the tasks and the boot script never overlap: this is what
\* luaMutex is for, in lua_task and in app_main, whatever the scripts do and
\* whoever is suspended, stopped or collected meanwhile.  (The REPL and the
\* end of a worker are in Lua without it: LuaShared.)
CallbacksSerialised ==
    /\ \A v, w \in Workers : InCallback(v) /\ InCallback(w) => v = w
    /\ main = "script" => \A w \in Workers : ~InCallback(w)

\* Memory is never used after it was given back, nor given back twice, nor is
\* an assertion of FreeRTOS hit: the one thing that can bring the device down
\* is that two threads are in the lua_State at once, and one of the two is then
\* the REPL with a command or a worker at luaL_unref, which take no luaMutex.
\* (True of disciplined scripts only: the worker and the collector both free
\* the block.)
OnlyRacesHurt ==
    device # "up" =>
        LuaShared /\ (repl = "running" \/ \E w \in Workers : pc[w] = "unref")

\* As long as a worker may still look at its block, the block, the queue and
\* the reference to the callback are there.
BlockOutlivesWorker ==
    \A w \in Workers :
        /\ pc[w] \in {"wait", "loop", "take", "call", "delay", "unref"}
             => param[w].mem = "live" /\ param[w].queue = "live"
                /\ param[w].func_ref = "held"
        /\ pc[w] \in {"qdel", "free"} => param[w].mem = "live"

\* task.stop is not immediate, but at most one callback begins after it:
\* the one whose worker had already tested stop_flag.
StopBound == \A w \in Workers : ud[w] = "live" => late[w] =< 1

\* Nothing is lost by a worker that ends: its block, queue and reference are
\* released by the time the thread is gone.
NothingLeaks ==
    \A w \in Workers : pc[w] = "gone" =>
        /\ param[w].mem = "freed" /\ param[w].queue = "deleted"
        /\ param[w].func_ref = "released"

\* Only a script that has stopped a task, or dropped a handle (which stops the
\* task), or a command typed while another thread is in Lua, can damage the
\* heap: failed allocations alone do not.
DamageNeedsCause ==
    device = "corrupt" =>
        (\E w \in Workers : param[w].stop_flag) \/ (repl = "running" /\ LuaShared)

\* A task that was started and stopped gets out of its loop and cleans up,
\* however tasks compete for luaMutex.  (A suspended task may hold it for ever.)
StoppedWorkerEnds ==
    \A w \in Workers :
        (/\ param[w].stop_flag
         /\ param[w].triggers > 0 \/ pc[w] \notin {"none", "failed", "wait"})
            ~> (pc[w] \in {"gone", "none"} \/ \E v \in Workers : suspended[v])

\* A task that was started runs its callback, unless it is stopped first, the
\* device is restarted or a task is suspended.
StartedTaskRuns ==
    \A w \in Workers :
        (pc[w] = "wait" /\ param[w].triggers > 0)
            ~> (\/ InCallback(w) \/ param[w].stop_flag \/ pc[w] = "none"
                \/ \E v \in Workers : suspended[v])

-----------------------------------------------------------------------------
(* The promise this module keeps.                                          *)

statusOf(l) ==
    CASE l = "none" -> "absent"
      [] l = "failed" -> "refused"
      [] l = "wait" -> "armed"
      [] l \in {"loop", "take", "call", "delay"} -> "active"
      [] OTHER -> "ended"
statusBar == [w \in Workers |-> statusOf(pc[w])]
runningBar ==
    {w \in Workers : InCallback(w)} \cup (IF main = "script" THEN {AppMain} ELSE {})
stoppedBar == {w \in Workers : param[w].stop_flag}
graceBar == [w \in Workers |-> 1 - late[w]]

Promise == INSTANCE TaskLibrary
    WITH Boot <- AppMain, status <- statusBar, running <- runningBar,
         stopped <- stoppedBar, grace <- graceBar

\* The program, used with discipline, is an implementation of TaskLibrary.
KeepsPromise == Promise!Spec
=============================================================================
