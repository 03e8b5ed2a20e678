---------------------------- MODULE TaskLibrary ----------------------------
(***************************************************************************)
(* What the Lua "task" library promises a script, without threads, blocks  *)
(* of memory or semaphores: a task is created, armed by its first start,   *)
(* runs its callback again and again until it is stopped, and then ends.   *)
(* Callbacks, and the boot script, run one at a time; a stop that arrives  *)
(* while a task is about to run allows it that one run and no other.       *)
(* LuaTask is the program; it implements this module.                      *)
(***************************************************************************)
EXTENDS Naturals

CONSTANTS Workers,  \* the tasks a script may create
          Boot      \* the boot script, which runs before the tasks do

VARIABLES status,   \* where each task is in its life
          running,  \* who runs Lua code under the library's protection
          stopped,  \* the tasks task.stop was called on
          grace     \* callbacks a stopped task may still begin

vars == <<status, running, stopped, grace>>

Init ==
    /\ status = [w \in Workers |-> "absent"]
    /\ running = {}
    /\ stopped = {}
    /\ grace = [w \in Workers |-> 1]

\* task.create: a task, or nil when the device has no memory for it
Create(w) ==
    /\ status[w] = "absent"
    /\ \E s \in {"armed", "refused"} : status' = [status EXCEPT ![w] = s]
    /\ UNCHANGED <<running, stopped, grace>>

\* the first task.start reaches the task
Activate(w) ==
    /\ status[w] = "armed"
    /\ status' = [status EXCEPT ![w] = "active"]
    /\ UNCHANGED <<running, stopped, grace>>

Stop(w) ==
    /\ status[w] \in {"armed", "active"}
    /\ stopped' = stopped \cup {w}
    /\ UNCHANGED <<status, running, grace>>

Begin(w) ==
    /\ status[w] = "active"
    /\ running = {}
    /\ w \in stopped => grace[w] > 0
    /\ running' = {w}
    /\ grace' = IF w \in stopped THEN [grace EXCEPT ![w] = @ - 1] ELSE grace
    /\ UNCHANGED <<status, stopped>>

Finish(w) ==
    /\ running = {w}
    /\ running' = {}
    /\ UNCHANGED <<status, stopped, grace>>

\* only a task that was stopped ends
End(w) ==
    /\ status[w] = "active"
    /\ w \in stopped \ running
    /\ status' = [status EXCEPT ![w] = "ended"]
    /\ UNCHANGED <<running, stopped, grace>>

BootBegins ==
    /\ running = {}
    /\ running' = {Boot}
    /\ UNCHANGED <<status, stopped, grace>>

BootEnds ==
    /\ running = {Boot}
    /\ running' = {}
    /\ UNCHANGED <<status, stopped, grace>>

\* the device restarts: every task is forgotten
Restart ==
    /\ status' = [w \in Workers |-> "absent"]
    /\ running' = {}
    /\ stopped' = {}
    /\ grace' = [w \in Workers |-> 1]

Next ==
    \/ \E w \in Workers : \/ Create(w) \/ Activate(w) \/ Stop(w)
                          \/ Begin(w) \/ Finish(w) \/ End(w)
    \/ BootBegins
    \/ BootEnds
    \/ Restart

Spec == Init /\ [][Next]_vars
=============================================================================
