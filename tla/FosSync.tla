------------------------------ MODULE FosSync ------------------------------
(***************************************************************************)
(* The objects scripts synchronise with: fos.mutex, fos.semaphore and      *)
(* fos.queue (components/FOS/fos_mutex.c, fos_semaphore.c, fos_queue.c).   *)
(* Their calls wait without limit (portMAX_DELAY), and a callback or the   *)
(* boot script that waits goes on owning luaMutex, which keeps every other *)
(* callback out.  Only the REPL runs Lua without luaMutex.                 *)
(*                                                                         *)
(* Tasks are those of LuaTask, cut down to what matters here: a thread is  *)
(* outside Lua or in it.  Semaphores and queues are counters: values are   *)
(* left out.                                                               *)
(***************************************************************************)
EXTENDS Integers

CONSTANTS
    Workers, AppMain, Repl,     \* the threads that run Lua
    Free,                       \* the owner of a mutex when nobody has it
    Mutexes, Semaphores, Queues,
    SemMax, QueueLen            \* the sizes scripts ask for

Threads == Workers \cup {AppMain, Repl}
Counters == Semaphores \cup Queues
Objects == Mutexes \cup Counters

ASSUME ThreadsDistinct ==
    AppMain # Repl /\ {AppMain, Repl} \cap Workers = {} /\ Free \notin Threads
ASSUME ObjectsDistinct ==
    Mutexes \cap Counters = {} /\ Semaphores \cap Queues = {}
ASSUME CapacitiesPositive == SemMax \in Nat \ {0} /\ QueueLen \in Nat \ {0}

VARIABLES
    device,     \* "up" or "panic"
    luaMutex,   \* its owner, or Free
    at,         \* "none" (not created), "out" of Lua, "in" Lua, "gone"
    call,       \* the call each thread in Lua is making, or NoCall
    made,       \* the objects that exist
    owner,      \* of each script mutex, or Free
    level,      \* tokens of a semaphore, values in a queue
    careful     \* whether the scripts keep the rules of Careful

vars == <<device, luaMutex, at, call, made, owner, level, careful>>

Ops(o) == CASE o \in Mutexes -> {"lock", "unlock"}
            [] o \in Semaphores -> {"take", "give"}
            [] o \in Queues -> {"send", "receive"}
AllOps == {"lock", "unlock", "take", "give", "send", "receive"}
NoCall == [op |-> "none"]
CallTo == [op : AllOps, on : Objects]
Cap(c) == IF c \in Semaphores THEN SemMax ELSE QueueLen

TypeOK ==
    /\ device \in {"up", "panic"}
    /\ luaMutex \in Threads \cup {Free}
    /\ at \in [Threads -> {"none", "out", "in", "gone"}]
    /\ call \in [Threads -> CallTo \cup {NoCall}]
    /\ made \subseteq Objects
    /\ owner \in [Mutexes -> Threads \cup {Free}]
    /\ level \in [Counters -> Nat] /\ \A c \in Counters : level[c] =< Cap(c)
    /\ careful \in BOOLEAN

Start(d, l, a, c, o, w, n) ==
    /\ d = "up"
    /\ l = Free
    /\ a = [t \in Threads |-> IF t = AppMain THEN "out" ELSE "none"]
    /\ c = [t \in Threads |-> NoCall]
    /\ o = {}
    /\ w = [m \in Mutexes |-> Free]
    /\ n = [x \in Counters |-> 0]

Init ==
    /\ Start(device, luaMutex, at, call, made, owner, level)
    /\ careful \in BOOLEAN

-----------------------------------------------------------------------------
(* Threads enter and leave Lua.                                            *)

Up == device = "up"
Idle(t) == Up /\ at[t] = "in" /\ call[t] = NoCall
Holds(t, m) == owner[m] = t
HoldsNone(t) == \A m \in Mutexes : ~Holds(t, m)

\* variant: callbacks are run without luaMutex
EnterLua_unlocked(t) ==
    /\ Up /\ at[t] = "out"
    /\ luaMutex' = IF luaMutex = Free THEN t ELSE luaMutex
    /\ at' = [at EXCEPT ![t] = "in"]
    /\ UNCHANGED <<device, call, made, owner, level, careful>>

\* lua_task and app_main take luaMutex around Lua, _HandleLuaCommand does not
EnterLua(t) ==
    /\ Up /\ at[t] = "out"
    /\ IF t = Repl THEN UNCHANGED luaMutex
                   ELSE luaMutex = Free /\ luaMutex' = t
    /\ at' = [at EXCEPT ![t] = "in"]
    /\ UNCHANGED <<device, call, made, owner, level, careful>>

\* a callback or a command is over, or has failed
LeaveLua(t) ==
    /\ Idle(t) /\ t # AppMain
    /\ careful => HoldsNone(t)
    /\ luaMutex' = IF t = Repl THEN luaMutex ELSE Free
    /\ at' = [at EXCEPT ![t] = "out"]
    /\ UNCHANGED <<device, call, made, owner, level, careful>>

\* the boot script is over: app_main creates the interpreter and returns
BootEnd ==
    /\ Idle(AppMain)
    /\ careful => HoldsNone(AppMain)
    /\ luaMutex' = Free
    /\ at' = [at EXCEPT ![AppMain] = "gone", ![Repl] = "out"]
    /\ UNCHANGED <<device, call, made, owner, level, careful>>

\* task.create and start
CreateWorker(w) ==
    /\ at[w] = "none" /\ \E t \in Threads : Idle(t)
    /\ at' = [at EXCEPT ![w] = "out"]
    /\ UNCHANGED <<device, luaMutex, call, made, owner, level, careful>>

\* a stopped worker ends; a mutex it owns stays locked
WorkerEnds(w) ==
    /\ Up /\ at[w] = "out"
    /\ at' = [at EXCEPT ![w] = "gone"]
    /\ UNCHANGED <<device, luaMutex, call, made, owner, level, careful>>

-----------------------------------------------------------------------------
(* The calls.                                                              *)

\* L_MUTEX_CREATE, L_SEM_CREATE, L_QUEUE_CREATE: free or empty; if memory has
\* run out, create returns nil and there is no object
Create(o) ==
    /\ o \notin made /\ \E t \in Threads : Idle(t)
    /\ made' = made \cup {o}
    /\ UNCHANGED <<device, luaMutex, at, call, owner, level, careful>>

(***************************************************************************)
(* What a script with care does: it looks at what create returned, unlocks *)
(* before it returns what it locked itself, and leaves waiting for others  *)
(* to the REPL, which waits only while it has no mutex.                    *)
(***************************************************************************)
Waiting == {"lock", "take", "send", "receive"}
Careful(t, op, o) ==
    /\ op = "unlock" => Holds(t, o)
    /\ op = "lock" => ~Holds(t, o)
    /\ op \in Waiting => IF t = Repl THEN HoldsNone(t) ELSE op = "lock"

Call(t, op, o) ==
    /\ Idle(t) /\ o \in made
    /\ op \in Ops(o)
    /\ careful => Careful(t, op, o)
    /\ call' = [call EXCEPT ![t] = [op |-> op, on |-> o]]
    /\ UNCHANGED <<device, luaMutex, at, made, owner, level, careful>>

\* t is in the function op of o
In(t, op, o) == Up /\ call[t] = [op |-> op, on |-> o]
Return(t) == call' = [call EXCEPT ![t] = NoCall]

L_MUTEX_LOCK(t, m) ==
    /\ In(t, "lock", m) /\ owner[m] = Free
    /\ owner' = [owner EXCEPT ![m] = t]
    /\ Return(t)
    /\ UNCHANGED <<device, luaMutex, at, made, level, careful>>

\* variant: the mutex stays locked
L_MUTEX_UNLOCK_keeps(t, m) ==
    /\ In(t, "unlock", m)
    /\ Return(t)
    /\ UNCHANGED <<device, luaMutex, at, made, owner, level, careful>>

\* to unlock the mutex of another thread trips an assertion of FreeRTOS;
\* to unlock one that is not locked does nothing
L_MUTEX_UNLOCK(t, m) ==
    /\ In(t, "unlock", m)
    /\ \/ /\ Holds(t, m) \/ owner[m] = Free
          /\ owner' = [owner EXCEPT ![m] = Free]
          /\ UNCHANGED device
       \/ /\ owner[m] \notin {t, Free}
          /\ device' = "panic"
          /\ UNCHANGED owner
    /\ Return(t)
    /\ UNCHANGED <<luaMutex, at, made, level, careful>>

\* a semaphore or queue changes by n and the call returns
Moves(t, c, n) ==
    /\ level' = [level EXCEPT ![c] = @ + n]
    /\ Return(t)
    /\ UNCHANGED <<device, luaMutex, at, made, owner, careful>>

\* variant: the wait has a limit, and nobody looks whether it was reached
L_SEM_TAKE_timesOut(t, s) ==
    /\ In(t, "take", s)
    /\ Moves(t, s, IF level[s] > 0 THEN -1 ELSE 0)

L_SEM_TAKE(t, s) == In(t, "take", s) /\ level[s] > 0 /\ Moves(t, s, -1)

\* variant: more tokens than the semaphore was made for
L_SEM_GIVE_overflows(t, s) == In(t, "give", s) /\ level[s] =< SemMax /\ Moves(t, s, 1)

\* at its maximum the token is dropped
L_SEM_GIVE(t, s) ==
    In(t, "give", s) /\ Moves(t, s, IF level[s] < SemMax THEN 1 ELSE 0)

L_QUEUE_SEND(t, q) == In(t, "send", q) /\ level[q] < QueueLen /\ Moves(t, q, 1)
L_QUEUE_RECEIVE(t, q) == In(t, "receive", q) /\ level[q] > 0 /\ Moves(t, q, -1)

\* a script uses the nil of a create that failed: m->handle is read at NULL
NilHandle(t, o) ==
    /\ Idle(t) /\ o \notin made /\ ~careful
    /\ device' = "panic"
    /\ UNCHANGED <<luaMutex, at, call, made, owner, level, careful>>

Reboot ==
    /\ device = "panic"
    /\ Start(device', luaMutex', at', call', made', owner', level')
    /\ UNCHANGED careful

-----------------------------------------------------------------------------
Returns(t) ==
    \/ \E m \in Mutexes : L_MUTEX_LOCK(t, m) \/ L_MUTEX_UNLOCK(t, m)
    \/ \E s \in Semaphores : L_SEM_TAKE(t, s) \/ L_SEM_GIVE(t, s)
    \/ \E q \in Queues : L_QUEUE_SEND(t, q) \/ L_QUEUE_RECEIVE(t, q)

Next ==
    \/ \E t \in Threads :
         \/ EnterLua(t) \/ LeaveLua(t)
         \/ \E o \in Objects, op \in AllOps : Call(t, op, o)
         \/ \E o \in Objects : NilHandle(t, o)
         \/ Returns(t)
    \/ BootEnd
    \/ \E w \in Workers : CreateWorker(w) \/ WorkerEnds(w)
    \/ \E o \in Objects : Create(o)
    \/ Reboot

Spec == Init /\ [][Next]_vars

(***************************************************************************)
(* A call returns if what it waits for is there again and again: the REPL  *)
(* sleeps between commands, so a thread that waits for its mutex gets it.  *)
(* A command does not keep a mutex for ever.                               *)
(***************************************************************************)
FairSpec ==
    /\ Spec
    /\ WF_vars(Returns(AppMain)) /\ WF_vars(Returns(Repl))
    /\ \A w \in Workers : SF_vars(Returns(w))
    /\ \A m \in Mutexes : SF_vars(Call(Repl, "unlock", m))

-----------------------------------------------------------------------------
(* Properties.                                                             *)

Ready(t) ==
    LET o == call[t].on IN
    CASE call[t].op = "lock" -> owner[o] = Free
      [] call[t].op \in {"take", "receive"} -> level[o] > 0
      [] call[t].op = "send" -> level[o] < QueueLen
      [] OTHER -> TRUE

\* t waits for an object that is not there
Stuck(t) == call[t].op \in Waiting /\ ~Ready(t)

\* A callback or the boot script waits with luaMutex, and the REPL, if it
\* exists, waits too.
Dead ==
    /\ Up /\ luaMutex # Free /\ Stuck(luaMutex)
    /\ at[Repl] = "none" \/ Stuck(Repl)

\* Once a callback and the REPL both wait, nothing but a reset helps: no other
\* callback can start to give, send or unlock what they wait for.  A boot
\* script that waits is for ever as well, with the tasks it has created.
DeadStaysDead == [][Dead => Dead']_vars

\* With care, callbacks may lock any number of mutexes in any order, share
\* them with the REPL, and never end in a deadlock, since callbacks follow
\* one another: no two of them ever have a mutex at the same time.
NeverDead == careful => ~Dead

\* With care, every wait of a callback ends.
WaitsEnd ==
    \A t \in Threads \ {Repl} :
        (careful /\ call[t] # NoCall) ~> (call[t] = NoCall)
=============================================================================
