--------------------------- MODULE FosSync_proofs ---------------------------
(***************************************************************************)
(* Theorems about FosSync for every number of threads, mutexes, semaphores *)
(* and queues, and every capacity.                                         *)
(***************************************************************************)
EXTENDS FosSync, TLAPS

LEMMA OpsType ==
    ASSUME NEW o \in Objects
    PROVE  /\ Ops(o) \subseteq AllOps
           /\ "lock" \in Ops(o) => o \in Mutexes
           /\ "unlock" \in Ops(o) => o \in Mutexes
  BY ObjectsDistinct DEF Ops, AllOps, Objects, Counters

LEMMA CapType == \A c \in Counters : Cap(c) \in Nat /\ Cap(c) > 0
  BY CapacitiesPositive DEF Cap

LEMMA StartType ==
    ASSUME NEW d, NEW l, NEW a, NEW c, NEW o, NEW w, NEW n,
           Start(d, l, a, c, o, w, n)
    PROVE  /\ d \in {"up", "panic"}
           /\ l \in Threads \cup {Free}
           /\ a \in [Threads -> {"none", "out", "in", "gone"}]
           /\ c \in [Threads -> CallTo \cup {NoCall}]
           /\ o \subseteq Objects
           /\ w \in [Mutexes -> Threads \cup {Free}]
           /\ n \in [Counters -> Nat] /\ \A x \in Counters : n[x] =< Cap(x)
  BY CapType DEF Start

(* The parts of TypeOK.                                                    *)
LEMMA MovesType ==
    ASSUME TypeOK, NEW t \in Threads, NEW c \in Counters, NEW n \in Int,
           level[c] + n \in 0..Cap(c), Moves(t, c, n)
    PROVE  TypeOK'
<1>1. level' \in [Counters -> Nat] /\ \A x \in Counters : level'[x] =< Cap(x)
  BY CapType DEF Moves, TypeOK
<1> QED
  BY <1>1 DEF Moves, Return, TypeOK, Cap

LEMMA TypeStep == TypeOK /\ [Next]_vars => TypeOK'
<1> SUFFICES ASSUME TypeOK, [Next]_vars PROVE TypeOK'
  OBVIOUS
<1> USE DEF Up, Idle, Return
<1>1. ASSUME NEW t \in Threads, EnterLua(t) \/ LeaveLua(t) PROVE TypeOK'
  BY <1>1 DEF EnterLua, LeaveLua, TypeOK, Cap
<1>2. ASSUME NEW t \in Threads, NEW o \in Objects, NEW op \in AllOps, Call(t, op, o)
      PROVE  TypeOK'
  <2>1. [op |-> op, on |-> o] \in CallTo
    BY DEF CallTo
  <2> QED
    BY <1>2, <2>1 DEF Call, TypeOK, Cap
<1>3. ASSUME NEW t \in Threads, NEW m \in Mutexes,
             L_MUTEX_LOCK(t, m) \/ L_MUTEX_UNLOCK(t, m)
      PROVE  TypeOK'
  BY <1>3 DEF L_MUTEX_LOCK, L_MUTEX_UNLOCK, TypeOK, Cap
<1>4. ASSUME NEW t \in Threads, NEW s \in Semaphores, L_SEM_TAKE(t, s)
      PROVE  TypeOK'
  <2>1. s \in Counters /\ level[s] \in Nat /\ level[s] =< Cap(s) /\ Cap(s) \in Nat
    BY CapType DEF TypeOK, Counters
  <2>2. level[s] + (-1) \in 0..Cap(s)
    BY <1>4, <2>1 DEF L_SEM_TAKE
  <2> QED
    BY ONLY <1>4, <2>1, <2>2, TypeOK, -1 \in Int, MovesType DEF L_SEM_TAKE
<1>5. ASSUME NEW t \in Threads, NEW s \in Semaphores, L_SEM_GIVE(t, s)
      PROVE  TypeOK'
  <2>1. s \in Counters /\ Cap(s) = SemMax /\ level[s] \in Nat /\ level[s] =< SemMax
    BY DEF TypeOK, Counters, Cap
  <2>2. CASE level[s] < SemMax
    <3>1. level[s] + 1 \in 0..Cap(s) /\ Moves(t, s, 1)
      BY <1>5, <2>1, <2>2, CapacitiesPositive DEF L_SEM_GIVE
    <3> QED
      BY <2>1, <3>1, MovesType
  <2>3. CASE ~(level[s] < SemMax)
    <3>1. level[s] + 0 \in 0..Cap(s) /\ Moves(t, s, 0)
      BY <1>5, <2>1, <2>3, CapacitiesPositive DEF L_SEM_GIVE
    <3> QED
      BY <2>1, <3>1, MovesType
  <2> QED
    BY <2>2, <2>3
<1>6. ASSUME NEW t \in Threads, NEW q \in Queues, L_QUEUE_SEND(t, q)
      PROVE  TypeOK'
  <2>1. q \in Counters /\ level[q] + 1 \in 0..Cap(q)
    BY <1>6, ObjectsDistinct, CapacitiesPositive DEF L_QUEUE_SEND, TypeOK, Counters, Cap
  <2> QED
    BY <1>6, <2>1, MovesType DEF L_QUEUE_SEND
<1>7. ASSUME NEW t \in Threads, NEW q \in Queues, L_QUEUE_RECEIVE(t, q)
      PROVE  TypeOK'
  <2>1. q \in Counters /\ level[q] \in Nat /\ level[q] =< Cap(q) /\ Cap(q) \in Nat
    BY CapType DEF TypeOK, Counters
  <2>2. level[q] + (-1) \in 0..Cap(q)
    BY <1>7, <2>1 DEF L_QUEUE_RECEIVE
  <2> QED
    BY ONLY <1>7, <2>1, <2>2, TypeOK, -1 \in Int, MovesType DEF L_QUEUE_RECEIVE
<1>8. ASSUME NEW t \in Threads, NEW o \in Objects, NilHandle(t, o) PROVE TypeOK'
  BY <1>8 DEF NilHandle, TypeOK, Cap
<1>9. CASE BootEnd
  BY <1>9 DEF BootEnd, TypeOK, Cap
<1>10. ASSUME NEW w \in Workers, CreateWorker(w) \/ WorkerEnds(w) PROVE TypeOK'
  BY <1>10 DEF CreateWorker, WorkerEnds, TypeOK, Cap
<1>11. ASSUME NEW o \in Objects, Create(o) PROVE TypeOK'
  BY <1>11 DEF Create, TypeOK, Cap
<1>12. CASE Reboot
  BY <1>12, StartType DEF Reboot, TypeOK, Cap
<1>13. CASE UNCHANGED vars
  BY <1>13 DEF vars, TypeOK, Cap
<1> QED
  BY <1>1, <1>2, <1>3, <1>4, <1>5, <1>6, <1>7, <1>8, <1>9, <1>10, <1>11, <1>12,
     <1>13 DEF Next, Returns

\* Every variable keeps its type: no semaphore and no queue ever holds more
\* than it was made for, whoever gives, sends or crashes.
THEOREM SyncTypeCorrect == Spec => []TypeOK
<1>1. Init => TypeOK
  BY StartType DEF Init, TypeOK, Cap
<1> QED
  BY <1>1, TypeStep, PTL DEF Spec

-----------------------------------------------------------------------------
(* luaMutex has the one thread, besides the REPL, that is in Lua; only a   *)
(* thread in Lua makes a call.  The REPL is created when app_main is gone. *)
LuaOwner ==
    /\ \A t \in Threads \ {Repl} : at[t] = "in" <=> luaMutex = t
    /\ luaMutex # Repl
    /\ \A t \in Threads : call[t] # NoCall => at[t] = "in"
    /\ at[Repl] # "none" => at[AppMain] = "gone"

LEMMA NoCallOp == NoCall.op = "none" /\ "none" \notin Waiting
  BY DEF NoCall, Waiting

LEMMA LuaOwnerStep == TypeOK /\ LuaOwner /\ [Next]_vars => LuaOwner'
<1> SUFFICES ASSUME TypeOK, LuaOwner, [Next]_vars PROVE LuaOwner'
  OBVIOUS
<1> USE ThreadsDistinct DEF LuaOwner, Up, Idle, Return, TypeOK, Threads
<1>1. ASSUME NEW t \in Threads, EnterLua(t) PROVE LuaOwner'
  BY <1>1 DEF EnterLua
<1>2. ASSUME NEW t \in Threads, LeaveLua(t) PROVE LuaOwner'
  BY <1>2 DEF LeaveLua
<1>3. ASSUME NEW t \in Threads, NEW o \in Objects, NEW op \in AllOps, Call(t, op, o)
      PROVE  LuaOwner'
  BY <1>3 DEF Call
<1>4. ASSUME NEW t \in Threads, Returns(t) PROVE LuaOwner'
  BY <1>4 DEF Returns, L_MUTEX_LOCK, L_MUTEX_UNLOCK, L_SEM_TAKE, L_SEM_GIVE,
              L_QUEUE_SEND, L_QUEUE_RECEIVE, Moves
<1>5. ASSUME NEW t \in Threads, NEW o \in Objects, NilHandle(t, o) PROVE LuaOwner'
  BY <1>5 DEF NilHandle
<1>6. CASE BootEnd
  BY <1>6 DEF BootEnd
<1>7. ASSUME NEW w \in Workers, CreateWorker(w) \/ WorkerEnds(w) PROVE LuaOwner'
  BY <1>7 DEF CreateWorker, WorkerEnds
<1>8. ASSUME NEW o \in Objects, Create(o) PROVE LuaOwner'
  BY <1>8 DEF Create
<1>9. CASE Reboot
  BY <1>9 DEF Reboot, Start
<1>10. CASE UNCHANGED vars
  BY <1>10 DEF vars
<1> QED
  BY <1>1, <1>2, <1>3, <1>4, <1>5, <1>6, <1>7, <1>8, <1>9, <1>10 DEF Next

THEOREM LuaOwned == Spec => [](TypeOK /\ LuaOwner)
<1>1. Init => LuaOwner
  BY ThreadsDistinct DEF Init, Start, LuaOwner, Threads
<1> QED
  BY <1>1, LuaOwnerStep, SyncTypeCorrect, PTL DEF Spec
-----------------------------------------------------------------------------
(* In a deadlock nobody in Lua moves, so nobody who waits is helped.       *)
LEMMA DeadStep == TypeOK /\ LuaOwner /\ [Next]_vars /\ Dead => Dead'
<1> SUFFICES ASSUME TypeOK, LuaOwner, [Next]_vars, Dead PROVE Dead'
  OBVIOUS
<1> USE NoCallOp, ThreadsDistinct DEF Up, Idle, Return
<1> DEFINE u == luaMutex
<1>1. /\ u \in Threads \ {Repl} /\ at[u] = "in" /\ Stuck(u)
      /\ at[Repl] = "none" \/ Stuck(Repl)
  BY DEF Dead, LuaOwner, TypeOK
<1>2. \A t \in Threads : at[t] = "in" => t = u \/ t = Repl
  BY DEF LuaOwner
<1>3. \A t \in Threads : Stuck(t) => call[t] # NoCall
  BY DEF Stuck
<1>4. \A t \in Threads : ~Idle(t)
  BY <1>1, <1>2, <1>3
<1>5. \A t \in Threads : call[t] # NoCall => Stuck(t)
  BY <1>1, <1>2 DEF LuaOwner
<1>6. UNCHANGED <<device, luaMutex, call, owner, level>> /\ (at'[Repl] = at[Repl] \/ Stuck(Repl)) => Dead'
  BY <1>1 DEF Dead, Stuck, Ready
<1>7. ASSUME NEW t \in Threads, EnterLua(t) PROVE Dead'
  <2>1. t = Repl /\ at[Repl] = "out"
    BY <1>7, <1>1, ThreadsDistinct DEF EnterLua, TypeOK
  <2> QED
    BY <1>1, <1>6, <1>7, <2>1 DEF EnterLua
<1>8. ASSUME NEW t \in Threads PROVE ~Returns(t)
  <2>1. CASE call[t] = NoCall
    BY <2>1, NoCallOp DEF Returns, L_MUTEX_LOCK, L_MUTEX_UNLOCK, L_SEM_TAKE, L_SEM_GIVE,
              L_QUEUE_SEND, L_QUEUE_RECEIVE, In
  <2>2. ASSUME Stuck(t), NEW m \in Mutexes
        PROVE  ~L_MUTEX_LOCK(t, m) /\ ~L_MUTEX_UNLOCK(t, m)
    BY <2>2 DEF Stuck, Ready, Waiting, L_MUTEX_LOCK, L_MUTEX_UNLOCK, In
  <2>3. ASSUME Stuck(t), NEW s \in Semaphores
        PROVE  ~L_SEM_TAKE(t, s) /\ ~L_SEM_GIVE(t, s)
    BY <2>3 DEF Stuck, Ready, Waiting, L_SEM_TAKE, L_SEM_GIVE, In
  <2>4. ASSUME Stuck(t), NEW q \in Queues
        PROVE  ~L_QUEUE_SEND(t, q) /\ ~L_QUEUE_RECEIVE(t, q)
    BY <2>4 DEF Stuck, Ready, Waiting, L_QUEUE_SEND, L_QUEUE_RECEIVE, In
  <2> QED
    BY <1>5, <2>1, <2>2, <2>3, <2>4 DEF Returns
<1>9. ASSUME NEW w \in Workers, CreateWorker(w) \/ WorkerEnds(w) PROVE Dead'
  BY <1>6, <1>9 DEF CreateWorker, WorkerEnds, TypeOK, Threads
<1>10. ASSUME NEW o \in Objects, Create(o) PROVE Dead'
  BY <1>4, <1>10 DEF Create
<1>11. ASSUME NEW t \in Threads,
              \/ LeaveLua(t)
              \/ \E o \in Objects : NilHandle(t, o) \/ \E op \in AllOps : Call(t, op, o)
       PROVE  Dead'
  BY <1>4, <1>11 DEF LeaveLua, NilHandle, Call
<1>12. ~BootEnd
  BY <1>4 DEF BootEnd, Threads
<1>13. ~Reboot
  BY DEF Reboot, Dead
<1>14. CASE UNCHANGED vars
  BY <1>6, <1>14 DEF vars
<1> QED
  BY <1>7, <1>8, <1>9, <1>10, <1>11, <1>12, <1>13, <1>14 DEF Next

\* Once a callback or the boot script waits with luaMutex and the REPL waits or
\* does not exist yet, nothing the program does ends it.
THEOREM DeadlockIsFinal == Spec => DeadStaysDead
<1>1. TypeOK /\ LuaOwner /\ [Next]_vars => [Dead => Dead']_vars
  BY DeadStep
<1> QED
  BY <1>1, LuaOwned, PTL DEF Spec, DeadStaysDead

-----------------------------------------------------------------------------
(* What care gives: whoever has a script mutex is in Lua and, if it is the *)
(* REPL, does not wait; a callback waits for nothing but a mutex, never    *)
(* for one it has.                                                         *)
OwnersRun == \A m \in Mutexes : owner[m] # Free => at[owner[m]] = "in"
CallsTyped ==
    \A t \in Threads : call[t].op \in {"lock", "unlock"} => call[t].on \in Mutexes
WaitsWithCare ==
    \A t \in Threads :
        /\ call[t].op = "lock" => ~Holds(t, call[t].on)
        /\ call[t].op \in Waiting =>
              IF t = Repl THEN HoldsNone(t) ELSE call[t].op = "lock"
Care == careful => OwnersRun /\ CallsTyped /\ WaitsWithCare

LEMMA CareStep == TypeOK /\ LuaOwner /\ Care /\ [Next]_vars => Care'
<1> SUFFICES ASSUME TypeOK, LuaOwner, Care, [Next]_vars, careful' PROVE Care'
  BY DEF Care
<1>0. careful
  BY DEF Next, EnterLua, LeaveLua, Call, Returns, L_MUTEX_LOCK, L_MUTEX_UNLOCK,
         L_SEM_TAKE, L_SEM_GIVE, L_QUEUE_SEND, L_QUEUE_RECEIVE, Moves, NilHandle,
         BootEnd, CreateWorker, WorkerEnds, Create, Reboot, vars
<1> USE <1>0, NoCallOp, ThreadsDistinct
    DEF Care, OwnersRun, CallsTyped, WaitsWithCare, Holds, HoldsNone, TypeOK
<1>1. ASSUME NEW t \in Threads, EnterLua(t) PROVE Care'
  BY <1>1 DEF EnterLua
<1>2. ASSUME NEW t \in Threads, LeaveLua(t) PROVE Care'
  BY <1>2 DEF LeaveLua
<1>3. ASSUME NEW t \in Threads, NEW o \in Objects, NEW op \in AllOps, Call(t, op, o)
      PROVE  Care'
  <2>1. op \in {"lock", "unlock"} => o \in Mutexes
    BY <1>3, OpsType DEF Call
  <2>2. Careful(t, op, o)
    BY <1>3 DEF Call
  <2>3. call'[t].op = op /\ call'[t].on = o
    BY <1>3 DEF Call
  <2>4. \A u \in Threads \ {t} : call'[u] = call[u]
    BY <1>3 DEF Call
  <2>5. UNCHANGED <<at, owner, careful>>
    BY <1>3 DEF Call
  <2> QED
    BY <2>1, <2>2, <2>3, <2>4, <2>5 DEF Careful
<1>4. ASSUME NEW t \in Threads, NEW m \in Mutexes, L_MUTEX_LOCK(t, m) PROVE Care'
  <2>1. at[t] = "in" /\ call'[t] = NoCall /\ owner' = [owner EXCEPT ![m] = t]
    BY <1>4 DEF L_MUTEX_LOCK, In, Return, LuaOwner, NoCall
  <2>2. \A u \in Threads \ {t} : call'[u] = call[u]
    BY <1>4 DEF L_MUTEX_LOCK, Return
  <2>3. UNCHANGED <<at, careful>>
    BY <1>4 DEF L_MUTEX_LOCK
  <2> QED
    BY <2>1, <2>2, <2>3, NoCallOp
<1>5. ASSUME NEW t \in Threads, NEW m \in Mutexes, L_MUTEX_UNLOCK(t, m) PROVE Care'
  BY <1>5 DEF L_MUTEX_UNLOCK, Return, NoCall
<1>6. ASSUME NEW t \in Threads, NEW c \in Counters, NEW n \in Int, Moves(t, c, n)
      PROVE  Care'
  BY <1>6 DEF Moves, Return, NoCall
<1>7. ASSUME NEW t \in Threads, NEW s \in Semaphores, L_SEM_TAKE(t, s) \/ L_SEM_GIVE(t, s)
      PROVE  Care'
  BY <1>6, <1>7, -1 \in Int DEF L_SEM_TAKE, L_SEM_GIVE, Counters
<1>8. ASSUME NEW t \in Threads, NEW q \in Queues, L_QUEUE_SEND(t, q) \/ L_QUEUE_RECEIVE(t, q)
      PROVE  Care'
  BY <1>6, <1>8, -1 \in Int DEF L_QUEUE_SEND, L_QUEUE_RECEIVE, Counters
<1>9. ASSUME NEW t \in Threads, NEW o \in Objects, NilHandle(t, o) PROVE Care'
  BY <1>9 DEF NilHandle
<1>10. CASE BootEnd
  BY <1>10 DEF BootEnd, Idle, LuaOwner, Threads
<1>11. ASSUME NEW w \in Workers, CreateWorker(w) \/ WorkerEnds(w) PROVE Care'
  BY <1>11 DEF CreateWorker, WorkerEnds
<1>12. ASSUME NEW o \in Objects, Create(o) PROVE Care'
  BY <1>12 DEF Create
<1>13. CASE Reboot
  BY <1>13 DEF Reboot, Start
<1>14. CASE UNCHANGED vars
  BY <1>14 DEF vars
<1> QED
  BY <1>1, <1>2, <1>3, <1>4, <1>5, <1>7, <1>8, <1>9, <1>10, <1>11, <1>12, <1>13,
     <1>14 DEF Next, Returns

LEMMA CareSuffices == TypeOK /\ LuaOwner /\ Care => NeverDead
<1> SUFFICES ASSUME TypeOK, LuaOwner, Care, careful, Dead PROVE FALSE
  BY DEF NeverDead
<1> USE ThreadsDistinct DEF TypeOK, LuaOwner
<1>1. PICK t \in Threads \ {Repl} : luaMutex = t /\ Stuck(t)
  BY DEF Dead
<1>2. call[t].op = "lock"
  BY <1>1 DEF Stuck, Care, WaitsWithCare
<1> DEFINE m == call[t].on
<1>3. m \in Mutexes /\ owner[m] \notin {Free, t}
  BY <1>1, <1>2 DEF Stuck, Ready, Care, CallsTyped, WaitsWithCare, Holds
<1>4. owner[m] \in Threads /\ at[owner[m]] = "in"
  BY <1>3 DEF Care, OwnersRun
<1>5. owner[m] = Repl
  BY <1>1, <1>3, <1>4
<1>6. Stuck(Repl)
  BY <1>4, <1>5 DEF Dead
<1>7. HoldsNone(Repl)
  BY <1>6 DEF Stuck, Care, WaitsWithCare, Threads
<1> QED
  BY <1>3, <1>5, <1>7 DEF HoldsNone, Holds

\* Scripts with care never get into a deadlock, however many tasks and mutexes
\* there are and in whatever order callbacks lock them.
THEOREM CareAvoidsDeadlock == Spec => []NeverDead
<1>1. Init => Care
  BY NoCallOp DEF Init, Start, Care, OwnersRun, CallsTyped, WaitsWithCare, Waiting
<1> QED
  BY <1>1, CareStep, CareSuffices, LuaOwned, PTL DEF Spec
=============================================================================
