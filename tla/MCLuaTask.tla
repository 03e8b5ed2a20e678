----------------------------- MODULE MCLuaTask -----------------------------
(* LuaTask on small instances.  With 10 ms ticks a period of 5 ms is below  *)
(* one tick, 0 asks for the default and 20 is an ordinary one.              *)
EXTENDS LuaTask, TLC

MCTimersSafe == {0, 20}
MCTimersAny == {5, 20}
MCScriptKept == {"start", "stop", "suspend", "resume", "reboot"}
MCScriptAll == Calls
MCScriptDrop == {"start", "stop", "gc"}
Symmetric == Permutations(Workers)
=============================================================================
