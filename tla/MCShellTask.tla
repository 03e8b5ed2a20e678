---------------------------- MODULE MCShellTask ----------------------------
(* ShellTask with a buffer of a few bytes and every way to cut the input.  *)
EXTENDS ShellTask, TLC
=============================================================================
