--------------------------- MODULE MCLineHandoff ---------------------------
(* LineHandoff with a handful of lines: the third line is the first that    *)
(* can reach the slot the interpreter still reads.                          *)
EXTENDS LineHandoff, TLC
=============================================================================
