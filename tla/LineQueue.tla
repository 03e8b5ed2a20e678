----------------------------- MODULE LineQueue -----------------------------
(***************************************************************************)
(* What the hand-over of lines from the console to the interpreter should  *)
(* be: every line is interpreted once, whole, in the order it was entered. *)
(* LineHandoff is the program.                                             *)
(***************************************************************************)
EXTENDS Naturals, Sequences

CONSTANT MaxLines

VARIABLES entered,     \* how many lines were entered
          interpreted  \* the lines that were interpreted, in order

vars == <<entered, interpreted>>

Init == entered = 0 /\ interpreted = <<>>

Enter == /\ entered < MaxLines
         /\ entered' = entered + 1
         /\ UNCHANGED interpreted

Interpret == /\ Len(interpreted) < entered
             /\ interpreted' = Append(interpreted, Len(interpreted) + 1)
             /\ UNCHANGED entered

Next == Enter \/ Interpret
Spec == Init /\ [][Next]_vars
=============================================================================
