------------------------------- MODULE MCRepl -------------------------------
(* Repl with lines of real lengths: four lines of 63 bytes and their ends of *)
(* line are the 256 bytes of the buffer.                                     *)
EXTENDS Repl
MCKindsAll == AllKinds
=============================================================================
