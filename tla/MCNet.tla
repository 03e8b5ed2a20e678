-------------------------------- MODULE MCNet --------------------------------
(* Net with two threads, four descriptors (a server takes three) and three  *)
(* handles: one that listens, one it accepts, and a server or another       *)
(* socket.                                                                  *)
EXTENDS Net, TLC

Symmetry == Permutations(Handles) \cup Permutations(Threads)
=============================================================================
