------------------------------ MODULE MCDrivers ------------------------------
(* Drivers with two threads, one peripheral of each kind in turn, the port  *)
(* of the console, and handles enough for a bus with a device and another   *)
(* bus, for two handles on one port and one more, or for one device more    *)
(* than an spi host has chip selects.                                       *)
EXTENDS Drivers, TLC

Symmetry == Permutations(Handles) \cup Permutations(Threads)
=============================================================================
