----------------------------- MODULE MCLittleFs -----------------------------
(* LittleFs with two threads and an array of two lines: enough for every    *)
(* boundary of the array to be met, and for two calls to overlap; with a    *)
(* cache of one descriptor that grows to two, so that a thread, or a        *)
(* descriptor that a failed close left, finds it full.                      *)
EXTENDS LittleFs, TLC

Symmetry == Permutations(Clients) \cup Permutations(Names)

(* Bounds: one file at a time is of more than a short line, and lines that  *)
(* do not fit the buffer are met by one thread at a time.                   *)
Short(content) == content \in {NoFile, Unknown} \/ ToSet(content) \subseteq Texts \ {Long}
Small(content) == Short(content) /\ (content \in {NoFile, Unknown} \/ Len(content) =< 1)
Bound ==
    /\ \E n \in Names : Small(files[n]) /\ Small(intended[n])
    /\ (\A c \in Clients : pc[c] # "idle") => \A n \in Names : Short(files[n])
=============================================================================
