----------------------------- MODULE LineReader -----------------------------
(***************************************************************************)
(* What a line-oriented console comes to: the bytes that were typed are    *)
(* cut into lines at the end-of-line bytes, empty lines are dropped, and a *)
(* line keeps its first MaxLine bytes.  This console has two users: the    *)
(* lines of the one are kept as they are, the lines of the other have an   *)
(* end of line in the place of their first byte.  ShellTask is the program.*)
(***************************************************************************)
EXTENDS Naturals, Sequences

CONSTANTS Bytes, Eol, MaxLine

VARIABLES
    firstLost, \* whether lines lose their first byte, chosen once
    input,  \* typed and not yet looked at
    cur,    \* the line being assembled
    lines   \* the lines handed over, in order

vars == <<firstLost, input, cur, lines>>

Init == firstLost \in BOOLEAN /\ input = <<>> /\ cur = <<>> /\ lines = <<>>

Type(b) ==
    /\ input' = Append(input, b)
    /\ UNCHANGED <<firstLost, cur, lines>>

EndOfLine ==
    /\ input # <<>> /\ Head(input) = Eol
    /\ input' = Tail(input)
    /\ cur' = <<>>
    /\ lines' = IF cur = <<>> THEN lines ELSE Append(lines, cur)
    /\ UNCHANGED firstLost

\* what is kept of byte b
Kept(b) == IF cur = <<>> /\ firstLost THEN Eol ELSE b

OrdinaryByte ==
    /\ input # <<>> /\ Head(input) # Eol
    /\ input' = Tail(input)
    /\ cur' = IF Len(cur) < MaxLine THEN Append(cur, Kept(Head(input))) ELSE cur
    /\ UNCHANGED <<firstLost, lines>>

Next == (\E b \in Bytes : Type(b)) \/ EndOfLine \/ OrdinaryByte

Spec == Init /\ [][Next]_vars
=============================================================================
