----------------------------- MODULE ShellTask -----------------------------
(***************************************************************************)
(* _ShellTask of main/Core_Level.c, byte by byte: the console thread reads *)
(* the UART into buffer_input, scans what it read, and compacts the bytes  *)
(* of the current line to the front of the same buffer.  A line goes to    *)
(* the slot of buffer_perline that is not active.  The thread that runs    *)
(* the lines is LineHandoff's subject; here a handed line is a fact.       *)
(***************************************************************************)
EXTENDS Integers, Sequences

CONSTANTS
    Chars,          \* the ordinary characters, Quit among them
    Quit,           \* 'q'
    Eol,            \* '\r' or '\n'
    Nul,            \* '\0'
    Garbage,        \* what an uninitialised byte holds
    Size,           \* CHAR_BUFFER_SIZE
    MaxTyped        \* bound on the bytes typed

Typed == Chars \cup {Eol}
Bytes == Typed \cup {Nul, Garbage}

ASSUME BytesDistinct ==
    /\ Quit \in Chars /\ Eol # Nul /\ Eol # Garbage /\ Nul # Garbage
    /\ {Eol, Nul, Garbage} \cap Chars = {}
ASSUME SizeAssumption ==
    Size \in Nat /\ Size > 1 /\ MaxTyped \in Nat

VARIABLES
    typing,         \* how the input is cut into reads, chosen once: "lines"
                    \* (each read ends at an end of line: pasted, or sent by a
                    \* program), "keys" (each read is one byte: by hand), "any"
    rx,             \* the bytes the UART driver holds
    typed,          \* how many bytes were typed
    buffer_input,   \* positions 0..Size-1
    index,          \* length of the line so far
    i, len,         \* scan position, and length of the last read
    active,         \* slot of the last line
    buffer_perline, \* the two slots
    stop_flag,      \* asks the hook to interrupt Lua
    handed          \* history: the lines handed over, in order

scan == <<buffer_input, index, i, len>>
handover == <<active, buffer_perline, stop_flag, handed>>
shellVars == <<typing, rx, typed, scan, handover>>

ShellTypeOK ==
    /\ typing \in {"lines", "keys", "any"} /\ rx \in Seq(Typed) /\ typed \in Nat
    /\ buffer_input \in [0..Size - 1 -> Bytes]
    /\ index \in 0..Size - 1
    /\ len \in 0..Size /\ i \in 0..len
    /\ active \in BOOLEAN /\ stop_flag \in BOOLEAN
    /\ buffer_perline \in [BOOLEAN -> Seq(Bytes)]
    /\ handed \in Seq(Seq(Bytes))

ShellInit ==
    /\ typing \in {"lines", "keys", "any"}
    /\ rx = <<>> /\ typed = 0
    /\ buffer_input = [p \in 0..Size - 1 |-> Garbage]
    /\ index = 0 /\ i = 0 /\ len = 0
    /\ active = FALSE /\ stop_flag = FALSE
    /\ buffer_perline = [s \in BOOLEAN |-> <<>>]
    /\ handed = <<>>

\* a byte arrives at the UART
Key(b) ==
    /\ typed < MaxTyped
    /\ typed' = typed + 1
    /\ rx' = Append(rx, b)
    /\ UNCHANGED <<typing, scan, handover>>

\* variant: the buffer is scanned to its end, whatever was read
UartRead_whole(n) ==
    /\ i = len
    /\ n \in 1..Len(rx) /\ n =< Size
    /\ buffer_input' = [p \in 0..Size - 1 |->
                          IF p < n THEN rx[p + 1] ELSE buffer_input[p]]
    /\ rx' = SubSeq(rx, n + 1, Len(rx))
    /\ i' = 0 /\ len' = Size
    /\ UNCHANGED <<typing, typed, index, handover>>

\* uart_read_bytes: up to Size bytes, to the start of buffer_input, whatever
\* the line so far keeps there; fewer when 10 ms pass first
UartRead(n) ==
    /\ i = len
    /\ n \in 1..Len(rx) /\ n =< Size
    /\ typing = "lines" => rx[n] = Eol
    /\ typing = "keys" => n = 1
    /\ buffer_input' = [p \in 0..Size - 1 |->
                          IF p < n THEN rx[p + 1] ELSE buffer_input[p]]
    /\ rx' = SubSeq(rx, n + 1, Len(rx))
    /\ i' = 0 /\ len' = n
    /\ UNCHANGED <<typing, typed, index, handover>>

\* the first index bytes of the buffer
LineSoFar == [p \in 1..index |-> buffer_input[p - 1]]

\* an end of line hands the line over; the test for the quit key comes here,
\* where the byte is an end of line
EndOfLine ==
    /\ i < len /\ buffer_input[i] = Eol
    /\ i' = i + 1
    /\ IF index > 0
         THEN /\ buffer_input' = [buffer_input EXCEPT ![index] = Nul]
              /\ buffer_perline' = [buffer_perline EXCEPT ![~active] = LineSoFar]
              /\ active' = ~active
              /\ handed' = Append(handed, LineSoFar)
              /\ index' = 0
              /\ stop_flag' = (stop_flag \/ buffer_input[i] = Quit)
         ELSE UNCHANGED <<buffer_input, index, handover>>
    /\ UNCHANGED <<typing, rx, typed, len>>

\* variant: no bound
OrdinaryByte_unbounded ==
    /\ i < len /\ buffer_input[i] # Eol
    /\ i' = i + 1
    /\ buffer_input' = [buffer_input EXCEPT ![index] = buffer_input[i]]
    /\ index' = index + 1
    /\ UNCHANGED <<typing, rx, typed, len, handover>>

\* variant: the bound is one too small
OrdinaryByte_offByOne ==
    /\ i < len /\ buffer_input[i] # Eol
    /\ i' = i + 1
    /\ IF index < Size - 2
         THEN /\ buffer_input' = [buffer_input EXCEPT ![index] = buffer_input[i]]
              /\ index' = index + 1
         ELSE UNCHANGED <<buffer_input, index>>
    /\ UNCHANGED <<typing, rx, typed, len, handover>>

\* an ordinary byte is kept while there is room
OrdinaryByte ==
    /\ i < len /\ buffer_input[i] # Eol
    /\ i' = i + 1
    /\ IF index < Size - 1
         THEN /\ buffer_input' = [buffer_input EXCEPT ![index] = buffer_input[i]]
              /\ index' = index + 1
         ELSE UNCHANGED <<buffer_input, index>>
    /\ UNCHANGED <<typing, rx, typed, len, handover>>

ShellNext ==
    \/ \E b \in Typed : Key(b)
    \/ \E n \in 1..Size : UartRead(n)
    \/ EndOfLine
    \/ OrdinaryByte

ShellSpec == ShellInit /\ [][ShellNext]_shellVars

-----------------------------------------------------------------------------
\* The bytes that nobody wrote stay out of the lines: the uninitialised tail of
\* buffer_input is never scanned, copied or taken for part of a line, however
\* the reads fall.  The NUL that the console writes behind a line it hands over
\* may fall on bytes still to be scanned, and get into a later line, but only
\* when reads are longer than a key and end inside lines.
LinesAreWritten ==
    /\ \A p \in 0..Size - 1 : p < index \/ (i =< p /\ p < len)
                                => buffer_input[p] # Garbage
    /\ \A k \in 1..Len(handed) : \A p \in 1..Len(handed[k]) :
           handed[k][p] # Garbage /\ (handed[k][p] = Nul => typing = "any")

-----------------------------------------------------------------------------
unscanned == [p \in 1..len - i |-> buffer_input[i + p - 1]]
IfClaimed(s) == IF typing = "any" THEN <<>> ELSE s

\* a key lands on the first byte of the line so far, the end of line last
lineBar == IF typing = "keys" /\ index > 0 THEN [LineSoFar EXCEPT ![1] = Eol]
                                           ELSE LineSoFar

Console == INSTANCE LineReader
    WITH Bytes <- Typed, MaxLine <- Size - 1, firstLost <- typing = "keys",
         input <- IfClaimed(unscanned \o rx), cur <- IfClaimed(lineBar),
         lines <- IfClaimed(handed)

\* The lines handed over are the lines that were typed, when every read ends at
\* an end of line.  When every read is one key they are the lines that were
\* typed, cut at the size of the buffer, but for their first byte, which the end
\* of line has overwritten: uart_read_bytes reads to the start of the buffer in
\* which the line is assembled.  (Nothing is claimed of reads of other lengths.)
KeepsLines == Console!Spec
=============================================================================
