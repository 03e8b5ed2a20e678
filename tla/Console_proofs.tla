--------------------------- MODULE Console_proofs ---------------------------
(***************************************************************************)
(* Theorems about the three modules a line passes through on its way from  *)
(* the console to Lua, ShellTask, LineHandoff and Repl, for every value of *)
(* their constants.                                                        *)
(***************************************************************************)
EXTENDS ShellTask, LineHandoff, Repl, SequenceTheorems, TLAPS

-----------------------------------------------------------------------------
(* ShellTask.                                                              *)

(* The line so far, before a step and after it.                            *)
LineFacts ==
    /\ LineSoFar \in Seq(Bytes) /\ Len(LineSoFar) = index
    /\ \A p \in 1..index : LineSoFar[p] = buffer_input[p - 1]

LEMMA LineTyped == ShellTypeOK => LineFacts
<1> SUFFICES ASSUME ShellTypeOK PROVE LineFacts
  OBVIOUS
<1>1. /\ index \in Nat /\ index =< Size - 1 /\ Size \in Nat
      /\ \A p \in 1..index : p - 1 \in 0..Size - 1
  BY SizeAssumption DEF ShellTypeOK
<1>2. LineSoFar \in [1..index -> Bytes]
  BY <1>1 DEF LineSoFar, ShellTypeOK
<1>3. LineSoFar \in Seq(Bytes)
  BY <1>1, <1>2, SeqDef
<1> QED
  BY <1>1, <1>2, <1>3, LenProperties DEF LineSoFar, LineFacts

LEMMA LineTypedNext == ASSUME ShellTypeOK' PROVE LineFacts'
BY LineTyped, PTL

LEMMA ShellInitInv == ASSUME ShellInit PROVE ShellTypeOK /\ LinesAreWritten
<1>1. /\ typing \in {"lines", "keys", "any"} /\ active \in BOOLEAN /\ stop_flag \in BOOLEAN
      /\ buffer_perline \in [BOOLEAN -> {<<>>}] /\ handed = <<>> /\ rx = <<>>
      /\ buffer_input \in [0..Size - 1 -> {Garbage}]
  BY Zenon DEF ShellInit
<1>2. typed = 0 /\ index = 0 /\ i = 0 /\ len = 0
  BY Zenon DEF ShellInit
<1>3. ShellTypeOK
  <2>1. /\ typed \in Nat /\ index \in 0..Size - 1 /\ len \in 0..Size /\ i \in 0..len
    BY <1>2, SizeAssumption
  <2>2. buffer_input \in [0..Size - 1 -> Bytes]
    BY <1>1 DEF Bytes
  <2>3. rx \in Seq(Typed) /\ handed \in Seq(Seq(Bytes))
    BY <1>1
  <2>4. buffer_perline \in [BOOLEAN -> Seq(Bytes)]
    <3>1. {<<>>} \subseteq Seq(Bytes)
      OBVIOUS
    <3> QED
      BY <1>1, <3>1, Zenon
  <2> QED
    BY <1>1, <2>1, <2>2, <2>3, <2>4, Zenon DEF ShellTypeOK
<1>4. LinesAreWritten
  BY <1>1, <1>2 DEF LinesAreWritten
<1> QED
  BY <1>3, <1>4

LEMMA EndOfLineHands ==
    ASSUME ShellTypeOK, EndOfLine, index > 0
    PROVE  /\ handed' = Append(handed, LineSoFar)
           /\ active' = ~active /\ active' \in BOOLEAN /\ stop_flag' \in BOOLEAN
           /\ buffer_perline' = [buffer_perline EXCEPT ![~active] = LineSoFar]
           /\ buffer_input' = [buffer_input EXCEPT ![index] = Nul]
           /\ index' = 0 /\ i' = i + 1 /\ i < len
           /\ UNCHANGED <<typing, rx, typed, len>>
BY DEF EndOfLine, ShellTypeOK

LEMMA EndOfLineSkips ==
    ASSUME EndOfLine, ~(index > 0)
    PROVE  /\ i' = i + 1 /\ i < len
           /\ UNCHANGED <<typing, rx, typed, len, buffer_input, index, handover>>
BY DEF EndOfLine

(* An ordinary byte is kept while there is room.                           *)
LEMMA OrdinaryByteKeeps ==
    ASSUME ShellTypeOK, OrdinaryByte
    PROVE  /\ i' = i + 1 /\ i < len /\ UNCHANGED <<typing, rx, typed, len, handover>>
           /\ i \in 0..Size - 1 /\ buffer_input[i] \in Bytes
           /\ \/ /\ index < Size - 1 /\ index' = index + 1
                 /\ buffer_input' = [buffer_input EXCEPT ![index] = buffer_input[i]]
              \/ index >= Size - 1 /\ UNCHANGED <<buffer_input, index>>
<1>1. i \in 0..Size - 1 /\ i < len
  BY SizeAssumption DEF OrdinaryByte, ShellTypeOK
<1>2. buffer_input[i] \in Bytes
  BY <1>1 DEF ShellTypeOK
<1> QED
  BY <1>1, <1>2, SizeAssumption DEF OrdinaryByte, ShellTypeOK

LEMMA ShellTypeNext ==
    ASSUME ShellTypeOK, [ShellNext]_shellVars
    PROVE  ShellTypeOK'
<1> USE SizeAssumption DEF ShellTypeOK, scan, handover
<1>1. ASSUME NEW b \in Typed, Key(b) PROVE ShellTypeOK'
  BY <1>1 DEF Key
<1>2. ASSUME NEW n \in 1..Size, UartRead(n) PROVE ShellTypeOK'
  <2>1. buffer_input' \in [0..Size - 1 -> Bytes]
    BY <1>2 DEF UartRead, Bytes
  <2>2. rx' \in Seq(Typed)
    BY <1>2 DEF UartRead
  <2> QED
    BY <1>2, <2>1, <2>2 DEF UartRead
<1>3. CASE EndOfLine
  <2>1. CASE index > 0
    <3>1. buffer_input' \in [0..Size - 1 -> Bytes]
      BY <1>3, <2>1, EndOfLineHands DEF Bytes
    <3>2. LineSoFar \in Seq(Bytes)
      BY LineTyped DEF LineFacts
    <3>3. /\ handed' = Append(handed, LineSoFar) /\ handed \in Seq(Seq(Bytes))
          /\ buffer_perline' = [buffer_perline EXCEPT ![~active] = LineSoFar]
          /\ buffer_perline \in [BOOLEAN -> Seq(Bytes)]
      BY <1>3, <2>1, EndOfLineHands
    <3>4. handed' \in Seq(Seq(Bytes)) /\ buffer_perline' \in [BOOLEAN -> Seq(Bytes)]
      <4> HIDE DEF ShellTypeOK
      <4> QED
        BY <3>2, <3>3
    <3>5. /\ active' \in BOOLEAN /\ stop_flag' \in BOOLEAN /\ index' = 0 /\ i' = i + 1 /\ i < len
          /\ UNCHANGED <<typing, rx, typed, len>>
      BY <1>3, <2>1, EndOfLineHands
    <3> QED
      BY <3>1, <3>4, <3>5
  <2>2. CASE ~(index > 0)
    BY <1>3, <2>2, EndOfLineSkips
  <2> QED
    BY <2>1, <2>2
<1>4. CASE OrdinaryByte
  <2>1. /\ i' = i + 1 /\ i < len /\ UNCHANGED <<typing, rx, typed, len, handover>>
        /\ buffer_input[i] \in Bytes
    BY <1>4, OrdinaryByteKeeps
  <2>2. CASE index >= Size - 1 /\ UNCHANGED <<buffer_input, index>>
    BY <2>1, <2>2
  <2>3. CASE /\ index < Size - 1 /\ index' = index + 1
             /\ buffer_input' = [buffer_input EXCEPT ![index] = buffer_input[i]]
    <3>1. buffer_input' \in [0..Size - 1 -> Bytes]
      BY <2>1, <2>3
    <3>2. index' \in 0..Size - 1
      BY <2>3
    <3> QED
      BY <2>1, <3>1, <3>2
  <2> QED
    BY <1>4, <2>2, <2>3, OrdinaryByteKeeps
<1>5. CASE UNCHANGED shellVars
  BY <1>5 DEF shellVars
<1> QED
  BY <1>1, <1>2, <1>3, <1>4, <1>5 DEF ShellNext

(* Bytes that were typed or written are not garbage.                       *)
CleanBuffer ==
    \A p \in 0..Size - 1 : p < index \/ (i =< p /\ p < len) => buffer_input[p] # Garbage
CleanLines ==
    \A k \in 1..Len(handed) : \A p \in 1..Len(handed[k]) :
        handed[k][p] # Garbage /\ (handed[k][p] = Nul => typing = "any")

LEMMA CleanBufferNext ==
    ASSUME ShellTypeOK, CleanBuffer, [ShellNext]_shellVars
    PROVE  CleanBuffer'
<1> USE SizeAssumption, BytesDistinct
<1>0. /\ index \in 0..Size - 1 /\ i \in Nat /\ len \in 0..Size /\ i =< len /\ Size \in Nat
      /\ buffer_input \in [0..Size - 1 -> Bytes] /\ rx \in Seq(Typed)
  BY DEF ShellTypeOK
<1>1. ASSUME NEW n \in 1..Size, UartRead(n) PROVE CleanBuffer'
  <2>1. n =< Len(rx) /\ \A p \in 1..n : rx[p] # Garbage
    BY <1>0, <1>1 DEF UartRead, Typed
  <2>2. /\ buffer_input' = [p \in 0..Size - 1 |-> IF p < n THEN rx[p + 1] ELSE buffer_input[p]]
        /\ index' = index /\ i' = 0 /\ len' = n
    BY <1>1 DEF UartRead
  <2> SUFFICES ASSUME NEW p \in 0..Size - 1, p < index \/ (0 =< p /\ p < n)
               PROVE  buffer_input'[p] # Garbage
    BY <2>2 DEF CleanBuffer
  <2>3. CASE p < n
    BY <2>1, <2>2, <2>3
  <2>4. CASE ~(p < n)
    BY <1>0, <2>2, <2>4 DEF CleanBuffer
  <2> QED
    BY <2>3, <2>4
<1>2. CASE EndOfLine /\ index > 0
  BY <1>0, <1>2, EndOfLineHands DEF CleanBuffer
<1>3. CASE EndOfLine /\ ~(index > 0)
  BY <1>0, <1>3, EndOfLineSkips DEF CleanBuffer
<1>4. CASE OrdinaryByte
  <2>1. buffer_input[i] # Garbage
    BY <1>0, <1>4, OrdinaryByteKeeps DEF CleanBuffer
  <2> QED
    BY <1>0, <1>4, <2>1, OrdinaryByteKeeps DEF CleanBuffer
<1>5. CASE UNCHANGED scan
  BY <1>5 DEF scan, CleanBuffer
<1> QED
  BY <1>1, <1>2, <1>3, <1>4, <1>5 DEF ShellNext, shellVars, Key

(* Where reads are whole lines, or single keys, the line so far does not   *)
(* meet what is still to be scanned; so the NUL behind a line stays out.   *)
ReadsInv ==
    /\ typing = "lines" =>
          /\ index =< i
          /\ i < len => buffer_input[len - 1] = Eol
          /\ i = len => index = 0
    /\ typing = "keys" => len =< 1

NoNulAhead == typing # "any" =>
    \A p \in 0..Size - 1 : p < index \/ (i =< p /\ p < len) => buffer_input[p] # Nul

LEMMA ReadsNext ==
    ASSUME ShellTypeOK, ReadsInv, [ShellNext]_shellVars
    PROVE  ReadsInv'
<1> USE SizeAssumption, BytesDistinct
<1>0. /\ index \in 0..Size - 1 /\ i \in Nat /\ len \in 0..Size /\ i =< len /\ Size \in Nat
      /\ buffer_input \in [0..Size - 1 -> Bytes] /\ rx \in Seq(Typed)
  BY DEF ShellTypeOK
<1>1. ASSUME NEW n \in 1..Size, UartRead(n) PROVE ReadsInv'
  <2>1. /\ buffer_input' = [p \in 0..Size - 1 |-> IF p < n THEN rx[p + 1] ELSE buffer_input[p]]
        /\ index' = index /\ i' = 0 /\ len' = n /\ i = len /\ typing' = typing
        /\ typing = "lines" => rx[n] = Eol
        /\ typing = "keys" => n = 1
    BY <1>1 DEF UartRead
  <2>2. typing = "lines" => buffer_input'[n - 1] = Eol
    BY <2>1
  <2> QED
    BY <2>1, <2>2 DEF ReadsInv
<1>2. CASE EndOfLine /\ index > 0
  <2>1. /\ buffer_input' = [buffer_input EXCEPT ![index] = Nul] /\ index' = 0 /\ i' = i + 1
        /\ i < len /\ len' = len /\ typing' = typing
    BY <1>2, EndOfLineHands
  <2>2. ASSUME typing = "lines", i + 1 < len PROVE buffer_input'[len - 1] = Eol
    <3>1. len - 1 \in 0..Size - 1 /\ len - 1 # index /\ buffer_input[len - 1] = Eol
      BY <1>0, <2>1, <2>2 DEF ReadsInv
    <3> QED
      BY <1>0, <2>1, <3>1
  <2> QED
    BY <1>0, <2>1, <2>2 DEF ReadsInv
<1>3. CASE EndOfLine /\ ~(index > 0)
  BY <1>0, <1>3, EndOfLineSkips DEF ReadsInv
<1>4. CASE OrdinaryByte
  <2>1. buffer_input[i] # Eol
    BY <1>4 DEF OrdinaryByte
  <2>2. /\ i' = i + 1 /\ i < len /\ len' = len /\ typing' = typing
        /\ \/ index < Size - 1 /\ index' = index + 1
              /\ buffer_input' = [buffer_input EXCEPT ![index] = buffer_input[i]]
           \/ index' = index /\ buffer_input' = buffer_input
    BY <1>4, OrdinaryByteKeeps
  <2>3. ASSUME typing = "lines"
        PROVE  i + 1 < len /\ index' =< i + 1 /\ buffer_input'[len - 1] = Eol
    <3>1. index =< i /\ buffer_input[len - 1] = Eol
      BY <2>2, <2>3 DEF ReadsInv
    <3>2. i + 1 < len /\ len - 1 \in 0..Size - 1 /\ len - 1 # index
      BY <1>0, <2>1, <2>2, <3>1
    <3> QED
      BY <1>0, <2>2, <3>1, <3>2
  <2> QED
    BY <1>0, <2>2, <2>3 DEF ReadsInv
<1>5. CASE UNCHANGED <<typing, scan>>
  BY <1>5 DEF scan, ReadsInv
<1> QED
  BY <1>1, <1>2, <1>3, <1>4, <1>5 DEF ShellNext, shellVars, Key

LEMMA NoNulNext ==
    ASSUME ShellTypeOK, ReadsInv, NoNulAhead, [ShellNext]_shellVars
    PROVE  NoNulAhead'
<1> USE SizeAssumption, BytesDistinct
<1>0. /\ index \in 0..Size - 1 /\ i \in Nat /\ len \in 0..Size /\ i =< len /\ Size \in Nat
      /\ buffer_input \in [0..Size - 1 -> Bytes] /\ rx \in Seq(Typed)
      /\ typing \in {"lines", "keys", "any"}
  BY DEF ShellTypeOK
<1>1. ASSUME NEW n \in 1..Size, UartRead(n) PROVE NoNulAhead'
  <2>1. n =< Len(rx) /\ \A p \in 1..n : rx[p] # Nul
    BY <1>0, <1>1 DEF UartRead, Typed
  <2>2. /\ buffer_input' = [p \in 0..Size - 1 |-> IF p < n THEN rx[p + 1] ELSE buffer_input[p]]
        /\ index' = index /\ i' = 0 /\ len' = n /\ typing' = typing
    BY <1>1 DEF UartRead
  <2> SUFFICES ASSUME typing # "any", NEW p \in 0..Size - 1, p < index \/ (0 =< p /\ p < n)
               PROVE  buffer_input'[p] # Nul
    BY <2>2 DEF NoNulAhead
  <2>3. CASE p < n
    BY <2>1, <2>2, <2>3
  <2>4. CASE ~(p < n)
    BY <1>0, <2>2, <2>4 DEF NoNulAhead
  <2> QED
    BY <2>3, <2>4
<1>2. CASE EndOfLine /\ index > 0
  <2>1. /\ buffer_input' = [buffer_input EXCEPT ![index] = Nul] /\ index' = 0 /\ i' = i + 1
        /\ i < len /\ len' = len /\ typing' = typing
    BY <1>2, EndOfLineHands
  <2> SUFFICES ASSUME typing # "any", NEW p \in 0..Size - 1, i + 1 =< p, p < len
               PROVE  buffer_input'[p] # Nul
    BY <2>1 DEF NoNulAhead
  <2>2. p # index
    BY <1>0, <1>2 DEF ReadsInv
  <2> QED
    BY <1>0, <2>1, <2>2 DEF NoNulAhead
<1>3. CASE EndOfLine /\ ~(index > 0)
  BY <1>0, <1>3, EndOfLineSkips DEF NoNulAhead
<1>4. CASE OrdinaryByte
  <2>1. typing # "any" => buffer_input[i] # Nul
    BY <1>0, <1>4, OrdinaryByteKeeps DEF NoNulAhead
  <2> QED
    BY <1>0, <1>4, <2>1, OrdinaryByteKeeps DEF NoNulAhead
<1>5. CASE UNCHANGED <<typing, scan>>
  BY <1>5 DEF scan, NoNulAhead
<1> QED
  BY <1>1, <1>2, <1>3, <1>4, <1>5 DEF ShellNext, shellVars, Key

LEMMA HandedNext ==
    ASSUME ShellTypeOK, CleanBuffer, NoNulAhead, CleanLines, [ShellNext]_shellVars
    PROVE  CleanLines'
<1>0. typing' = typing
  BY DEF ShellNext, shellVars, Key, UartRead, EndOfLine, OrdinaryByte
<1>1. CASE EndOfLine /\ index > 0
  <2>1. handed \in Seq(Seq(Bytes)) /\ index \in 0..Size - 1
    BY DEF ShellTypeOK
  <2>2. /\ LineSoFar \in Seq(Bytes)
        /\ \A p \in 1..Len(LineSoFar) :
              LineSoFar[p] # Garbage /\ (LineSoFar[p] = Nul => typing = "any")
    <3>1. \A p \in 1..index : p - 1 \in 0..Size - 1 /\ p - 1 < index
      BY <2>1, SizeAssumption
    <3> QED
      BY <3>1, LineTyped DEF CleanBuffer, NoNulAhead, LineFacts
  <2>3. handed' = Append(handed, LineSoFar)
    BY <1>1, EndOfLineHands
  <2>4. /\ Len(handed') = Len(handed) + 1 /\ handed'[Len(handed) + 1] = LineSoFar
        /\ \A k \in 1..Len(handed) : handed'[k] = handed[k]
    BY <2>1, <2>2, <2>3
  <2>5. \A k \in 1..Len(handed') : k \in 1..Len(handed) \/ k = Len(handed) + 1
    BY <2>1, <2>4
  <2> QED
    BY <1>0, <2>2, <2>4, <2>5 DEF CleanLines
<1>2. CASE UNCHANGED handed
  BY <1>0, <1>2 DEF CleanLines
<1> QED
  BY <1>1, <1>2 DEF ShellNext, shellVars, Key, UartRead, EndOfLine, OrdinaryByte, handover

ShellInv == ShellTypeOK /\ CleanBuffer /\ ReadsInv /\ NoNulAhead /\ CleanLines

LEMMA ShellInductive == ShellSpec => []ShellInv
<1>1. ShellInit => ShellInv
  <2> SUFFICES ASSUME ShellInit PROVE ShellInv
    OBVIOUS
  <2>1. ShellTypeOK /\ LinesAreWritten
    BY ShellInitInv
  <2>2. index = 0 /\ i = 0 /\ len = 0
    BY Zenon DEF ShellInit
  <2> QED
    BY <2>1, <2>2
       DEF ShellInv, LinesAreWritten, CleanBuffer, CleanLines, ReadsInv, NoNulAhead
<1>2. ShellInv /\ [ShellNext]_shellVars => ShellInv'
  BY ShellTypeNext, CleanBufferNext, ReadsNext, NoNulNext, HandedNext DEF ShellInv
<1> QED
  BY <1>1, <1>2, PTL DEF ShellSpec

(* The length of the line, the place of the scan and the bytes in every    *)
(* buffer stay in range, for any size of the buffer and any typing: no     *)
(* write of the console is past the end of its arrays.                     *)
THEOREM ShellTypeCorrect == ShellSpec => []ShellTypeOK
<1>1. ShellInv => ShellTypeOK
  BY DEF ShellInv
<1> QED
  BY <1>1, ShellInductive, PTL

(* However the input is cut into reads, no byte that nobody wrote gets     *)
(* into a line, for any size of the buffer; and where reads are whole      *)
(* lines or single keys, neither does the NUL behind the last line.        *)
THEOREM OnlyWrittenBytes == ShellSpec => []LinesAreWritten
<1>1. ShellInv => LinesAreWritten
  BY DEF ShellInv, LinesAreWritten, CleanBuffer, CleanLines
<1> QED
  BY <1>1, ShellInductive, PTL

(* What LineReader has still to look at.                                   *)
UnscannedFacts ==
    /\ unscanned \in Seq(Bytes) /\ Len(unscanned) = len - i /\ len - i \in Nat
    /\ \A p \in 1..len - i : unscanned[p] = buffer_input[i + p - 1]
    /\ rx \in Seq(Bytes) /\ unscanned \o rx \in Seq(Bytes)

LEMMA UnscannedTyped == ShellTypeOK => UnscannedFacts
<1> SUFFICES ASSUME ShellTypeOK PROVE UnscannedFacts
  OBVIOUS
<1>1. /\ i \in Nat /\ len =< Size /\ len - i \in Nat /\ Size \in Nat
      /\ \A p \in 1..len - i : i + p - 1 \in 0..Size - 1
      /\ buffer_input \in [0..Size - 1 -> Bytes] /\ rx \in Seq(Typed)
  BY SizeAssumption DEF ShellTypeOK
<1>2. unscanned \in [1..len - i -> Bytes]
  BY <1>1 DEF unscanned
<1>3. unscanned \in Seq(Bytes) /\ rx \in Seq(Bytes)
  BY <1>1, <1>2, SeqDef, SeqMonotonic DEF Bytes
<1> QED
  <2>1. Len(unscanned) = len - i
    BY <1>1, <1>2, <1>3, LenProperties DEF unscanned
  <2>2. \A p \in 1..len - i : unscanned[p] = buffer_input[i + p - 1]
    BY <1>1 DEF unscanned
  <2>3. unscanned \o rx \in Seq(Bytes)
    BY <1>3, ConcatProperties
  <2> QED
    BY <1>1, <1>3, <2>1, <2>2, <2>3 DEF UnscannedFacts

LEMMA UnscannedTypedNext == ASSUME ShellTypeOK' PROVE UnscannedFacts'
BY UnscannedTyped, PTL

(* A byte that is scanned leaves the front of it.                          *)
LEMMA ScanTakesHead ==
    ASSUME ShellTypeOK, ShellTypeOK', i < len, i' = i + 1, len' = len, rx' = rx,
           \A p \in 0..Size - 1 : p > i /\ p < len => buffer_input'[p] = buffer_input[p]
    PROVE  /\ unscanned \o rx # <<>> /\ Head(unscanned \o rx) = buffer_input[i]
           /\ (unscanned \o rx)' = Tail(unscanned \o rx)
<1> DEFINE before == unscanned \o rx
           after == unscanned' \o rx
<1>0. i \in Nat /\ len \in 0..Size /\ Size \in Nat /\ len - i \in Nat
  BY SizeAssumption DEF ShellTypeOK
<1>1. /\ unscanned \in Seq(Bytes) /\ Len(unscanned) = len - i /\ rx \in Seq(Bytes)
      /\ \A p \in 1..len - i : unscanned[p] = buffer_input[i + p - 1]
  BY UnscannedTyped DEF UnscannedFacts
<1>2. /\ unscanned' \in Seq(Bytes) /\ Len(unscanned') = len - (i + 1)
      /\ \A p \in 1..len - (i + 1) : unscanned'[p] = buffer_input'[(i + 1) + p - 1]
  BY UnscannedTypedNext DEF UnscannedFacts
<1>3. /\ before \in Seq(Bytes) /\ Len(before) = Len(unscanned) + Len(rx)
      /\ \A p \in 1..Len(unscanned) + Len(rx) :
            before[p] = IF p <= Len(unscanned) THEN unscanned[p] ELSE rx[p - Len(unscanned)]
  BY <1>1, ConcatProperties
<1>4. /\ after \in Seq(Bytes) /\ Len(after) = Len(unscanned') + Len(rx)
      /\ \A p \in 1..Len(unscanned') + Len(rx) :
            after[p] = IF p <= Len(unscanned') THEN unscanned'[p] ELSE rx[p - Len(unscanned')]
  BY <1>1, <1>2, ConcatProperties
<1> HIDE DEF before, after
<1>5. Len(rx) \in Nat /\ Len(before) \in Nat \ {0} /\ Len(after) = Len(before) - 1
  BY <1>0, <1>1, <1>2, <1>3, <1>4
<1>6. before # <<>> /\ Head(before) = buffer_input[i]
  <2>1. before # <<>> /\ Head(before) = before[1]
    BY <1>3, <1>5
  <2>2. 1 \in 1..len - i /\ 1 \in 1..Len(unscanned) + Len(rx) /\ 1 =< Len(unscanned)
    BY <1>0, <1>1, <1>5
  <2>3. before[1] = unscanned[1]
    BY <1>3, <2>2
  <2>4. unscanned[1] = buffer_input[i + 1 - 1] /\ i + 1 - 1 = i
    BY <1>0, <1>1, <2>2
  <2> QED
    BY <2>1, <2>3, <2>4
<1>7. /\ Tail(before) \in Seq(Bytes) /\ Len(Tail(before)) = Len(before) - 1
      /\ \A p \in 1..Len(Tail(before)) : Tail(before)[p] = before[p + 1]
  BY <1>3, <1>6, HeadTailProperties
<1>8. ASSUME NEW p \in 1..Len(after) PROVE after[p] = before[p + 1]
  <2>1. /\ p \in Nat /\ p + 1 \in 1..Len(before)
        /\ Len(unscanned') = Len(unscanned) - 1 /\ Len(unscanned) \in Nat
    BY <1>0, <1>1, <1>2, <1>5
  <2>2. CASE p =< Len(unscanned')
    <3>1. after[p] = buffer_input'[(i + 1) + p - 1]
      BY <1>2, <1>4, <2>1, <2>2
    <3>2. before[p + 1] = buffer_input[i + (p + 1) - 1]
      BY <1>0, <1>1, <1>3, <2>1, <2>2
    <3>3. i + p \in 0..Size - 1 /\ i + p > i /\ i + p < len /\ (i + 1) + p - 1 = i + p /\ i + (p + 1) - 1 = i + p
      BY <1>0, <1>2, <2>1, <2>2
    <3> QED
      BY <3>1, <3>2, <3>3
  <2>3. CASE ~(p =< Len(unscanned'))
    <3>1. after[p] = rx[p - Len(unscanned')]
      BY <1>4, <2>1, <2>3
    <3>2. before[p + 1] = rx[(p + 1) - Len(unscanned)]
      BY <1>3, <2>1, <2>3
    <3>3. (p + 1) - Len(unscanned) = p - Len(unscanned')
      BY <2>1
    <3> QED
      BY <3>1, <3>2, <3>3
  <2> QED
    BY <2>2, <2>3
<1>9. after = Tail(before)
  BY <1>4, <1>5, <1>7, <1>8, SeqEqual
<1> QED
  BY <1>6, <1>9 DEF before, after

(* A read moves bytes, and a key adds one.                                 *)
LEMMA ReadMoves ==
    ASSUME ShellTypeOK, ShellTypeOK', NEW n \in 1..Size, UartRead(n)
    PROVE  (unscanned \o rx)' = unscanned \o rx
<1>1. /\ i = len /\ n \in 1..Len(rx) /\ i' = 0 /\ len' = n /\ rx' = SubSeq(rx, n + 1, Len(rx))
      /\ buffer_input' = [p \in 0..Size - 1 |-> IF p < n THEN rx[p + 1] ELSE buffer_input[p]]
  BY DEF UartRead
<1>2. unscanned \in Seq(Bytes) /\ Len(unscanned) = 0 /\ rx \in Seq(Bytes)
  <2>1. i \in Nat
    BY DEF ShellTypeOK
  <2> QED
    BY <1>1, <2>1, UnscannedTyped DEF UnscannedFacts
<1>3. unscanned \o rx = rx
  BY <1>2, EmptySeq, ConcatEmptySeq
<1>4. /\ unscanned' \in Seq(Bytes) /\ Len(unscanned') = n
      /\ \A p \in 1..n : unscanned'[p] = rx[p]
  <2>1. \A p \in 1..n : buffer_input'[0 + p - 1] = rx[p]
    BY <1>1, SizeAssumption
  <2> QED
    BY <1>1, <2>1, UnscannedTypedNext DEF UnscannedFacts
<1>5. /\ SubSeq(rx, 1, n) \in Seq(Bytes) /\ Len(SubSeq(rx, 1, n)) = n
      /\ \A p \in 1..n : SubSeq(rx, 1, n)[p] = rx[p]
  BY <1>1, <1>2
<1>6. unscanned' = SubSeq(rx, 1, n)
  BY <1>4, <1>5, SeqEqual
<1>7. SubSeq(rx, 1, n) \o SubSeq(rx, n + 1, Len(rx)) = rx
  BY <1>1, <1>2, ConcatAdjacentSubSeq, SubSeqFull
<1> QED
  BY <1>1, <1>3, <1>6, <1>7

LEMMA KeyAppends ==
    ASSUME ShellTypeOK, NEW b \in Typed, Key(b)
    PROVE  (unscanned \o rx)' = Append(unscanned \o rx, b)
<1>1. rx' = Append(rx, b) /\ unscanned' = unscanned
  BY DEF Key, scan, unscanned
<1>2. b \in Bytes /\ <<b>> \in Seq(Bytes)
  BY DEF Bytes
<1>3. unscanned \in Seq(Bytes) /\ rx \in Seq(Bytes) /\ unscanned \o rx \in Seq(Bytes)
  BY UnscannedTyped DEF UnscannedFacts
<1>4. Append(unscanned \o rx, b) = (unscanned \o rx) \o <<b>>
  BY <1>2, <1>3, AppendIsConcat
<1>5. Append(rx, b) = rx \o <<b>>
  BY <1>2, <1>3, AppendIsConcat
<1>6. unscanned \o (rx \o <<b>>) = (unscanned \o rx) \o <<b>>
  BY <1>2, <1>3, ConcatAssociative
<1> QED
  BY <1>1, <1>4, <1>5, <1>6

(* The line so far as LineReader has it.                                   *)
BarFacts ==
    /\ lineBar \in Seq(Bytes) /\ Len(lineBar) = index
    /\ \A p \in 1..index :
          lineBar[p] = IF p = 1 /\ typing = "keys" THEN Eol ELSE buffer_input[p - 1]

LEMMA BarTyped == ShellTypeOK => BarFacts
<1> SUFFICES ASSUME ShellTypeOK PROVE BarFacts
  OBVIOUS
<1>1. /\ index \in Nat /\ LineSoFar \in Seq(Bytes) /\ Len(LineSoFar) = index
      /\ \A p \in 1..index : LineSoFar[p] = buffer_input[p - 1]
  BY LineTyped, SizeAssumption DEF LineFacts, ShellTypeOK
<1>2. CASE typing = "keys" /\ index > 0
  <2>1. 1 \in 1..Len(LineSoFar) /\ Eol \in Bytes
    BY <1>1, <1>2 DEF Bytes, Typed
  <2>2. /\ [LineSoFar EXCEPT ![1] = Eol] \in Seq(Bytes)
        /\ Len([LineSoFar EXCEPT ![1] = Eol]) = index
        /\ \A p \in 1..index :
              [LineSoFar EXCEPT ![1] = Eol][p] = IF p = 1 THEN Eol ELSE LineSoFar[p]
    BY <1>1, <2>1, ExceptSeq
  <2> QED
    BY <1>1, <1>2, <2>2 DEF BarFacts, lineBar
<1>3. CASE ~(typing = "keys" /\ index > 0)
  BY <1>1, <1>3 DEF BarFacts, lineBar
<1> QED
  BY <1>2, <1>3

LEMMA BarTypedNext == ASSUME ShellTypeOK' PROVE BarFacts'
BY BarTyped, PTL

(* An ordinary byte extends it, while there is room.                       *)
LEMMA BarGrows ==
    ASSUME ShellTypeOK, ShellTypeOK', OrdinaryByte,
           NEW c, c = IF lineBar = <<>> /\ typing = "keys" THEN Eol ELSE buffer_input[i]
    PROVE  lineBar' = IF Len(lineBar) < Size - 1 THEN Append(lineBar, c) ELSE lineBar
<1>0. /\ index \in 0..Size - 1 /\ Size \in Nat /\ buffer_input \in [0..Size - 1 -> Bytes]
      /\ Len(lineBar) = index /\ lineBar \in Seq(Bytes) /\ typing' = typing
      /\ buffer_input[i] \in Bytes /\ Eol \in Bytes
  BY BarTyped, SizeAssumption, OrdinaryByteKeeps DEF ShellTypeOK, BarFacts, Bytes, Typed
<1>1. CASE index < Size - 1
  <2>1. /\ index' = index + 1
        /\ buffer_input' = [buffer_input EXCEPT ![index] = buffer_input[i]]
    BY <1>0, <1>1, OrdinaryByteKeeps
  <2>2. /\ lineBar' \in Seq(Bytes) /\ Len(lineBar') = index + 1
        /\ \A p \in 1..index + 1 :
              lineBar'[p] = IF p = 1 /\ typing = "keys" THEN Eol ELSE buffer_input'[p - 1]
    BY <1>0, <2>1, BarTypedNext DEF BarFacts
  <2>c. c \in Bytes /\ (lineBar = <<>> <=> index = 0)
    BY <1>0, EmptySeq
  <2>3. /\ Append(lineBar, c) \in Seq(Bytes) /\ Len(Append(lineBar, c)) = index + 1
        /\ \A p \in 1..index : Append(lineBar, c)[p] = lineBar[p]
        /\ Append(lineBar, c)[index + 1] = c
    BY <1>0, <2>c, AppendProperties
  <2>4. \A p \in 1..index + 1 :
            buffer_input'[p - 1] = IF p = index + 1 THEN buffer_input[i] ELSE buffer_input[p - 1]
    BY <1>0, <2>1
  <2>5. \A p \in 1..index + 1 : lineBar'[p] = Append(lineBar, c)[p]
    <3> SUFFICES ASSUME NEW p \in 1..index + 1
                 PROVE  lineBar'[p] = Append(lineBar, c)[p]
      OBVIOUS
    <3>1. CASE p = index + 1
      <4>1. p = 1 <=> index = 0
        BY <1>0, <3>1
      <4> QED
        BY <2>2, <2>3, <2>4, <2>c, <3>1, <4>1
    <3>2. CASE p # index + 1
      <4>1. p \in 1..index
        BY <1>0, <3>2
      <4>2. lineBar[p] = IF p = 1 /\ typing = "keys" THEN Eol ELSE buffer_input[p - 1]
        BY <4>1, BarTyped DEF BarFacts
      <4> QED
        BY <2>2, <2>3, <2>4, <3>2, <4>1, <4>2
    <3> QED
      BY <3>1, <3>2
  <2>6. lineBar' = Append(lineBar, c)
    BY <2>2, <2>3, <2>5, SeqEqual
  <2> QED
    BY <1>0, <1>1, <2>6
<1>2. CASE ~(index < Size - 1)
  <2>1. UNCHANGED <<buffer_input, index>>
    BY <1>0, <1>2, OrdinaryByteKeeps
  <2>2. lineBar' = lineBar
    BY <1>0, <2>1 DEF lineBar, LineSoFar
  <2> QED
    BY <1>0, <1>2, <2>2
<1> QED
  BY <1>1, <1>2

(* A read leaves it alone: it is empty, or the key lands on its first byte.*)
LEMMA ReadSpares ==
    ASSUME ShellTypeOK, ShellTypeOK', ReadsInv, typing # "any",
           NEW n \in 1..Size, UartRead(n)
    PROVE  lineBar' = lineBar
<1>0. /\ index \in 0..Size - 1 /\ Size \in Nat /\ typing' = typing /\ index' = index
      /\ typing \in {"lines", "keys", "any"} /\ i = len
      /\ buffer_input' = [p \in 0..Size - 1 |-> IF p < n THEN rx[p + 1] ELSE buffer_input[p]]
      /\ typing = "keys" => n = 1
  BY SizeAssumption DEF ShellTypeOK, UartRead
<1>1. /\ lineBar \in Seq(Bytes) /\ Len(lineBar) = index
      /\ lineBar' \in Seq(Bytes) /\ Len(lineBar') = index
      /\ \A p \in 1..index : lineBar[p] =
            IF p = 1 /\ typing = "keys" THEN Eol ELSE buffer_input[p - 1]
      /\ \A p \in 1..index : lineBar'[p] =
            IF p = 1 /\ typing = "keys" THEN Eol ELSE buffer_input'[p - 1]
  BY <1>0, BarTyped, BarTypedNext DEF BarFacts
<1>2. \A p \in 1..index : lineBar'[p] = lineBar[p]
  <2>1. typing = "lines" => index = 0
    BY <1>0 DEF ReadsInv
  <2>2. ASSUME typing = "keys", NEW p \in 1..index PROVE lineBar'[p] = lineBar[p]
    <3>1. p # 1 => buffer_input'[p - 1] = buffer_input[p - 1]
      BY <1>0, <2>2
    <3> QED
      BY <1>1, <2>2, <3>1
  <2> QED
    BY <1>0, <2>1, <2>2
<1> QED
  BY <1>1, <1>2, SeqEqual

(* Every step is a step of LineReader or none.                             *)
LEMMA ReaderStep ==
    ASSUME ShellTypeOK, ShellTypeOK', ReadsInv, [ShellNext]_shellVars
    PROVE  [Console!Next]_(Console!vars)
<1>0. typing' = typing /\ typing \in {"lines", "keys", "any"}
  BY DEF ShellNext, shellVars, Key, UartRead, EndOfLine, OrdinaryByte, ShellTypeOK
<1>1. CASE typing = "any"
  BY <1>0, <1>1 DEF IfClaimed, Console!vars
<1>2. ASSUME typing # "any", NEW b \in Typed, Key(b) PROVE Console!Type(b)
  <2>1. lineBar' = lineBar /\ handed' = handed
    BY <1>0, <1>2 DEF Key, scan, handover, lineBar, LineSoFar
  <2> QED
    BY <1>0, <1>2, <2>1, KeyAppends DEF IfClaimed, Console!Type
<1>3. ASSUME typing # "any", NEW n \in 1..Size, UartRead(n) PROVE UNCHANGED Console!vars
  <2>1. lineBar' = lineBar /\ handed' = handed
    BY <1>3, ReadSpares DEF UartRead, handover
  <2> QED
    BY <1>0, <1>3, <2>1, ReadMoves DEF IfClaimed, Console!vars
<1>4. CASE typing # "any" /\ EndOfLine
  <2>0. /\ index \in 0..Size - 1 /\ i \in Nat /\ Size \in Nat /\ i < len /\ len \in 0..Size
        /\ typing = "lines" => index =< i
        /\ typing = "keys" => len =< 1
        /\ buffer_input[i] = Eol /\ buffer_input \in [0..Size - 1 -> Bytes]
    BY <1>4, SizeAssumption DEF ShellTypeOK, ReadsInv, EndOfLine
  <2>1. CASE index > 0
    <3>0. /\ buffer_input' = [buffer_input EXCEPT ![index] = Nul] /\ index' = 0
          /\ handed' = Append(handed, LineSoFar)
      BY <1>4, <2>1, EndOfLineHands
    <3>1. lineBar' = <<>> /\ lineBar # <<>>
      BY <2>1, <3>0, BarTyped, BarTypedNext, EmptySeq DEF BarFacts
    <3>b. lineBar = LineSoFar
      <4>1. CASE typing = "keys"
        <5>1. i = 0 /\ 1 \in 1..index /\ LineSoFar[1] = buffer_input[1 - 1]
          BY <2>0, <2>1, <4>1, LineTyped DEF LineFacts
        <5>2. LineSoFar[1] = Eol
          BY <2>0, <5>1
        <5>3. LineSoFar = [p \in 1..index |-> buffer_input[p - 1]]
          BY DEF LineSoFar
        <5>4. [LineSoFar EXCEPT ![1] = Eol] = LineSoFar
          BY <5>2, <5>3
        <5> QED
          BY <5>4 DEF lineBar
      <4>2. CASE typing # "keys"
        BY <4>2 DEF lineBar
      <4> QED
        BY <4>1, <4>2
    <3>2. \A p \in 0..Size - 1 : p > i /\ p < len => buffer_input'[p] = buffer_input[p]
      <4>1. \A p \in 0..Size - 1 : p > i /\ p < len => p # index
        BY <1>0, <1>4, <2>0
      <4> QED
        BY <2>0, <3>0, <4>1
    <3>3. /\ unscanned \o rx # <<>> /\ Head(unscanned \o rx) = Eol
          /\ (unscanned \o rx)' = Tail(unscanned \o rx)
      BY <1>4, <2>0, <2>1, <3>2, EndOfLineHands, ScanTakesHead
    <3> QED
      BY <1>0, <1>4, <3>0, <3>1, <3>b, <3>3 DEF IfClaimed, Console!Next, Console!EndOfLine
  <2>2. CASE ~(index > 0)
    <3>1. lineBar' = <<>> /\ lineBar = <<>> /\ handed' = handed
      <4>1. index = 0 /\ index' = 0 /\ handed' = handed
        BY <1>4, <2>0, <2>2, EndOfLineSkips DEF handover
      <4> QED
        BY <4>1, BarTyped, BarTypedNext, EmptySeq DEF BarFacts
    <3>2. /\ unscanned \o rx # <<>> /\ Head(unscanned \o rx) = Eol
          /\ (unscanned \o rx)' = Tail(unscanned \o rx)
      BY <1>4, <2>0, <2>2, EndOfLineSkips, ScanTakesHead
    <3> QED
      BY <1>0, <1>4, <3>1, <3>2 DEF IfClaimed, Console!Next, Console!EndOfLine
  <2> QED
    BY <2>1, <2>2
<1>5. CASE typing # "any" /\ OrdinaryByte
  <2>0. /\ index \in 0..Size - 1 /\ i \in Nat /\ i < len /\ buffer_input[i] # Eol
        /\ typing = "lines" => index =< i
        /\ typing = "keys" => len =< 1
        /\ buffer_input \in [0..Size - 1 -> Bytes]
    BY <1>5, SizeAssumption DEF ShellTypeOK, ReadsInv, OrdinaryByte
  <2>1. \A p \in 0..Size - 1 : p > i /\ p < len => buffer_input'[p] = buffer_input[p]
    <3>1. \/ buffer_input' = [buffer_input EXCEPT ![index] = buffer_input[i]]
          \/ buffer_input' = buffer_input
      BY <1>5, OrdinaryByteKeeps
    <3>2. SUFFICES ASSUME NEW p \in 0..Size - 1, p > i, p < len
                   PROVE  buffer_input'[p] = buffer_input[p]
      OBVIOUS
    <3>3. p # index
      <4>1. len \in Nat
        BY DEF ShellTypeOK
      <4> QED
        BY <1>0, <1>5, <2>0, <3>2, <4>1
    <3>4. [buffer_input EXCEPT ![index] = buffer_input[i]][p] = buffer_input[p]
      BY <2>0, <3>3
    <3> QED
      BY <3>1, <3>4
  <2>2. /\ unscanned \o rx # <<>> /\ Head(unscanned \o rx) = buffer_input[i]
        /\ (unscanned \o rx)' = Tail(unscanned \o rx)
    BY <1>5, <2>1, OrdinaryByteKeeps, ScanTakesHead
  <2>3. handed' = handed
    BY <1>5 DEF OrdinaryByte, handover
  <2> DEFINE c == IF lineBar = <<>> /\ typing = "keys" THEN Eol ELSE buffer_input[i]
  <2>4. lineBar' = IF Len(lineBar) < Size - 1 THEN Append(lineBar, c) ELSE lineBar
    BY <1>5, BarGrows
  <2>5. IfClaimed(lineBar) = lineBar /\ IfClaimed(lineBar)' = lineBar'
    BY <1>0, <1>5 DEF IfClaimed
  <2>6. Console!Kept(buffer_input[i]) = c
    BY <2>5 DEF Console!Kept
  <2> QED
    BY <1>0, <1>5, <2>0, <2>2, <2>3, <2>4, <2>5, <2>6
       DEF IfClaimed, Console!Next, Console!OrdinaryByte
<1>6. CASE UNCHANGED shellVars
  BY <1>6 DEF shellVars, scan, handover, IfClaimed, unscanned, lineBar, LineSoFar,
              Console!vars
<1> QED
  BY <1>1, <1>2, <1>3, <1>4, <1>5, <1>6 DEF ShellNext, Console!Next

(* The console implements LineReader, for any size of the buffer: lines    *)
(* that are read whole are handed over as they were typed, and lines that  *)
(* are read key by key with an end of line for their first byte, cut at    *)
(* the size of the buffer.                                                 *)
THEOREM LinesAreKept == ShellSpec => KeepsLines
<1>1. ShellInit => Console!Init
  <2> SUFFICES ASSUME ShellInit PROVE Console!Init
    OBVIOUS
  <2>1. index = 0 /\ i = 0 /\ len = 0 /\ rx = <<>> /\ handed = <<>>
    BY Zenon DEF ShellInit
  <2>2. ShellTypeOK
    BY ShellInitInv
  <2>3. lineBar = <<>>
    BY <2>1, <2>2, BarTyped, EmptySeq DEF BarFacts
  <2>4. unscanned \in Seq(Bytes) /\ Len(unscanned) = 0
    BY <2>1, <2>2, UnscannedTyped DEF UnscannedFacts
  <2>5. unscanned \o rx = <<>>
    BY <2>1, <2>4, EmptySeq, ConcatEmptySeq
  <2> QED
    BY <2>1, <2>3, <2>5 DEF IfClaimed, Console!Init
<1>2. ShellInv /\ ShellInv' /\ [ShellNext]_shellVars => [Console!Next]_(Console!vars)
  BY ReaderStep DEF ShellInv
<1> QED
  BY <1>1, <1>2, ShellInductive, PTL DEF ShellSpec, KeepsLines, Console!Spec

-----------------------------------------------------------------------------
(* LineHandoff.                                                            *)

\* the text of a slot that was given its n-th line
LineAt(n) == IF n > 0 THEN n ELSE NoLine

\* the console has begun a line and not yet made its slot the active one
Writing == shell \in {"copying", "copied", "sized"}

\* how many lines were made active
Shown == IF Writing THEN entered - 1 ELSE entered

(* A line is notified after it is made active.                             *)
CountInv ==
    /\ entered > 0 \/ shell = "read"
    /\ notified =< (IF shell = "read" THEN entered ELSE entered - 1)

(* The slots hold the last two lines that were made active, or what the    *)
(* console is writing over the older one.                                  *)
SlotsInv ==
    /\ Writing => next_index = ~active_index
    /\ shell = "flipped" => next_index = active_index
    /\ text[active_index] = LineAt(Shown)
    /\ text_len[active_index] = LineAt(Shown)
    /\ text[~active_index] = (CASE shell = "copying" -> HalfCopied
                                [] shell \in {"copied", "sized"} -> entered
                                [] OTHER -> LineAt(Shown - 1))
    /\ text_len[~active_index] = IF shell = "sized" THEN entered ELSE LineAt(Shown - 1)

(* What the interpreter reads was written.                                 *)
ReadInv ==
    /\ lua = "absent" <=> ~LuaTaskHandle
    /\ notified > 0 \/ lua = "load" => Shown > 0
    /\ lua \in {"size", "copy", "copying"} => text_len[idx] # NoLine
    /\ lua \in {"copy", "copying", "run"} => line_len # NoLine
    /\ lua \in {"copying", "run"} => copy # NoLine

HandInv == HandoffTypeOK /\ CountInv /\ SlotsInv /\ ReadInv

LEMMA HandInit == ASSUME HandoffInit PROVE HandInv
<1> USE DEF HandoffInit
<1>1. /\ text \in [BOOLEAN -> {NoLine}] /\ text_len \in [BOOLEAN -> {NoLine}]
      /\ next_index \in BOOLEAN /\ active_index \in BOOLEAN /\ idx \in BOOLEAN
      /\ LuaTaskHandle \in BOOLEAN /\ ~LuaTaskHandle /\ paced \in BOOLEAN
  BY Zenon
<1>2. entered = 0 /\ notified = 0 /\ shell = "read" /\ lua = "absent" /\ device = "up"
      /\ copy = NoLine /\ line_len = NoLine /\ interpreted = <<>>
  BY Zenon
<1> USE HandoffAssumption
<1>3. HandoffTypeOK
  <2> HIDE DEF HandoffInit
  <2> QED
    BY <1>1, <1>2 DEF HandoffTypeOK, Texts, Lines
<1>4. CountInv /\ SlotsInv /\ ReadInv
  <2> HIDE DEF HandoffInit
  <2>1. \A s \in BOOLEAN : text[s] = NoLine /\ text_len[s] = NoLine
    BY <1>1
  <2>2. Shown = 0 /\ ~Writing /\ LineAt(0) = NoLine /\ LineAt(0 - 1) = NoLine
    BY <1>2 DEF Writing, Shown, LineAt
  <2>3. SlotsInv
    BY <1>1, <1>2, <2>1, <2>2 DEF SlotsInv
  <2>4. CountInv
    BY <1>2 DEF CountInv
  <2>5. ReadInv
    BY <1>1, <1>2 DEF ReadInv
  <2> QED
    BY <2>3, <2>4, <2>5
<1> QED
  BY <1>3, <1>4 DEF HandInv


LEMMA HandTypeNext ==
    ASSUME HandInv, [HandoffNext]_handoffVars
    PROVE  HandoffTypeOK'
<1> USE DEF HandInv, HandoffTypeOK, Texts, Lines, startup, console,
            slots, interpreter
<1>0. MaxLines \in Nat
  BY HandoffAssumption
<1>1. CASE BeginCopy
  BY <1>0, <1>1 DEF BeginCopy, MayEnter
<1>2. CASE EndCopy
  BY <1>0, <1>2 DEF EndCopy, CountInv
<1>3. CASE StoreLength
  BY <1>0, <1>3 DEF StoreLength, CountInv
<1>4. CASE StoreActive
  BY <1>0, <1>4 DEF StoreActive
<1>5. CASE NotifyGive
  BY <1>0, <1>5 DEF NotifyGive, CountInv
<1>6. CASE CreateLuaTask
  BY <1>6 DEF CreateLuaTask
<1>7. CASE NotifyTake
  BY <1>0, <1>7 DEF NotifyTake
<1>8. CASE LoadActive
  BY <1>8 DEF LoadActive
<1>9. CASE LoadLength
  BY <1>9 DEF LoadLength
<1>10. CASE BeginRead
  BY <1>10 DEF BeginRead
<1>11. CASE EndRead
  BY <1>11 DEF EndRead
<1>12. CASE Interpret
  <2>1. interpreted' \in Seq(Texts)
    BY <1>12 DEF Interpret
  <2> QED
    BY <1>12, <2>1 DEF Interpret
<1>13. CASE UNCHANGED handoffVars
  BY <1>13 DEF handoffVars
<1> QED
  BY <1>1, <1>2, <1>3, <1>4, <1>5, <1>6, <1>7, <1>8, <1>9, <1>10, <1>11, <1>12, <1>13
     DEF HandoffNext, Hand, Run

(* An action of the console.                                               *)
LEMMA ConsoleStep ==
    ASSUME HandInv, Hand
    PROVE  CountInv' /\ SlotsInv' /\ ReadInv'
<1> USE DEF HandInv, HandoffTypeOK, startup, console, slots, interpreter,
            Writing, Shown
<1>0. /\ MaxLines \in Nat /\ NoLine \notin Nat /\ HalfCopied \notin Nat
      /\ HalfCopied # NoLine
  BY HandoffAssumption
<1>1. CASE BeginCopy
  BY <1>0, <1>1 DEF BeginCopy, MayEnter, CountInv, SlotsInv, ReadInv, LineAt
<1>2. CASE EndCopy
  BY <1>0, <1>2 DEF EndCopy, CountInv, SlotsInv, ReadInv, LineAt
<1>3. CASE StoreLength
  BY <1>0, <1>3 DEF StoreLength, CountInv, SlotsInv, ReadInv, LineAt
<1>4. CASE StoreActive
  BY <1>0, <1>4 DEF StoreActive, CountInv, SlotsInv, ReadInv, LineAt
<1>5. CASE NotifyGive
  BY <1>0, <1>5 DEF NotifyGive, CountInv, SlotsInv, ReadInv, LineAt
<1> QED
  BY <1>1, <1>2, <1>3, <1>4, <1>5 DEF Hand

(* An action of the interpreter, or its creation.                          *)
LEMMA InterpreterStep ==
    ASSUME HandInv, Run
    PROVE  CountInv' /\ SlotsInv' /\ ReadInv'
<1> USE DEF HandInv, HandoffTypeOK, startup, console, slots
<1>0. /\ MaxLines \in Nat /\ NoLine \notin Nat /\ HalfCopied # NoLine
  BY HandoffAssumption
<1>1. /\ UNCHANGED <<shell, next_index, entered, active_index, text, text_len>>
      /\ notified' \in {0, notified}
  BY DEF Run, CreateLuaTask, NotifyTake, LoadActive, LoadLength,
         BeginRead, EndRead, Interpret
<1>2. CountInv' /\ SlotsInv' /\ Shown' = Shown /\ Shown \in Int
  BY <1>1 DEF CountInv, SlotsInv, Shown, Writing
<1>3. \A s \in BOOLEAN : text_len[s] # NoLine => text[s] # NoLine
  BY <1>0 DEF SlotsInv, Shown, Writing, LineAt
<1>4. CASE CreateLuaTask
  BY <1>2, <1>4 DEF CreateLuaTask, ReadInv
<1>5. CASE NotifyTake
  BY <1>2, <1>5 DEF NotifyTake, ReadInv
<1>6. CASE LoadActive
  BY <1>0, <1>2, <1>6 DEF LoadActive, ReadInv, SlotsInv, LineAt
<1>7. CASE LoadLength
  BY <1>2, <1>7 DEF LoadLength, ReadInv
<1>8. CASE BeginRead
  BY <1>2, <1>3, <1>8 DEF BeginRead, ReadInv
<1>9. CASE EndRead
  BY <1>0, <1>2, <1>9 DEF EndRead, ReadInv
<1>10. CASE Interpret
  BY <1>2, <1>10 DEF Interpret, ReadInv
<1> QED
  BY <1>2, <1>4, <1>5, <1>6, <1>7, <1>8, <1>9, <1>10 DEF Run

LEMMA HandStep ==
    ASSUME HandInv, [HandoffNext]_handoffVars
    PROVE  HandInv'
<1>1. HandoffTypeOK'
  BY HandTypeNext
<1>2. CASE UNCHANGED handoffVars
  BY <1>1, <1>2 DEF handoffVars, startup, console, slots, interpreter,
     HandInv, CountInv, SlotsInv, ReadInv, Writing, Shown
<1> QED
  BY <1>1, <1>2, ConsoleStep, InterpreterStep DEF HandoffNext, HandInv

LEMMA HandInductive == HandoffSpec => []HandInv
<1>1. HandoffInit => HandInv
  BY HandInit
<1>2. HandInv /\ [HandoffNext]_handoffVars => HandInv'
  BY HandStep
<1> QED
  BY <1>1, <1>2, PTL DEF HandoffSpec

(* The places of both threads, the numbers of the lines in the slots and   *)
(* the count of notifications stay within their sets, for any number of    *)
(* lines.                                                                  *)
THEOREM HandoffTypeCorrect == HandoffSpec => []HandoffTypeOK
<1>1. HandInv => HandoffTypeOK
  BY DEF HandInv
<1> QED
  BY <1>1, HandInductive, PTL

(* The interpreter reads slots that were written, and the console writes   *)
(* over the one it is reading with its second line only.                   *)
THEOREM SlotsStayApart == HandoffSpec => []SlotsKeepApart
<1>1. ASSUME HandInv PROVE SlotsKeepApart
  <2>1. NeverEmpty
    BY <1>1 DEF HandInv, ReadInv, NeverEmpty
  <2>2. OverwritesOnlyWhenLapped
    BY <1>1 DEF HandInv, HandoffTypeOK, SlotsInv, ReadInv, Writing, Shown, LineAt,
                OverwritesOnlyWhenLapped
  <2> QED
    BY <2>1, <2>2 DEF SlotsKeepApart
<1> QED
  BY <1>1, HandInductive, PTL

(* The user who waits: a line is on its way from the console, in the       *)
(* notification, or in the interpreter, and no other.                      *)
Done == Len(interpreted)
Idle == shell = "read" /\ notified = 0 /\ lua \in {"absent", "wait"} /\ entered = Done
Handing == shell # "read" /\ notified = 0 /\ lua = "wait" /\ entered = Done + 1
Notified == shell = "read" /\ notified = 1 /\ lua = "wait" /\ entered = Done + 1
Running == /\ shell = "read" /\ notified = 0 /\ entered = Done + 1
           /\ lua \in {"load", "size", "copy", "copying", "run"}
           /\ lua \in {"size", "copy", "copying"} => idx = active_index
           /\ lua \in {"copy", "copying", "run"} => line_len = entered
           /\ lua \in {"copying", "run"} => copy = entered
PacedInv == paced =>
    /\ entered > 0 => LuaTaskHandle
    /\ \A k \in 1..Done : interpreted[k] = k
    /\ Idle \/ Handing \/ Notified \/ Running

LEMMA LastIsDone ==
    ASSUME HandInv, PacedInv, paced
    PROVE  LastInterpreted = Done /\ Done \in Nat
BY DEF HandInv, HandoffTypeOK, PacedInv, LastInterpreted, Done

LEMMA PacedConsoleStep ==
    ASSUME HandInv, PacedInv, Hand
    PROVE  PacedInv'
<1> SUFFICES ASSUME paced PROVE PacedInv'
  BY DEF PacedInv, Hand, BeginCopy, EndCopy, StoreLength, StoreActive, NotifyGive, startup
<1> USE DEF startup, console, slots, interpreter, Idle, Handing, Notified, Running
<1>0. /\ entered \in Nat /\ notified \in Nat /\ lua = "absent" => ~LuaTaskHandle
      /\ Done \in Nat /\ LastInterpreted = Done
      /\ Done' = Done /\ LuaTaskHandle' = LuaTaskHandle
      /\ \A k \in 1..Done : interpreted'[k] = k
  <2>1. interpreted' = interpreted /\ LuaTaskHandle' = LuaTaskHandle
    BY DEF Hand, BeginCopy, EndCopy, StoreLength, StoreActive, NotifyGive
  <2>2. \A k \in 1..Done : interpreted[k] = k
    BY DEF PacedInv
  <2>3. Done \in Nat /\ LastInterpreted = Done
    BY LastIsDone
  <2>4. Done' = Done
    BY <2>1 DEF Done
  <2> QED
    BY <2>1, <2>2, <2>3, <2>4 DEF HandInv, HandoffTypeOK, ReadInv
<1>1. CASE BeginCopy
  BY <1>0, <1>1 DEF BeginCopy, MayEnter, PacedInv
<1>2. CASE EndCopy \/ StoreLength \/ StoreActive
  BY <1>0, <1>2 DEF EndCopy, StoreLength, StoreActive, PacedInv
<1>3. CASE NotifyGive
  BY <1>0, <1>3 DEF NotifyGive, PacedInv, HandInv, CountInv
<1> QED
  BY <1>1, <1>2, <1>3 DEF Hand

LEMMA PacedInterpreterStep ==
    ASSUME HandInv, PacedInv, Run
    PROVE  PacedInv'
<1> SUFFICES ASSUME paced PROVE PacedInv'
  BY DEF PacedInv, Run, CreateLuaTask, NotifyTake, LoadActive, LoadLength, BeginRead,
         EndRead, Interpret, startup
<1> USE DEF startup, console, slots, Idle, Handing, Notified, Running
<1>0. /\ entered \in Nat /\ notified \in Nat /\ Done \in Nat
      /\ active_index \in BOOLEAN /\ HandoffTypeOK
  BY LastIsDone DEF HandInv, HandoffTypeOK
<1>1. CASE CreateLuaTask
  BY <1>0, <1>1 DEF CreateLuaTask, PacedInv, Done, HandInv, ReadInv
<1>2. CASE NotifyTake
  BY <1>0, <1>2 DEF NotifyTake, PacedInv, Done
<1>3. CASE LoadActive
  BY <1>0, <1>3 DEF LoadActive, PacedInv, Done
<1>4. lua \in {"size", "copy", "copying"} => text[idx] = entered /\ text_len[idx] = entered
  BY <1>0 DEF PacedInv, HandInv, SlotsInv, Shown, Writing, LineAt
<1>5. CASE LoadLength
  BY <1>0, <1>4, <1>5 DEF LoadLength, PacedInv, Done
<1>6. CASE BeginRead
  BY <1>0, <1>4, <1>6 DEF BeginRead, PacedInv, Done
<1>7. CASE EndRead
  BY <1>0, <1>4, <1>7 DEF EndRead, PacedInv, Done
<1>8. CASE Interpret
  <2>1. lua = "run" /\ Running /\ copy = Done + 1 /\ entered = Done + 1
    BY <1>0, <1>8 DEF Interpret, PacedInv
  <2>2. /\ interpreted \in Seq(Texts) /\ copy \in Texts
        /\ interpreted' = Append(interpreted, copy)
    BY <1>0, <1>8 DEF Interpret, HandoffTypeOK
  <2>3. Done' = Done + 1 /\ \A k \in 1..Done' : interpreted'[k] = k
    BY <1>0, <2>1, <2>2 DEF PacedInv, Done
  <2> QED
    BY <1>0, <1>8, <2>1, <2>3 DEF Interpret, PacedInv
<1> QED
  BY <1>1, <1>2, <1>3, <1>5, <1>6, <1>7, <1>8 DEF Run

LEMMA PacedStep == ASSUME HandInv, PacedInv, [HandoffNext]_handoffVars PROVE PacedInv'
<1>1. CASE UNCHANGED handoffVars
  BY <1>1 DEF handoffVars, startup, console, slots, interpreter, PacedInv, Done, Idle,
     Handing, Notified, Running
<1> QED
  BY <1>1, PacedConsoleStep, PacedInterpreterStep DEF HandoffNext

(* Every step is a step of LineQueue or none.                              *)
LEMMA QueueStep ==
    ASSUME HandInv, PacedInv, [HandoffNext]_handoffVars
    PROVE  [Queue!Next]_(Queue!vars)
<1> USE DEF startup, console, slots, interpreter
<1>1. CASE ~paced
  BY <1>1 DEF HandoffNext, Hand, Run, BeginCopy, EndCopy, StoreLength, StoreActive,
     NotifyGive, CreateLuaTask, NotifyTake, LoadActive, LoadLength, BeginRead,
     EndRead, Interpret, Queue!vars, handoffVars
<1>2. CASE paced /\ BeginCopy
  BY <1>2 DEF BeginCopy, MayEnter, Queue!Next, Queue!Enter
<1>3. CASE paced /\ Interpret
  <2>1. copy = Len(interpreted) + 1 /\ Len(interpreted) < entered
    BY <1>3, LastIsDone DEF Interpret, PacedInv, Idle, Handing, Notified, Running, Done,
       HandInv, HandoffTypeOK
  <2> QED
    BY <1>3, <2>1 DEF Interpret, Queue!Next, Queue!Interpret
<1>4. CASE paced /\ UNCHANGED <<paced, interpreted, entered>>
  BY <1>4 DEF Queue!vars
<1> QED
  BY <1>1, <1>2, <1>3, <1>4 DEF HandoffNext, Hand, Run, EndCopy, StoreLength, StoreActive,
     NotifyGive, CreateLuaTask, NotifyTake, LoadActive, LoadLength, BeginRead, EndRead,
     handoffVars

(* For a user who waits for each line to be interpreted, the two threads   *)
(* implement LineQueue: every line is interpreted once, whole, in order,   *)
(* for any number of lines.                                                *)
THEOREM EveryLineHandedOver == HandoffSpec => HandsOverEveryLine
<1>1. HandoffInit => PacedInv /\ Queue!Init
  <2> SUFFICES ASSUME HandoffInit PROVE PacedInv /\ Queue!Init
    OBVIOUS
  <2>1. entered = 0 /\ notified = 0 /\ shell = "read" /\ lua = "absent" /\ interpreted = <<>>
    BY Zenon DEF HandoffInit
  <2> QED
    BY <2>1 DEF PacedInv, Idle, Done, Queue!Init
<1>2. HandInv /\ PacedInv /\ [HandoffNext]_handoffVars => PacedInv'
  BY PacedStep
<1>3. HandInv /\ PacedInv /\ [HandoffNext]_handoffVars => [Queue!Next]_(Queue!vars)
  BY QueueStep
<1> QED
  BY <1>1, <1>2, <1>3, HandInductive, PTL DEF HandoffSpec, HandsOverEveryLine, Queue!Spec

-----------------------------------------------------------------------------
(* Repl.                                                                   *)

(* The lines of the buffer are numbered in the order they were entered,    *)
(* and nothing has run that was not.                                       *)
ChunkInv ==
    /\ Len(lines) =< MaxTurns
    /\ state = "run" => lines # <<>>
    /\ \A p \in 1..Len(buffer_multiline) : buffer_multiline[p] =< Len(lines)
    /\ \A p, q \in 1..Len(buffer_multiline) :
          p < q => buffer_multiline[p] < buffer_multiline[q]
    /\ \A k \in 1..Len(ran) : \A m \in ran[k] : m =< Len(lines)

(* Without a failure the buffer holds no line that has run.                *)
AheadInv ==
    NoFailure => \A k \in 1..Len(ran) : \A m \in ran[k] :
        \A p \in 1..Len(buffer_multiline) : m < buffer_multiline[p]

(* RunsAsEntered, and what of it holds while a line is interpreted.        *)
SyncInv ==
    NoFailure /\ ~overfull =>
        /\ ran = reference.done
        /\ buffer_multiline = IF state = "wait" THEN reference.open
                              ELSE Append(reference.open, Len(lines))

(* FailureHoldsBack, by places of the buffer.                              *)
BlockInv ==
    \A p \in 1..Len(buffer_multiline) :
        Kind(buffer_multiline[p]) = "fail" =>
            \A k \in 1..Len(ran) : \A m \in ran[k] : m =< buffer_multiline[p]

TurnInv == ReplTypeOK /\ ChunkInv
ReplInv == TurnInv /\ AheadInv /\ RunsOnceInOrder /\ SyncInv /\ BlockInv

LEMMA ReplInitInv == ReplInit => ReplInv
<1> SUFFICES ASSUME ReplInit PROVE ReplInv
  OBVIOUS
<1>1. /\ memory = "intact" /\ state = "wait" /\ overfull = FALSE
      /\ buffer_multiline = <<>> /\ buffer_multiline_len = 0 /\ lines = <<>>
      /\ ran = <<>> /\ reference = [open |-> <<>>, done |-> <<>>]
  BY Zenon DEF ReplInit
<1>2. /\ Len(lines) = 0 /\ Len(buffer_multiline) = 0 /\ Len(ran) = 0
      /\ 0 \in 0..BufferSize - 1 /\ MaxTurns \in Nat
  BY <1>1, EmptySeq, ReplAssumption
<1>3. ReplTypeOK
  BY <1>1, <1>2, EmptySeq DEF ReplTypeOK
<1>4. ChunkInv /\ AheadInv /\ RunsOnceInOrder /\ BlockInv
  BY <1>1, <1>2 DEF ChunkInv, AheadInv, RunsOnceInOrder, BlockInv
<1>5. SyncInv
  BY <1>1 DEF SyncInv
<1> QED
  BY <1>3, <1>4, <1>5 DEF ReplInv, TurnInv

(* What runs of a chunk is taken from it, up to its first failing line.    *)
LEMMA ExecutedFacts ==
    ASSUME NEW S, NEW chunk \in Seq(S), NEW m \in Executed(chunk)
    PROVE  /\ m \in S
           /\ \E p \in 1..Len(chunk) :
                 m = chunk[p] /\ \A j \in 1..p - 1 : Kind(chunk[j]) # "fail"
<1>1. PICK p \in {n \in Statements(chunk) :
                     \A j \in 1..n - 1 : Kind(chunk[j]) # "fail"} : m = chunk[p]
  BY DEF Executed
<1>2. p \in 1..Len(chunk) /\ \A j \in 1..p - 1 : Kind(chunk[j]) # "fail"
  BY <1>1 DEF Statements
<1> QED
  BY <1>1, <1>2, ElementOfSeq

LEMMA ExecutedTyped ==
    ASSUME NEW S, NEW chunk \in Seq(S) PROVE Executed(chunk) \in SUBSET S
BY ExecutedFacts

(* The last line is in the chunk that is interpreted.                      *)
LEMMA InterpretedTyped ==
    ASSUME TurnInv, state = "run"
    PROVE  Interpreted \in [open : Seq(1..MaxTurns), done : Seq(SUBSET (1..MaxTurns))]
<1> DEFINE chunk == Append(reference.open, Len(lines))
<1>1. /\ reference \in [open : Seq(1..MaxTurns), done : Seq(SUBSET (1..MaxTurns))]
      /\ reference.open \in Seq(1..MaxTurns) /\ reference.done \in Seq(SUBSET (1..MaxTurns))
      /\ lines \in Seq([kind : Kinds, length : Lengths]) /\ lines # <<>>
      /\ Len(lines) =< MaxTurns
  BY DEF TurnInv, ReplTypeOK, ChunkInv
<1>2. Len(lines) \in 1..MaxTurns
  BY <1>1, EmptySeq, LenProperties, ReplAssumption
<1>3. chunk \in Seq(1..MaxTurns)
  BY <1>1, <1>2, AppendProperties
<1>4. Append(reference.done, Executed(chunk)) \in Seq(SUBSET (1..MaxTurns))
  BY <1>1, <1>3, ExecutedTyped, AppendProperties
<1>5. <<>> \in Seq(1..MaxTurns)
  BY EmptySeq
<1> HIDE DEF chunk
<1>6. Interpreted = CASE Compile(chunk) = "incomplete" -> [reference EXCEPT !.open = chunk]
      [] Compile(chunk) = "ok" ->
           [open |-> <<>>, done |-> Append(reference.done, Executed(chunk))]
      [] OTHER -> [reference EXCEPT !.open = <<>>]
  BY DEF Interpreted, chunk
<1> QED
  BY <1>1, <1>3, <1>4, <1>5, <1>6

(* The places of a sequence with one more element.                         *)
LEMMA AppendPlaces ==
    ASSUME NEW S, NEW seq \in Seq(S), NEW elt \in S,
           NEW p \in 1..Len(Append(seq, elt))
    PROVE  /\ p \in Nat /\ Len(seq) \in Nat
           /\ \/ p \in 1..Len(seq) /\ Append(seq, elt)[p] = seq[p] /\ p < Len(seq) + 1
              \/ p = Len(seq) + 1 /\ Append(seq, elt)[p] = elt
<1>1. Len(seq) \in Nat /\ Len(Append(seq, elt)) = Len(seq) + 1
  BY LenProperties, AppendProperties
<1>2. p \in Nat /\ (p \in 1..Len(seq) \/ p = Len(seq) + 1)
  BY <1>1
<1> QED
  BY <1>1, <1>2, AppendProperties

(* A line is numbered after all that were entered, and changes none of them. *)
LEMMA LineStep ==
    ASSUME ReplInv, NEW k \in Kinds, NEW l \in Lengths,
           Line([kind |-> k, length |-> l])
    PROVE  ReplInv'
<1> DEFINE line == [kind |-> k, length |-> l]
           n == Len(lines) + 1
<1>1. /\ memory = "intact" /\ state = "wait" /\ Len(lines) < MaxTurns
      /\ lines' = Append(lines, line) /\ state' = "run"
      /\ ran' = ran /\ reference' = reference
  BY DEF Line
<1>2. /\ memory' \in {"intact", "corrupt"}
      /\ buffer_multiline_len' = Wrap(Wrap(buffer_multiline_len + l) + 1)
      /\ \/ buffer_multiline' = Append(buffer_multiline, n) /\ overfull' = overfull
         \/ buffer_multiline' = <<>> /\ overfull' = TRUE
  <2>1. ReplTypeOK /\ l \in Nat /\ BufferSize \in Nat /\ line.length = l
    BY ReplAssumption DEF ReplInv, TurnInv
  <2>2. Extend(line)
    BY DEF Line
  <2>3. overfull' = (overfull \/ buffer_multiline_len + l + 1 >= BufferSize)
    BY <2>1, <2>2 DEF Extend
  <2>4. buffer_multiline_len \in 0..BufferSize - 1
    BY <2>1 DEF ReplTypeOK
  <2>5. buffer_multiline' = IF buffer_multiline_len + l + 1 < BufferSize
                            THEN Append(buffer_multiline, n) ELSE <<>>
    BY <2>1, <2>2 DEF Extend
  <2>6. CASE buffer_multiline_len + l + 1 < BufferSize
    <3>1. ~(buffer_multiline_len + l + 1 >= BufferSize)
      BY <2>1, <2>4, <2>6
    <3>2. overfull' = overfull
      BY <2>1, <2>3, <3>1, Zenon DEF ReplTypeOK
    <3> QED
      BY <2>1, <2>2, <2>5, <2>6, <3>2 DEF Extend
  <2>7. CASE ~(buffer_multiline_len + l + 1 < BufferSize)
    <3>1. buffer_multiline_len + l + 1 >= BufferSize
      BY <2>1, <2>4, <2>7
    <3>2. overfull' = TRUE
      BY <2>3, <3>1, Zenon
    <3> QED
      BY <2>1, <2>2, <2>5, <2>7, <3>2 DEF Extend
  <2> QED
    BY <2>6, <2>7
<1>3. /\ ReplTypeOK /\ ChunkInv /\ Len(lines) \in Nat /\ MaxTurns \in Nat
      /\ n \in 1..MaxTurns /\ lines \in Seq([kind : Kinds, length : Lengths])
      /\ buffer_multiline \in Seq(1..MaxTurns) /\ Len(buffer_multiline) \in Nat
      /\ Len(lines') = n /\ lines' \in Seq([kind : Kinds, length : Lengths])
      /\ lines' # <<>>
      /\ \A p \in 1..Len(lines) : lines'[p] = lines[p]
  <2>1. ReplTypeOK /\ ChunkInv /\ line \in [kind : Kinds, length : Lengths]
    BY DEF ReplInv, TurnInv
  <2>2. /\ lines \in Seq([kind : Kinds, length : Lengths]) /\ Len(lines) \in Nat
        /\ buffer_multiline \in Seq(1..MaxTurns) /\ Len(buffer_multiline) \in Nat
        /\ MaxTurns \in Nat
    BY <2>1, LenProperties, ReplAssumption DEF ReplTypeOK
  <2> HIDE DEF line
  <2>3. /\ lines' \in Seq([kind : Kinds, length : Lengths]) /\ lines' # <<>>
        /\ Len(lines') = n /\ \A p \in 1..Len(lines) : lines'[p] = lines[p]
    BY <1>1, <2>1, <2>2, AppendProperties
  <2> QED
    BY <1>1, <2>1, <2>2, <2>3
<1> HIDE DEF n, line
<1>4. /\ buffer_multiline' \in Seq(1..MaxTurns)
      /\ \A p \in 1..Len(buffer_multiline') :
            /\ p \in Nat
            /\ \/ /\ p \in 1..Len(buffer_multiline) /\ p < Len(buffer_multiline) + 1
                  /\ buffer_multiline'[p] = buffer_multiline[p]
               \/ p = Len(buffer_multiline) + 1 /\ buffer_multiline'[p] = n
  <2>1. CASE buffer_multiline' = Append(buffer_multiline, n)
    BY <1>3, <2>1, AppendProperties, AppendPlaces
  <2>2. CASE buffer_multiline' = <<>>
    BY <2>2, EmptySeq
  <2> QED
    BY <1>2, <2>1, <2>2
<1>5. /\ \A p \in 1..Len(buffer_multiline) :
            /\ buffer_multiline[p] \in 1..Len(lines) /\ buffer_multiline[p] \in Int
            /\ buffer_multiline[p] < n
      /\ \A j \in 1..Len(ran) : \A m \in ran[j] : m \in Int /\ m < n
      /\ n \in Int
  <2>1. \A p \in 1..Len(buffer_multiline) :
           buffer_multiline[p] \in 1..MaxTurns /\ buffer_multiline[p] =< Len(lines)
    BY <1>3, ElementOfSeq DEF ChunkInv
  <2>2. \A j \in 1..Len(ran) : \A m \in ran[j] : m \in 1..MaxTurns /\ m =< Len(lines)
    BY <1>3, ElementOfSeq DEF ReplTypeOK, ChunkInv
  <2>3. n \in Int /\ Len(lines) \in Nat /\ n = Len(lines) + 1
    BY <1>3 DEF n
  <2>4. \A p \in 1..Len(buffer_multiline) :
           /\ buffer_multiline[p] \in 1..Len(lines) /\ buffer_multiline[p] \in Int
           /\ buffer_multiline[p] < n
    BY <2>1, <2>3
  <2>5. \A j \in 1..Len(ran) : \A m \in ran[j] : m \in Int /\ m < n
    BY <2>2, <2>3
  <2> QED
    BY <2>3, <2>4, <2>5
<1>6. \A p \in 1..Len(lines) : Kind(p)' = Kind(p)
  BY <1>3 DEF Kind
<1>7. NoFailure' => NoFailure
  BY <1>3, <1>6 DEF NoFailure, n
<1>8. ReplTypeOK'
  <2>1. buffer_multiline_len' \in 0..BufferSize - 1
    <3>1. /\ l \in Nat /\ BufferSize \in Nat \ {0}
          /\ buffer_multiline_len \in Nat
      BY <1>3, ReplAssumption DEF ReplTypeOK
    <3>2. Wrap(buffer_multiline_len + l) \in Nat
      BY <3>1 DEF Wrap
    <3> QED
      BY <1>2, <3>1, <3>2 DEF Wrap
  <2>2. overfull' \in BOOLEAN
    BY <1>2, <1>3, Zenon DEF ReplTypeOK
  <2> QED
    BY <1>1, <1>2, <1>3, <1>4, <2>1, <2>2 DEF ReplTypeOK
<1>9. ChunkInv'
  <2>1. \A p \in 1..Len(buffer_multiline') : buffer_multiline'[p] =< n
    BY <1>4, <1>5
  <2>2. \A p, q \in 1..Len(buffer_multiline') :
           p < q => buffer_multiline'[p] < buffer_multiline'[q]
    <3> SUFFICES ASSUME NEW p \in 1..Len(buffer_multiline'),
                        NEW q \in 1..Len(buffer_multiline'), p < q
                 PROVE  buffer_multiline'[p] < buffer_multiline'[q]
      OBVIOUS
    <3>1. p \in 1..Len(buffer_multiline) /\ buffer_multiline'[p] = buffer_multiline[p]
      <4>1. /\ q \in Nat
            /\ q < Len(buffer_multiline) + 1 \/ q = Len(buffer_multiline) + 1
        BY <1>4
      <4>2. p # Len(buffer_multiline) + 1
        BY <1>3, <4>1
      <4> QED
        BY <1>4, <4>2
    <3>2. CASE q \in 1..Len(buffer_multiline) /\ buffer_multiline'[q] = buffer_multiline[q]
      BY <1>3, <3>1, <3>2 DEF ChunkInv
    <3>3. CASE buffer_multiline'[q] = n
      BY <1>3, <1>5, <3>1, <3>3 DEF n
    <3> QED
      BY <1>4, <3>2, <3>3
  <2>3. \A j \in 1..Len(ran) : \A m \in ran[j] : m =< n
    BY <1>3, <1>5 DEF n
  <2> QED
    BY <1>1, <1>3, <2>1, <2>2, <2>3 DEF ChunkInv
<1>10. AheadInv'
  <2> SUFFICES ASSUME NoFailure', NEW j \in 1..Len(ran), NEW m \in ran[j],
                      NEW p \in 1..Len(buffer_multiline')
               PROVE  m < buffer_multiline'[p]
    BY <1>1 DEF AheadInv
  <2>1. \A q \in 1..Len(buffer_multiline) : m < buffer_multiline[q]
    BY <1>7 DEF ReplInv, AheadInv
  <2> QED
    BY <1>4, <1>5, <2>1
<1>11. RunsOnceInOrder'
  BY <1>1, <1>7 DEF ReplInv, RunsOnceInOrder
<1>12. SyncInv'
  BY <1>1, <1>2, <1>3, <1>7 DEF ReplInv, SyncInv
<1>13. BlockInv'
  <2> SUFFICES ASSUME NEW p \in 1..Len(buffer_multiline'),
                      lines'[buffer_multiline'[p]].kind = "fail",
                      NEW j \in 1..Len(ran), NEW m \in ran[j]
               PROVE  m =< buffer_multiline'[p]
    BY <1>1 DEF BlockInv, Kind
  <2>1. CASE p \in 1..Len(buffer_multiline) /\ buffer_multiline'[p] = buffer_multiline[p]
    <3>1. Kind(buffer_multiline[p]) = "fail"
      BY <1>3, <1>5, <2>1 DEF Kind
    <3> QED
      BY <2>1, <3>1 DEF ReplInv, BlockInv
  <2>2. CASE buffer_multiline'[p] = n
    BY <1>5, <2>2
  <2> QED
    BY <1>4, <2>1, <2>2
<1> QED
  BY <1>8, <1>9, <1>10, <1>11, <1>12, <1>13 DEF ReplInv, TurnInv

(* What a turn does to the buffer and to what has run.                     *)
Keeps == buffer_multiline' = buffer_multiline /\ buffer_multiline_len' = buffer_multiline_len
Runs == ran' = Append(ran, Executed(buffer_multiline))

(* The buffer as it is run.                                                *)
LEMMA BufferRuns ==
    ASSUME TurnInv, NEW m \in Executed(buffer_multiline)
    PROVE  /\ m \in 1..MaxTurns /\ m =< Len(lines)
           /\ \E p \in 1..Len(buffer_multiline) :
                 m = buffer_multiline[p]
                 /\ \A j \in 1..p - 1 : Kind(buffer_multiline[j]) # "fail"
<1>1. buffer_multiline \in Seq(1..MaxTurns)
  BY DEF TurnInv, ReplTypeOK
<1>2. /\ m \in 1..MaxTurns
      /\ \E p \in 1..Len(buffer_multiline) :
            m = buffer_multiline[p]
            /\ \A j \in 1..p - 1 : Kind(buffer_multiline[j]) # "fail"
  BY <1>1, ExecutedFacts
<1> QED
  BY <1>2 DEF TurnInv, ChunkInv

(* The list of what has run with one more chunk.                           *)
LEMMA RunsPlaces ==
    ASSUME TurnInv, Runs, NEW k \in 1..Len(ran')
    PROVE  /\ k \in Nat
           /\ \/ k \in 1..Len(ran) /\ k < Len(ran) + 1 /\ ran'[k] = ran[k]
              \/ k = Len(ran) + 1 /\ ran'[k] = Executed(buffer_multiline)
<1>1. ran \in Seq(SUBSET (1..MaxTurns)) /\ buffer_multiline \in Seq(1..MaxTurns)
  BY DEF TurnInv, ReplTypeOK
<1> QED
  BY <1>1, ExecutedTyped, AppendPlaces DEF Runs

LEMMA TurnKeepsTypes ==
    ASSUME TurnInv, Turn, Keeps \/ Clear, ran' = ran \/ Runs,
           overfull' = overfull \/ overfull' = TRUE
    PROVE  TurnInv'
<1>1. /\ state = "run" /\ state' = "wait" /\ reference' = Interpreted
      /\ memory' = memory /\ lines' = lines
  BY DEF Turn
<1>2. ReplTypeOK /\ ChunkInv /\ BufferSize \in Nat /\ 0 \in 0..BufferSize - 1
  BY ReplAssumption DEF TurnInv
<1>3. buffer_multiline' = buffer_multiline \/ buffer_multiline' = <<>>
  BY DEF Keeps, Clear
<1>4. buffer_multiline_len' = buffer_multiline_len \/ buffer_multiline_len' = 0
  BY DEF Keeps, Clear
<1>5. /\ ran' \in Seq(SUBSET (1..MaxTurns))
      /\ \A k \in 1..Len(ran') : \A m \in ran'[k] : m =< Len(lines)
  <2>1. CASE ran' = ran
    BY <1>2, <2>1 DEF ReplTypeOK, ChunkInv
  <2>2. CASE Runs
    <3>1. ran' \in Seq(SUBSET (1..MaxTurns))
      BY <1>2, <2>2, ExecutedTyped, AppendProperties DEF ReplTypeOK, Runs
    <3>2. ASSUME NEW k \in 1..Len(ran'), NEW m \in ran'[k] PROVE m =< Len(lines)
      <4>1. CASE k \in 1..Len(ran) /\ ran'[k] = ran[k]
        BY <1>2, <3>2, <4>1 DEF ChunkInv
      <4>2. CASE ran'[k] = Executed(buffer_multiline)
        BY <3>2, <4>2, BufferRuns
      <4> QED
        BY <2>2, <4>1, <4>2, RunsPlaces
    <3> QED
      BY <3>1, <3>2
  <2> QED
    BY <2>1, <2>2
<1>6. ReplTypeOK'
  <2>1. overfull' \in BOOLEAN
    BY <1>2, Zenon DEF ReplTypeOK
  <2>2. reference' \in [open : Seq(1..MaxTurns), done : Seq(SUBSET (1..MaxTurns))]
    BY <1>1, InterpretedTyped
  <2> QED
    BY <1>1, <1>2, <1>3, <1>4, <1>5, <2>1, <2>2, EmptySeq DEF ReplTypeOK
<1>7. ChunkInv'
  <2>1. CASE buffer_multiline' = buffer_multiline
    BY <1>1, <1>2, <1>5, <2>1 DEF ChunkInv
  <2>2. CASE buffer_multiline' = <<>>
    BY <1>1, <1>2, <1>5, <2>2, EmptySeq DEF ChunkInv
  <2> QED
    BY <1>3, <2>1, <2>2
<1> QED
  BY <1>6, <1>7 DEF TurnInv

(* A chunk that runs without a failure runs after all that ran before.     *)
LEMMA RunsInOrder ==
    ASSUME TurnInv, AheadInv, RunsOnceInOrder, Runs, NoFailure,
           NEW j \in 1..Len(ran'), NEW k \in 1..Len(ran'), j < k,
           NEW m \in ran'[j], NEW n \in ran'[k]
    PROVE  m < n
<1>0. Len(ran) \in Nat
  BY LenProperties DEF TurnInv, ReplTypeOK
<1>1. j \in 1..Len(ran) /\ ran'[j] = ran[j]
  <2>1. k \in Nat /\ (k < Len(ran) + 1 \/ k = Len(ran) + 1)
    BY RunsPlaces
  <2>2. j # Len(ran) + 1
    BY <1>0, <2>1
  <2> QED
    BY <2>2, RunsPlaces
<1>2. CASE k \in 1..Len(ran) /\ ran'[k] = ran[k]
  BY <1>1, <1>2 DEF RunsOnceInOrder
<1>3. CASE ran'[k] = Executed(buffer_multiline)
  <2>1. PICK p \in 1..Len(buffer_multiline) : n = buffer_multiline[p]
    BY <1>3, BufferRuns
  <2> QED
    BY <1>1, <2>1 DEF AheadInv
<1> QED
  BY <1>2, <1>3, RunsPlaces

(* Up to a failing line that stays, and no further.                        *)
LEMMA RunsUpToFailure ==
    ASSUME TurnInv, BlockInv, Runs,
           NEW p \in 1..Len(buffer_multiline), Kind(buffer_multiline[p]) = "fail",
           NEW k \in 1..Len(ran'), NEW m \in ran'[k]
    PROVE  m =< buffer_multiline[p]
<1>1. CASE k \in 1..Len(ran) /\ ran'[k] = ran[k]
  BY <1>1 DEF BlockInv
<1>2. CASE ran'[k] = Executed(buffer_multiline)
  <2>1. PICK q \in 1..Len(buffer_multiline) :
           /\ m = buffer_multiline[q] /\ m \in 1..MaxTurns
           /\ \A j \in 1..q - 1 : Kind(buffer_multiline[j]) # "fail"
    BY <1>2, BufferRuns
  <2>2. ~(p \in 1..q - 1)
    BY <2>1
  <2>3. p = q \/ q < p
    BY <2>2
  <2>4. buffer_multiline[p] \in Int
    <3>1. buffer_multiline \in Seq(1..MaxTurns)
      BY DEF TurnInv, ReplTypeOK
    <3>2. buffer_multiline[p] \in 1..MaxTurns
      BY <3>1, ElementOfSeq
    <3> QED
      BY <3>2
  <2> QED
    BY <2>1, <2>3, <2>4 DEF TurnInv, ChunkInv
<1> QED
  BY <1>1, <1>2, RunsPlaces

(* What interpreting the line on its own gives.                            *)
LEMMA InterpretedAlike ==
    ASSUME TurnInv, SyncInv, Turn, NoFailure, ~overfull
    PROVE  /\ ran = reference.done
           /\ reference'.open = IF Compiled = "incomplete" THEN buffer_multiline ELSE <<>>
           /\ reference'.done = IF Compiled = "ok"
                                  THEN Append(ran, Executed(buffer_multiline)) ELSE ran
<1>1. /\ state = "run" /\ reference' = Interpreted
      /\ reference \in [open : Seq(1..MaxTurns), done : Seq(SUBSET (1..MaxTurns))]
  BY DEF Turn, TurnInv, ReplTypeOK
<1>2. ran = reference.done /\ buffer_multiline = Append(reference.open, Len(lines))
  BY <1>1 DEF SyncInv
<1>3. reference' = CASE Compiled = "incomplete" ->
                          [reference EXCEPT !.open = buffer_multiline]
                     [] Compiled = "ok" ->
                          [open |-> <<>>, done |-> Append(ran, Executed(buffer_multiline))]
                     [] OTHER -> [reference EXCEPT !.open = <<>>]
  BY <1>1, <1>2 DEF Interpreted, Compiled
<1> QED
  BY <1>1, <1>2, <1>3

LEMMA SameLines == ASSUME Turn PROVE (NoFailure' <=> NoFailure) /\ state' = "wait"
BY DEF Turn, NoFailure, Kind

(* The buffer is emptied.                                                  *)
LEMMA ClearStep ==
    ASSUME Turn, Clear PROVE AheadInv' /\ BlockInv'
<1>1. Len(buffer_multiline') = 0
  BY EmptySeq DEF Clear
<1> QED
  BY <1>1 DEF AheadInv, BlockInv

LEMMA IncompleteStep == ASSUME ReplInv, Incomplete PROVE ReplInv'
<1>1. /\ Turn /\ Compiled = "incomplete" /\ Keeps
      /\ overfull' = overfull /\ ran' = ran /\ lines' = lines
  BY DEF Incomplete, buffer, Keeps, Turn
<1>2. TurnInv'
  BY <1>1, TurnKeepsTypes DEF ReplInv
<1>3. AheadInv' /\ RunsOnceInOrder' /\ BlockInv'
  BY <1>1, SameLines DEF ReplInv, Keeps, AheadInv, RunsOnceInOrder, BlockInv, Kind
<1>4. SyncInv'
  BY <1>1, SameLines, InterpretedAlike DEF ReplInv, SyncInv, Keeps
<1> QED
  BY <1>2, <1>3, <1>4 DEF ReplInv

LEMMA RetryWrapsStep == ASSUME ReplInv, RetryWraps PROVE ReplInv'
<1>1. Turn /\ Clear /\ overfull' = TRUE /\ ran' = ran
  BY DEF RetryWraps
<1>2. TurnInv'
  BY <1>1, TurnKeepsTypes DEF ReplInv
<1>3. RunsOnceInOrder' /\ SyncInv'
  BY <1>1, SameLines DEF ReplInv, RunsOnceInOrder, SyncInv
<1> QED
  BY <1>1, <1>2, <1>3, ClearStep DEF ReplInv

LEMMA SyntaxErrorStep == ASSUME ReplInv, SyntaxError PROVE ReplInv'
<1>1. /\ Turn /\ Clear /\ overfull' = overfull /\ ran' = ran
      /\ Compiled # "ok" /\ Compiled # "incomplete"
  BY DEF SyntaxError
<1>2. TurnInv'
  BY <1>1, TurnKeepsTypes DEF ReplInv
<1>3. RunsOnceInOrder'
  BY <1>1, SameLines DEF ReplInv, RunsOnceInOrder
<1>4. SyncInv'
  BY <1>1, SameLines, InterpretedAlike DEF ReplInv, SyncInv, Clear
<1> QED
  BY <1>1, <1>2, <1>3, <1>4, ClearStep DEF ReplInv

LEMMA SuccessStep == ASSUME ReplInv, Success PROVE ReplInv'
<1>1. Turn /\ Clear /\ overfull' = overfull /\ Runs /\ Compiled = "ok"
  BY DEF Success, Runs
<1>2. TurnInv'
  BY <1>1, TurnKeepsTypes DEF ReplInv
<1>3. RunsOnceInOrder'
  BY <1>1, SameLines, RunsInOrder DEF ReplInv, RunsOnceInOrder
<1>4. SyncInv'
  BY <1>1, SameLines, InterpretedAlike DEF ReplInv, SyncInv, Clear, Runs
<1> QED
  BY <1>1, <1>2, <1>3, <1>4, ClearStep DEF ReplInv

LEMMA RuntimeErrorStep == ASSUME ReplInv, RuntimeError PROVE ReplInv'
<1>1. /\ Turn /\ Keeps /\ overfull' = overfull /\ Runs /\ Fails(buffer_multiline)
      /\ lines' = lines
  BY DEF RuntimeError, buffer, Keeps, Runs, Turn
<1>2. TurnInv'
  BY <1>1, TurnKeepsTypes DEF ReplInv
<1>3. ~NoFailure
  <2>1. PICK p \in 1..Len(buffer_multiline) : Kind(buffer_multiline[p]) = "fail"
    BY <1>1 DEF Fails
  <2>2. /\ buffer_multiline \in Seq(1..MaxTurns) /\ buffer_multiline[p] =< Len(lines)
        /\ lines \in Seq([kind : Kinds, length : Lengths])
    BY DEF ReplInv, TurnInv, ReplTypeOK, ChunkInv
  <2>3. buffer_multiline[p] \in 1..MaxTurns /\ Len(lines) \in Nat
    BY <2>2, ElementOfSeq, LenProperties
  <2>4. buffer_multiline[p] \in 1..Len(lines)
    BY <2>2, <2>3
  <2> QED
    BY <2>1, <2>4 DEF NoFailure
<1>4. AheadInv' /\ RunsOnceInOrder' /\ SyncInv'
  BY <1>1, <1>3, SameLines DEF AheadInv, RunsOnceInOrder, SyncInv
<1>5. BlockInv'
  BY <1>1, RunsUpToFailure DEF ReplInv, BlockInv, Keeps, Kind
<1> QED
  BY <1>2, <1>4, <1>5 DEF ReplInv

LEMMA ReplStep == ReplInv /\ [ReplNext]_replVars => ReplInv'
<1> SUFFICES ASSUME ReplInv, [ReplNext]_replVars PROVE ReplInv'
  OBVIOUS
<1>1. CASE \E k \in Kinds, l \in Lengths : Line([kind |-> k, length |-> l])
  BY <1>1, LineStep
<1>2. CASE Incomplete \/ RetryWraps \/ SyntaxError \/ Success \/ RuntimeError
  BY <1>2, IncompleteStep, RetryWrapsStep, SyntaxErrorStep, SuccessStep, RuntimeErrorStep
<1>3. CASE UNCHANGED replVars
  BY <1>3 DEF replVars, buffer, ReplInv, TurnInv, ReplTypeOK, ChunkInv, AheadInv,
              RunsOnceInOrder, SyncInv, BlockInv, NoFailure, Kind
<1> QED
  BY <1>1, <1>2, <1>3 DEF ReplNext

LEMMA ReplInductive == ReplSpec => []ReplInv
BY ReplInitInv, ReplStep, PTL DEF ReplSpec

(* The buffer and what has run keep to their types, whatever the sizes of  *)
(* the lines and of the buffer.                                            *)
THEOREM ReplTypeCorrect == ReplSpec => []ReplTypeOK
<1>1. ReplInv => ReplTypeOK
  BY DEF ReplInv, TurnInv
<1> QED
  BY <1>1, ReplInductive, PTL

(* For any lines, lengths and number of turns without a failing statement: *)
(* every chunk that was completed ran once and in its order as long as the *)
(* lines fitted the buffer; once they did not, whole chunks may be missing *)
(* but no statement ran twice or before an earlier one.                    *)
THEOREM ChunksRunOnce == ReplSpec => []RunsOnce
<1>1. ReplInv => RunsOnce
  BY DEF ReplInv, SyncInv, RunsOnce, RunsAsEntered
<1> QED
  BY <1>1, ReplInductive, PTL

(* Nothing that was entered after a failing line runs as long as that line *)
(* is in the buffer.                                                       *)
THEOREM FailuresHoldBack == ReplSpec => []FailureHoldsBack
<1>1. ReplInv => FailureHoldsBack
  <2> SUFFICES ASSUME ReplInv, NEW n \in Range(buffer_multiline), Kind(n) = "fail",
                      NEW k \in 1..Len(ran), NEW m \in ran[k]
               PROVE  m =< n
    BY DEF FailureHoldsBack
  <2>1. buffer_multiline \in Seq(1..MaxTurns)
    BY DEF ReplInv, TurnInv, ReplTypeOK
  <2>2. PICK p \in 1..Len(buffer_multiline) : n = buffer_multiline[p]
    BY <2>1 DEF Range
  <2> QED
    BY <2>2 DEF ReplInv, BlockInv
<1> QED
  BY <1>1, ReplInductive, PTL

=============================================================================
