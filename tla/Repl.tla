-------------------------------- MODULE Repl --------------------------------
(***************************************************************************)
(* One turn of _HandleLuaCommand (main/Core_Level.c) per line: the line is *)
(* added to buffer_multiline, the whole buffer is compiled, and it is run, *)
(* kept for more lines, or thrown away.  A line is known by what it means  *)
(* to the compiler and by its length; its place in the history names it.   *)
(* The buffer holds BufferSize bytes and its length is a uint8_t.          *)
(***************************************************************************)
EXTENDS Integers, Sequences, SequencesExt

CONSTANTS
    Kinds,       \* the kinds of line that are entered
    Lengths,     \* and their lengths, in bytes
    MaxLine,     \* CHAR_BUFFER_SIZE - 1
    BufferSize,  \* LUA_BUFFER_SIZE, which is also 2^8
    MaxTurns     \* bound on the lines entered

AllKinds == {"stmt",  \* a complete statement
             "fail",  \* a statement that raises an error when it runs
             "open",  \* opens a block
             "close", \* "end"
             "long",  \* opens a long string: "near <eof>" without "expected"
             "bad"}   \* a syntax error

ASSUME ReplAssumption ==
    /\ Kinds \subseteq AllKinds /\ Lengths \subseteq 1..MaxLine
    /\ MaxLine \in Nat /\ BufferSize \in Nat /\ MaxLine < BufferSize
    /\ MaxTurns \in Nat

VARIABLES
    memory,                \* "intact", or "corrupt" after a write past the buffer
    state,                 \* "wait" for a notification, or "run": in lua_pcall
    buffer_multiline,      \* the lines it holds, by number
    buffer_multiline_len,  \* their length
    lines,                 \* the lines that were entered, in order
    overfull,              \* history: lines did not fit the buffer
    ran,                   \* history: the statements each lua_pcall ran, in order
    reference              \* history: what the lines come to when each is
                           \* interpreted as it is entered, see Interpreted

buffer == <<buffer_multiline, buffer_multiline_len>>
replVars == <<memory, state, buffer, lines, overfull, ran, reference>>

ReplTypeOK ==
    /\ memory \in {"intact", "corrupt"} /\ state \in {"wait", "run"}
    /\ overfull \in BOOLEAN
    /\ buffer_multiline \in Seq(1..MaxTurns)
    /\ buffer_multiline_len \in 0..BufferSize - 1
    /\ lines \in Seq([kind : Kinds, length : Lengths])
    /\ ran \in Seq(SUBSET (1..MaxTurns))
    /\ reference \in [open : Seq(1..MaxTurns), done : Seq(SUBSET (1..MaxTurns))]

ReplInit ==
    /\ memory = "intact" /\ state = "wait"
    /\ buffer_multiline = <<>> /\ buffer_multiline_len = 0
    /\ lines = <<>> /\ overfull = FALSE /\ ran = <<>>
    /\ reference = [open |-> <<>>, done |-> <<>>]

-----------------------------------------------------------------------------
(* The compiler, as far as _HandleLuaCommand tells its answers apart.      *)

\* how deep in blocks a chunk ends, or how it has gone wrong
Bad == -1
Long == -2
AfterLine(depth, k) ==
    CASE depth < 0 -> depth
      [] k = "bad" \/ (k = "close" /\ depth = 0) -> Bad
      [] k = "long" -> Long
      [] k = "open" -> depth + 1
      [] k = "close" -> depth - 1
      [] OTHER -> depth

Kind(n) == lines[n].kind

Compile(chunk) ==
    LET depth == FoldLeft(AfterLine, 0, [n \in 1..Len(chunk) |-> Kind(chunk[n])]) IN
    CASE depth = Bad -> "syntax"
      [] depth = Long -> "unfinished"
      [] depth = 0 -> "ok"
      [] OTHER -> "incomplete"
Compiled == Compile(buffer_multiline)

\* what lua_pcall runs of a chunk: all its statements, or up to the first that fails
Fails(chunk) == \E k \in 1..Len(chunk) : Kind(chunk[k]) = "fail"
Statements(chunk) == {k \in 1..Len(chunk) : Kind(chunk[k]) \in {"stmt", "fail"}}

\* variant: the statements after a failing one run too
Executed_all(chunk) == {chunk[k] : k \in Statements(chunk)}

Executed(chunk) ==
    {chunk[k] : k \in {n \in Statements(chunk) :
                          \A j \in 1..n - 1 : Kind(chunk[j]) # "fail"}}

-----------------------------------------------------------------------------
\* variant: a wider length
Wrap_wide(n) == n

Wrap(n) == n % BufferSize

\* the line and its '\n' go to the end of the buffer; a length that wraps makes
\* the compiler see an empty chunk
Extend(line) ==
    LET end == Wrap(buffer_multiline_len + line.length)
    IN  /\ buffer_multiline_len' = Wrap(end + 1)
        /\ memory' = IF buffer_multiline_len + line.length > BufferSize
                       THEN "corrupt" ELSE "intact"
        /\ buffer_multiline' = IF buffer_multiline_len + line.length + 1 < BufferSize
                                 THEN Append(buffer_multiline, Len(lines) + 1)
                                 ELSE <<>>
        /\ overfull' = (overfull \/ buffer_multiline_len + line.length + 1 >= BufferSize)

\* a notification: the line is added and the buffer compiled
Line(line) ==
    /\ memory = "intact" /\ state = "wait" /\ Len(lines) < MaxTurns
    /\ lines' = Append(lines, line)
    /\ Extend(line)
    /\ state' = "run"
    /\ UNCHANGED <<ran, reference>>

\* the chunk that is open after the last line, and the statements that have run,
\* when that line is added to the chunk that was open before it, and to no other
Interpreted ==
    LET chunk == Append(reference.open, Len(lines)) IN
    CASE Compile(chunk) = "incomplete" -> [reference EXCEPT !.open = chunk]
      [] Compile(chunk) = "ok" ->
           [open |-> <<>>, done |-> Append(reference.done, Executed(chunk))]
      [] OTHER -> [reference EXCEPT !.open = <<>>]

\* the loop goes back to its wait
Turn ==
    /\ memory = "intact" /\ state = "run"
    /\ state' = "wait"
    /\ reference' = Interpreted
    /\ UNCHANGED <<memory, lines>>

Clear == buffer_multiline' = <<>> /\ buffer_multiline_len' = 0

\* "...": the buffer stays
Incomplete ==
    /\ Turn /\ Compiled = "incomplete"
    /\ UNCHANGED <<buffer, overfull, ran>>

\* one more '\n' wraps the length, and the compiler accepts the empty chunk
RetryWraps ==
    /\ Turn /\ Compiled = "unfinished" /\ Wrap(buffer_multiline_len + 1) = 0
    /\ Clear
    /\ overfull' = TRUE
    /\ UNCHANGED ran

SyntaxError ==
    /\ Turn
    /\ \/ Compiled = "syntax"
       \/ Compiled = "unfinished" /\ Wrap(buffer_multiline_len + 1) # 0
    /\ Clear
    /\ UNCHANGED <<overfull, ran>>

\* variant: buffer_multiline_len = 0 is missing
Success_keeps ==
    /\ Turn /\ Compiled = "ok" /\ ~Fails(buffer_multiline)
    /\ ran' = Append(ran, Executed(buffer_multiline))
    /\ UNCHANGED <<overfull, buffer>>

Success ==
    /\ Turn /\ Compiled = "ok" /\ ~Fails(buffer_multiline)
    /\ ran' = Append(ran, Executed(buffer_multiline))
    /\ Clear
    /\ UNCHANGED overfull

\* the error is logged, and the buffer stays
RuntimeError ==
    /\ Turn /\ Compiled = "ok" /\ Fails(buffer_multiline)
    /\ ran' = Append(ran, Executed(buffer_multiline))
    /\ UNCHANGED <<buffer, overfull>>

ReplNext ==
    \/ \E k \in Kinds, l \in Lengths : Line([kind |-> k, length |-> l])
    \/ Incomplete \/ RetryWraps \/ SyntaxError \/ Success \/ RuntimeError

ReplSpec == ReplInit /\ [][ReplNext]_replVars
-----------------------------------------------------------------------------
NoFailure == \A n \in 1..Len(lines) : Kind(n) # "fail"

\* As long as no statement fails and the lines fit, the statements that ran are
\* those of the chunks that were completed, each once and in order, and the rest
\* is waiting.
RunsAsEntered ==
    NoFailure /\ ~overfull /\ state = "wait" =>
        ran = reference.done /\ buffer_multiline = reference.open

\* Even when the length wraps: without a failure no statement runs twice or
\* before an earlier one, though whole chunks may be dropped.
RunsOnceInOrder ==
    NoFailure => \A j, k \in 1..Len(ran) :
                    j < k => \A m \in ran[j], n \in ran[k] : m < n

\* Without a failure: as long as the lines fit the buffer, every chunk that was
\* completed ran once, in its order, and no other; when they do not, chunks may be
\* dropped, but what runs still runs once and in order.
RunsOnce == RunsAsEntered /\ RunsOnceInOrder

\* A failure blocks the interpreter: as long as the failing line is in the buffer,
\* which only a syntax error empties then, no line entered after it runs.
FailureHoldsBack ==
    \A n \in Range(buffer_multiline) :
        Kind(n) = "fail" => \A k \in 1..Len(ran) : \A m \in ran[k] : m =< n

=============================================================================
