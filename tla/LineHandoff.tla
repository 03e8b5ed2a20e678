---------------------------- MODULE LineHandoff ----------------------------
(***************************************************************************)
(* How a line gets from _ShellTask to _HandleLuaCommand (both in           *)
(* main/Core_Level.c): the console copies it to the slot of                *)
(* buffer_perline that is not active, stores its length, flips             *)
(* active_index and notifies; the interpreter takes the notifications,     *)
(* all at once, loads active_index, and copies the text of that slot to    *)
(* its multi-line buffer.  Both threads have the same priority, and there  *)
(* are two cores: they interleave between any two of these steps, and a    *)
(* memcpy is seen half done.  A line is its number.                        *)
(***************************************************************************)
EXTENDS Integers, Sequences

CONSTANTS
    MaxLines,   \* bound on the lines entered
    HalfCopied, \* a text that is partly one line and partly another
    NoLine      \* the text of a slot never used

ASSUME HandoffAssumption ==
    MaxLines \in Nat /\ {HalfCopied, NoLine} \cap Nat = {}
    /\ HalfCopied # NoLine

VARIABLES
    paced,              \* whether the user waits for the start-up to end, and
                        \* then for each line to be interpreted before the
                        \* next one; chosen once
    device,             \* "up", or "panic" after a failed assertion
    LuaTaskHandle,      \* whether app_main has created the interpreter
    shell,              \* the console's next step
    next_index,         \* its local variable
    entered,            \* the number of the line it is handing over
    active_index,       \* the slot to read
    text, text_len,     \* buffer_perline and buffer_perline_len: whose
    notified,           \* the interpreter's notification count
    lua,                \* the interpreter's next step
    idx, copy, line_len,     \* its locals: slot, text and length it has read
    interpreted         \* history: what it has compiled and run

console == <<shell, next_index, entered>>
slots == <<active_index, text, text_len>>
interpreter == <<lua, idx, copy, line_len, interpreted>>
startup == <<paced, device, LuaTaskHandle>>
handoffVars == <<startup, console, slots, notified, interpreter>>

Lines == 1..MaxLines
Texts == Lines \cup {HalfCopied, NoLine}

HandoffTypeOK ==
    /\ paced \in BOOLEAN /\ device \in {"up", "panic"} /\ LuaTaskHandle \in BOOLEAN
    /\ shell \in {"read", "copying", "copied", "sized", "flipped"}
    /\ next_index \in BOOLEAN /\ entered \in 0..MaxLines
    /\ active_index \in BOOLEAN
    /\ text \in [BOOLEAN -> Texts] /\ text_len \in [BOOLEAN -> Lines \cup {NoLine}]
    /\ notified \in 0..MaxLines
    /\ lua \in {"absent", "wait", "load", "size", "copy", "copying", "run"}
    /\ idx \in BOOLEAN /\ copy \in Texts /\ line_len \in Lines \cup {NoLine}
    /\ interpreted \in Seq(Texts)

HandoffInit ==
    /\ paced \in BOOLEAN
    /\ device = "up" /\ LuaTaskHandle = FALSE
    /\ shell = "read" /\ next_index = FALSE /\ entered = 0
    /\ active_index = FALSE
    /\ text = [s \in BOOLEAN |-> NoLine] /\ text_len = [s \in BOOLEAN |-> NoLine]
    /\ notified = 0
    /\ lua = "absent" /\ idx = FALSE /\ copy = NoLine /\ line_len = NoLine
    /\ interpreted = <<>>

Up == device = "up"

-----------------------------------------------------------------------------
(* _ShellTask, from the end of a line on.                                  *)

LastInterpreted == IF interpreted = <<>> THEN 0 ELSE interpreted[Len(interpreted)]

\* the user's pace
MayEnter ==
    /\ entered < MaxLines
    /\ paced => LuaTaskHandle /\ entered = LastInterpreted

\* variant: the active slot is written
BeginCopy_active ==
    /\ Up /\ shell = "read" /\ MayEnter
    /\ entered' = entered + 1
    /\ next_index' = active_index
    /\ text' = [text EXCEPT ![active_index] = HalfCopied]
    /\ shell' = "copying"
    /\ UNCHANGED <<startup, active_index, text_len, notified, interpreter>>

\* next_index = !active_index, and the memcpy begins
BeginCopy ==
    /\ Up /\ shell = "read" /\ MayEnter
    /\ entered' = entered + 1
    /\ next_index' = ~active_index
    /\ text' = [text EXCEPT ![~active_index] = HalfCopied]
    /\ shell' = "copying"
    /\ UNCHANGED <<startup, active_index, text_len, notified, interpreter>>

EndCopy ==
    /\ Up /\ shell = "copying"
    /\ text' = [text EXCEPT ![next_index] = entered]
    /\ shell' = "copied"
    /\ UNCHANGED <<startup, next_index, entered, active_index, text_len,
                   notified, interpreter>>

\* variant: the length counts the final '\0'
StoreLength_withNul ==
    /\ Up /\ shell = "copied"
    /\ text_len' = [text_len EXCEPT ![next_index] = entered + 1]
    /\ shell' = "sized"
    /\ UNCHANGED <<startup, next_index, entered, active_index, text,
                   notified, interpreter>>

StoreLength ==
    /\ Up /\ shell = "copied"
    /\ text_len' = [text_len EXCEPT ![next_index] = entered]
    /\ shell' = "sized"
    /\ UNCHANGED <<startup, next_index, entered, active_index, text,
                   notified, interpreter>>

StoreActive ==
    /\ Up /\ shell = "sized"
    /\ active_index' = next_index
    /\ shell' = "flipped"
    /\ UNCHANGED <<startup, next_index, entered, text, text_len,
                   notified, interpreter>>

\* xTaskNotifyGive asserts that the handle is not NULL
NotifyGive ==
    /\ Up /\ shell = "flipped"
    /\ IF LuaTaskHandle
         THEN notified' = notified + 1 /\ shell' = "read" /\ UNCHANGED device
         ELSE device' = "panic" /\ UNCHANGED <<paced, notified, shell>>
    /\ UNCHANGED <<paced, LuaTaskHandle, next_index, entered, slots, interpreter>>

-----------------------------------------------------------------------------
(* app_main creates the console first and the interpreter after it.        *)
CreateLuaTask ==
    /\ Up /\ ~LuaTaskHandle
    /\ LuaTaskHandle' = TRUE
    /\ lua' = "wait"
    /\ UNCHANGED <<paced, device, console, slots, notified, idx, copy, line_len, interpreted>>

(* _HandleLuaCommand.                                                      *)

\* ulTaskNotifyTake(pdTRUE): the count goes to zero
NotifyTake ==
    /\ Up /\ lua = "wait" /\ notified > 0
    /\ notified' = 0
    /\ lua' = "load"
    /\ UNCHANGED <<startup, console, slots, idx, copy, line_len, interpreted>>

\* variant: the console's next slot is taken for the active one
LoadActive_negated ==
    /\ Up /\ lua = "load"
    /\ idx' = ~active_index
    /\ lua' = "size"
    /\ UNCHANGED <<startup, console, slots, notified, copy, line_len, interpreted>>

LoadActive ==
    /\ Up /\ lua = "load"
    /\ idx' = active_index
    /\ lua' = "size"
    /\ UNCHANGED <<startup, console, slots, notified, copy, line_len, interpreted>>

LoadLength ==
    /\ Up /\ lua = "size"
    /\ line_len' = text_len[idx]
    /\ lua' = "copy"
    /\ UNCHANGED <<startup, console, slots, notified, idx, copy, interpreted>>

\* the memcpy to buffer_multiline sees the slot twice
BeginRead ==
    /\ Up /\ lua = "copy"
    /\ copy' = text[idx]
    /\ lua' = "copying"
    /\ UNCHANGED <<startup, console, slots, notified, idx, line_len, interpreted>>

EndRead ==
    /\ Up /\ lua = "copying"
    /\ copy' = IF text[idx] = copy /\ line_len = copy THEN copy ELSE HalfCopied
    /\ lua' = "run"
    /\ UNCHANGED <<startup, console, slots, notified, idx, line_len, interpreted>>

\* variant: the notifications are cleared after the work, not before
Interpret_clears ==
    /\ Up /\ lua = "run"
    /\ interpreted' = Append(interpreted, copy)
    /\ lua' = "wait"
    /\ notified' = 0
    /\ UNCHANGED <<startup, console, slots, idx, copy, line_len>>

\* the chunk is compiled and run; Repl says how
Interpret ==
    /\ Up /\ lua = "run"
    /\ interpreted' = Append(interpreted, copy)
    /\ lua' = "wait"
    /\ UNCHANGED <<startup, console, slots, notified, idx, copy, line_len>>

Hand == BeginCopy \/ EndCopy \/ StoreLength \/ StoreActive \/ NotifyGive
Run == \/ CreateLuaTask \/ NotifyTake \/ LoadActive \/ LoadLength
       \/ BeginRead \/ EndRead \/ Interpret

HandoffNext == Hand \/ Run
HandoffSpec == HandoffInit /\ [][HandoffNext]_handoffVars

\* Both threads are always ready and share a priority; nobody makes the user
\* type, so entering a line is not fair.
HandoffFairness ==
    WF_handoffVars(EndCopy \/ StoreLength \/ StoreActive \/ NotifyGive) /\ WF_handoffVars(Run)
HandoffFairSpec == HandoffSpec /\ HandoffFairness

-----------------------------------------------------------------------------
\* what is read was written
NeverEmpty == lua \in {"copying", "run"} => copy # NoLine /\ line_len # NoLine
\* what is being read is overwritten by the second line after it only
OverwritesOnlyWhenLapped ==
    (/\ lua \in {"size", "copy", "copying"} /\ next_index = idx
     /\ shell \in {"copying", "copied"})
        => entered >= text_len[idx] + 2

\* A slot nobody has written is never read: the notification comes after the
\* slot is filled and made active.  And the two slots keep the threads apart as
\* long as the console is one line ahead: the slot being read is overwritten by
\* its second line only.
SlotsKeepApart == NeverEmpty /\ OverwritesOnlyWhenLapped

\* However fast lines come, the interpreter runs again after the last of them:
\* a line after which the user pauses is interpreted, and whole.
LastLineRuns ==
    \A n \in Lines :
        (shell = "flipped" /\ entered = n)
            ~> (device = "panic" \/ entered > n
                \/ LastInterpreted = n)

Queue == INSTANCE LineQueue
    WITH interpreted <- IF paced THEN interpreted ELSE <<>>,
         entered <- IF paced THEN entered ELSE 0

\* With a user who waits for each line's end, every line is interpreted once,
\* whole and in order.  (Nothing is claimed for the others: their lines are
\* lost, run twice, torn, or run after their successors.)
HandsOverEveryLine == Queue!Spec
=============================================================================
