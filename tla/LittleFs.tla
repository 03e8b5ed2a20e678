------------------------------ MODULE LittleFs ------------------------------
(***************************************************************************)
(* The fs library (components/SYS/sys_littlefs.c) over EspLittleFs:        *)
(* threads that run Lua (the REPL without a lock, one worker at a time)    *)
(* read, append to, edit, rename and remove files; the flash or the heap   *)
(* may be full, and the device may restart between any two steps.          *)
(* L_FS_EDIT reads the whole file, changes a line and writes the file      *)
(* back.                                                                   *)
(***************************************************************************)
EXTENDS EspLittleFs, SequencesExt

CONSTANTS
    Texts,       \* the lines scripts write, each with its newline: model values,
                 \* Long among them
    Long,        \* a line of more characters than fgets takes at once, 63
    Head1, Tail1,\* its first 63 characters, and the rest; all others are shorter
    Blank,       \* an empty line; as the content of an edit: delete
    Unknown,     \* the intended content of a file that was changed under
                 \* another call, or of which an edit came to nothing half way
    MaxLines,    \* CHAR_BUFFER_SIZE, the lines an edit holds
    IndexWidth,  \* 2^8: the index of an edit becomes a uint8_t
    MaxSize      \* bound on the lines of a file

Lines == Texts \cup {Head1, Tail1, Blank}

ASSUME FsAssumption ==
    /\ MaxLines \in Nat \ {0} /\ MaxSize \in Nat
    /\ IndexWidth \in Nat /\ IndexWidth > MaxLines
    /\ Long \in Texts /\ {Head1, Tail1, Blank} \cap Texts = {}
    /\ NoFile \notin Seq(Lines) /\ Unknown \notin Seq(Lines) \cup {NoFile}

VARIABLES
    device,   \* "up", or "corrupt" after a write past the array of lines
    pc,       \* each client: "idle", or in a call: "reading" or "writing" a file it
              \* has open, "read" between the two of an edit
    call,     \* its call: the file, and of an edit the index and the content given
    lines,    \* its array of lines
    intended, \* history: the files if every call took effect at once
    stuck     \* history: the files whose close failed since the last restart

client == <<pc, call, lines>>
vars == <<device, files, efs, client, intended, stuck>>

Edits == [op : {"edit"}, name : Names, index : 0..IndexWidth + 1, content : Texts \cup {Blank}]
Reads == [op : {"read"}, name : Names]
Writes == [op : {"write"}, name : Names, content : Texts]
Calls == Edits \cup Reads \cup Writes
NoCall == [op |-> "none"]

TypeOK ==
    /\ device \in {"up", "corrupt"}
    /\ files \in [Names -> Seq(Lines) \cup {NoFile}]
    /\ cache_size \in MinSlots..MaxSlots /\ fd_count \in 0..cache_size
    /\ cache \in [1..cache_size -> [name : Names, data : Seq(Lines)] \cup {Free}]
    /\ fd \in [Clients -> 0..cache_size]
    /\ intended \in [Names -> Seq(Lines) \cup {NoFile, Unknown}]
    /\ stuck \subseteq Names
    /\ pc \in [Clients -> {"idle", "reading", "read", "writing"}]
    /\ call \in [Clients -> Calls \cup {NoCall}]
    /\ lines \in [Clients -> Seq(Lines)]
    /\ \A c \in Clients : Len(lines[c]) =< MaxLines

Init ==
    /\ device = "up"
    /\ files = [n \in Names |-> NoFile] /\ intended = files /\ stuck = {}
    /\ Mounted
    /\ pc = [c \in Clients |-> "idle"]
    /\ call = [c \in Clients |-> NoCall]
    /\ lines = [c \in Clients |-> <<>>]

Up == device = "up"

-----------------------------------------------------------------------------
(* The algorithm of L_FS_EDIT.                                             *)

\* fgets: a line that does not fit comes in pieces, and one that fits without
\* its newline is followed by an empty one
Pieces(line) ==
    CASE line = Long -> <<Head1, Tail1>>
      [] line = Head1 -> <<Head1, Blank>>
      [] OTHER -> <<line>>
Gets(content) == FlattenSeq([k \in 1..Len(content) |-> Pieces(content[k])])

\* the array holds MaxLines; the call of fgets that finds it full writes past it
ReadOverruns(content) == Len(Gets(content)) > MaxLines
ReadLines(content) ==
    LET all == Gets(content)
    IN  SubSeq(all, 1, IF Len(all) < MaxLines THEN Len(all) ELSE MaxLines)

\* strncpy keeps what fits
Fit(text) == IF text = Long THEN Head1 ELSE text

\* the index of an edit, an integer in Lua, as its uint8_t
Index8(e) == e.index % IndexWidth

DeletePastEnd(e, old) == e.content = Blank /\ Index8(e) >= Len(old)

\* lines[index] is the line after the first index ones: those behind it move
\* up by one
Deleted(old, index) ==
    [k \in 1..Len(old) - 1 |-> IF k > index THEN old[k + 1] ELSE old[k]]

\* variant: a line too many is counted
Replaced_countsOneMore(old, index, content) ==
    LET size == IF index >= Len(old) THEN index + 2 ELSE Len(old)
    IN  [k \in 1..size |->
            IF k = index + 1 THEN Fit(content)
            ELSE IF k =< Len(old) THEN old[k] ELSE Blank]

\* the lines between the last one and a new one are empty
Replaced(old, index, content) ==
    LET size == IF index >= Len(old) THEN index + 1 ELSE Len(old)
    IN  [k \in 1..size |->
            IF k = index + 1 THEN Fit(content)
            ELSE IF k =< Len(old) THEN old[k] ELSE Blank]
Edited(e, old) ==
    IF e.content = Blank THEN Deleted(old, Index8(e))
                         ELSE Replaced(old, Index8(e), e.content)

\* lines[MaxLines] is not there
StoreOverruns(e) == e.content # Blank /\ Index8(e) = MaxLines

\* a file with lines that fgets takes for several
Wide(content) == {Long, Head1} \cap Range(content) # {}

\* what the caller of an edit means: of the lines of the file one is gone, or is
\* the new one as far as the array takes it, and the others are as they were.
\* What becomes of a file with wide lines, or of an index that is not a uint8_t,
\* is not what anybody means.
Intended(e, content) ==
    CASE content \in {NoFile, Unknown} -> content
      [] content \notin {NoFile, Unknown} /\ (e.index >= IndexWidth \/ Wide(content)) -> Unknown
      [] OTHER ->
           IF e.content # Blank
             THEN ReplaceAt(content \o [k \in 1..e.index + 1 - Len(content) |-> Blank],
                            e.index + 1, Fit(e.content))
             ELSE IF e.index < Len(content) THEN RemoveAt(content, e.index + 1) ELSE content

-----------------------------------------------------------------------------
(* The calls.                                                              *)

\* the calls that change name: with the file open, or with its lines read
Changing(c, name) ==
    /\ pc[c] \in {"reading", "read", "writing"}
    /\ call[c].op \in {"edit", "write"} /\ call[c].name = name

\* a change of a file takes effect as intended, unless another client is
\* changing that file
Intend(c, name, content) ==
    IF \E d \in Clients \ {c} : Changing(d, name) THEN Unknown ELSE content

\* the files that edits have emptied and not yet written
Rewritten == {call[c].name : c \in {d \in Clients : pc[d] = "writing" /\ call[d].op = "edit"}}

Goes(c, to) == pc' = [pc EXCEPT ![c] = to]
Enters(c, what, to) ==
    /\ Up /\ pc[c] = "idle"
    /\ call' = [call EXCEPT ![c] = what] /\ Goes(c, to)
In(c, ops, at) == Up /\ pc[c] = at /\ call[c].op \in ops

\* the call returns, and the array of an edit is gone
Returns(c) ==
    /\ Goes(c, "idle")
    /\ call' = [call EXCEPT ![c] = NoCall]
    /\ lines' = [lines EXCEPT ![c] = <<>>]

\* fs.read and the first half of an edit: fopen "r"; an index out of range is
\* refused before that
OpenRead(c, what) ==
    /\ what.op # "write"
    /\ what.op = "edit" => Index8(what) \in 1..MaxLines
    /\ Enters(c, what, "reading")
    /\ vfs_littlefs_open(c, what.name, "r")
    /\ UNCHANGED <<device, lines, intended, stuck>>

\* fopen fails: the file is not there, the flash is full, or the heap is, and the
\* call returns nil
OpenFails(c) ==
    /\ Up /\ pc[c] = "idle"
    /\ vfs_littlefs_open_fails
    /\ UNCHANGED <<device, client, intended, stuck>>

\* the table of fs.read is the script's
L_FS_READ(c) ==
    /\ In(c, {"read"}, "reading")
    /\ vfs_littlefs_close_clean(c) /\ Returns(c)
    /\ UNCHANGED <<device, intended, stuck>>

\* fgets, line by line, and fclose
EditRead(c) ==
    LET content == cache[fd[c]].data IN
    /\ In(c, {"edit"}, "reading")
    /\ lines' = [lines EXCEPT ![c] = ReadLines(content)]
    /\ device' = IF ReadOverruns(content) THEN "corrupt" ELSE "up"
    /\ vfs_littlefs_close_clean(c) /\ Goes(c, "read")
    /\ UNCHANGED <<call, intended, stuck>>

\* a delete past the end, or fopen "w" fails
EditFails(c) ==
    /\ In(c, {"edit"}, "read") /\ ~StoreOverruns(call[c])
    /\ IF DeletePastEnd(call[c], lines[c]) THEN UNCHANGED <<files, efs>>
                                           ELSE vfs_littlefs_open_fails
    /\ Returns(c)
    /\ UNCHANGED <<device, intended, stuck>>

EditOverruns(c) ==
    /\ In(c, {"edit"}, "read") /\ StoreOverruns(call[c])
    /\ device' = "corrupt"
    /\ UNCHANGED <<files, efs, client, intended, stuck>>

\* the line is changed, and fopen "w" empties the file
EditOpen(c) ==
    /\ In(c, {"edit"}, "read")
    /\ ~StoreOverruns(call[c]) /\ ~DeletePastEnd(call[c], lines[c])
    /\ vfs_littlefs_open(c, call[c].name, "w") /\ Goes(c, "writing")
    /\ lines' = [lines EXCEPT ![c] = Edited(call[c], @)]
    /\ UNCHANGED <<device, call, intended, stuck>>

\* fprintf and fclose
EditClose(c) ==
    LET name == call[c].name IN
    /\ In(c, {"edit"}, "writing")
    /\ vfs_littlefs_close(c, lines[c]) /\ Returns(c)
    /\ intended' = [intended EXCEPT ![name] = Intend(c, name, Intended(call[c], @))]
    /\ UNCHANGED <<device, stuck>>

\* fs.write: fopen "a" creates the file
WriteOpen(c, name, text) ==
    /\ Exists(name) => Len(files[name]) < MaxSize
    /\ Enters(c, [op |-> "write", name |-> name, content |-> text], "writing")
    /\ vfs_littlefs_open(c, name, "a")
    /\ intended' = IF Exists(name) THEN intended
                   ELSE [intended EXCEPT ![name] = Intend(c, name, <<>>)]
    /\ UNCHANGED <<device, lines, stuck>>

\* fclose appends the text
L_FS_WRITE(c) ==
    LET name == call[c].name
        Appended(old) == IF old = Unknown THEN Unknown ELSE Append(old, call[c].content) IN
    /\ In(c, {"write"}, "writing")
    /\ vfs_littlefs_close(c, <<call[c].content>>) /\ Returns(c)
    /\ intended' = [intended EXCEPT ![name] = Intend(c, name, Appended(@))]
    /\ UNCHANGED <<device, stuck>>

\* the flash is full: the data, or the commit, is refused.  The result of fclose
\* is not looked at, and the script is told that it worked.
CloseFails(c) ==
    LET name == call[c].name IN
    /\ In(c, {"edit", "write"}, "writing") /\ Returns(c)
    /\ \/ vfs_littlefs_close_clean(c) /\ UNCHANGED stuck
       \/ vfs_littlefs_close_fails(c) /\ stuck' = stuck \cup {name}
    /\ intended' = IF call[c].op = "write" THEN intended ELSE [intended EXCEPT ![name] = Unknown]
    /\ UNCHANGED device

L_FS_REMOVE(c, name) ==
    /\ Up /\ pc[c] = "idle"
    /\ vfs_littlefs_unlink(name)
    /\ intended' = [intended EXCEPT ![name] = Intend(c, name, NoFile)]
    /\ UNCHANGED <<device, client, stuck>>

L_FS_RENAME(c, old, new) ==
    /\ Up /\ pc[c] = "idle"
    /\ vfs_littlefs_rename(old, new)
    /\ intended' = [intended EXCEPT ![new] = Intend(c, new, intended[old]),
                                   ![old] = Intend(c, old, NoFile)]
    /\ UNCHANGED <<device, client, stuck>>

\* reset or loss of power
Restart ==
    /\ device' = "up" /\ Remount
    /\ pc' = [c \in Clients |-> "idle"]
    /\ call' = [c \in Clients |-> NoCall]
    /\ lines' = [c \in Clients |-> <<>>]
    /\ intended' = [n \in Names |-> IF n \in Rewritten THEN Unknown ELSE intended[n]]
    /\ stuck' = {}

Next ==
    \/ \E c \in Clients :
        \/ \E what \in Calls : OpenRead(c, what)
        \/ OpenFails(c) \/ L_FS_READ(c) \/ EditRead(c) \/ EditFails(c) \/ EditOverruns(c)
        \/ EditOpen(c) \/ EditClose(c) \/ L_FS_WRITE(c) \/ CloseFails(c)
        \/ \E n \in Names : \/ \E t \in Texts : WriteOpen(c, n, t)
                            \/ L_FS_REMOVE(c, n)
                            \/ \E m \in Names : L_FS_RENAME(c, n, m)
    \/ Restart

Spec == Init /\ [][Next]_vars

-----------------------------------------------------------------------------
\* An edit changes its line and no other, a write adds its line or nothing, and
\* neither a restart nor a full flash costs a file unless an edit was writing it:
\* whatever the calls and their order, a file that was not changed by two at
\* once holds what the calls that took effect intended, while others have it open
\* too.  (Nothing is claimed of a file once an edit has met a line of 63
\* characters or more in it, or an index beyond uint8_t: fgets and the conversion
\* make something else of these.)
FilesAsIntended ==
    \A n \in Names \ Rewritten : intended[n] \in {files[n], Unknown}

\* Each thread finds its own file under its descriptor, and a name counts as
\* open, so that it cannot be removed or renamed, as long as a thread has a
\* handle for it, or a close of it failed, and no longer.
OpenMeansOpen ==
    /\ \A c \in Clients : fd[c] # 0 => cache[fd[c]].name = call[c].name
    /\ \A c, d \in Clients : fd[c] = fd[d] /\ fd[c] # 0 => c = d
    /\ \A n \in Names :
        esp_littlefs_get_fd_by_name(n) <=>
            n \in stuck \/ \E c \in Clients : fd[c] # 0 /\ call[c].name = n

\* the first two together
FilesKept == FilesAsIntended /\ OpenMeansOpen
=============================================================================
