----------------------------- MODULE EspLittleFs -----------------------------
(***************************************************************************)
(* The file system below the fs library: the descriptors of                *)
(* esp_littlefs.c and what littlefs has on the flash.  Every call takes    *)
(* the lock of the file system, so each is one step.  A handle works on    *)
(* the file as it was when it was opened; what is written to it is on the  *)
(* flash when its close has committed it, and not before.                  *)
(***************************************************************************)
EXTENDS Integers, Sequences, FiniteSets

CONSTANTS
    Clients,   \* the threads that call the library; each has one file open at a time
    Names,     \* file names
    NoFile,    \* the content of a file that does not exist
    NoName,    \* the name in an unused place of the cache
    MinSlots,  \* the size of the cache after the mount
    Factor,    \* CONFIG_LITTLEFS_FD_CACHE_REALLOC_FACTOR
    MaxSlots   \* the largest cache for which the heap has room

ASSUME SlotsAssumption ==
    /\ MinSlots \in Nat \ {0} /\ Factor \in Nat \ {0, 1}
    /\ MaxSlots \in Nat /\ MinSlots =< MaxSlots
ASSUME NameAssumption == NoName \notin Names

VARIABLES
    files,     \* what is on the flash: a sequence of lines for each name
    cache,     \* efs->cache: descriptors, each with its file and what it was opened on
    cache_size,\* efs->cache_size
    fd_count,  \* efs->fd_count
    fd         \* the place of the descriptor of each thread, or 0

efs == <<cache, cache_size, fd_count, fd>>

Exists(name) == files[name] # NoFile

Free == [name |-> NoName, data |-> <<>>]
NoDescriptors == [k \in 1..MinSlots |-> Free]
NoHandle == [c \in Clients |-> 0]

Mounted ==
    /\ cache = NoDescriptors /\ cache_size = MinSlots
    /\ fd_count = 0 /\ fd = NoHandle

-----------------------------------------------------------------------------
(* littlefs.  A commit is on the flash or is not.                          *)

\* the lines a new handle works on; littlefs keeps them with the handle
lfs_file_opencfg(name, mode) == IF mode = "w" \/ ~Exists(name) THEN <<>> ELSE files[name]

lfs_file_write(file, written) == file.data \o written

lfs_file_sync(name, data) == files' = [files EXCEPT ![name] = data]

lfs_remove(name) == files' = [files EXCEPT ![name] = NoFile]

\* one commit: an existing file of the new name is replaced; a file that is
\* renamed to itself is left alone
lfs_rename(old, new) ==
    /\ Exists(old) /\ old # new
    /\ files' = [files EXCEPT ![new] = files[old], ![old] = NoFile]

-----------------------------------------------------------------------------
(* Descriptors.                                                            *)

\* the cache, made larger if one more descriptor does not fit
NewSize == IF fd_count + 1 > cache_size THEN Factor * cache_size ELSE cache_size
Grown == [k \in 1..NewSize |-> IF k =< cache_size THEN cache[k] ELSE Free]

HeapSuffices == NewSize =< MaxSlots

\* the first free place of the cache
esp_littlefs_allocate_fd(c, file) ==
    \E slot \in 1..NewSize :
        /\ HeapSuffices
        /\ Grown[slot] = Free /\ \A k \in 1..slot - 1 : Grown[k] # Free
        /\ cache' = [Grown EXCEPT ![slot] = file] /\ cache_size' = NewSize
        /\ fd_count' = fd_count + 1
        /\ fd' = [fd EXCEPT ![c] = slot]

esp_littlefs_free_fd(c) ==
    /\ cache' = [cache EXCEPT ![fd[c]] = Free]
    /\ fd_count' = fd_count - 1
    /\ fd' = [fd EXCEPT ![c] = 0]
    /\ UNCHANGED cache_size

\* variant: the places of the cache are counted, not the descriptors found there
esp_littlefs_get_fd_by_name_short(name) ==
    \E k \in 1..cache_size : k =< fd_count /\ cache[k].name = name

\* the search ends when it has seen fd_count descriptors
esp_littlefs_get_fd_by_name(name) ==
    \E k \in 1..cache_size :
        /\ cache[k].name = name
        /\ Cardinality({j \in 1..k - 1 : cache[j] # Free}) < fd_count

-----------------------------------------------------------------------------
(* The calls.                                                              *)

\* A file that is not there is created with "w" and "a", and "w" makes it empty.
\* That is committed before open returns; where it fails the handle is open all
\* the same, and a file that was there is as before.
vfs_littlefs_open(c, name, mode) ==
    LET data == lfs_file_opencfg(name, mode) IN
    /\ mode = "r" => Exists(name)
    /\ esp_littlefs_allocate_fd(c, [name |-> name, data |-> data])
    /\ \/ mode # "r" /\ lfs_file_sync(name, data)
       \/ Exists(name) /\ UNCHANGED files

\* no room for the descriptor, or littlefs refuses: a cache that grew stays so
vfs_littlefs_open_fails ==
    /\ IF HeapSuffices THEN cache' = Grown /\ cache_size' = NewSize
                       ELSE UNCHANGED <<cache, cache_size>>
    /\ UNCHANGED <<files, fd_count, fd>>

\* what stdio wrote is added to what the handle was opened on, and committed
vfs_littlefs_close(c, written) ==
    LET file == cache[fd[c]] IN
    /\ lfs_file_sync(file.name, lfs_file_write(file, written))
    /\ esp_littlefs_free_fd(c)

\* a handle that was read, or on which a write failed: littlefs leaves the file
vfs_littlefs_close_clean(c) == esp_littlefs_free_fd(c) /\ UNCHANGED files

\* the commit fails: littlefs has closed the file, and the descriptor stays
vfs_littlefs_close_fails(c) ==
    /\ fd' = [fd EXCEPT ![c] = 0]
    /\ UNCHANGED <<files, cache, cache_size, fd_count>>

vfs_littlefs_unlink(name) ==
    /\ Exists(name) /\ ~esp_littlefs_get_fd_by_name(name)
    /\ lfs_remove(name)
    /\ UNCHANGED efs

vfs_littlefs_rename(src, dst) ==
    /\ ~esp_littlefs_get_fd_by_name(src) /\ ~esp_littlefs_get_fd_by_name(dst)
    /\ lfs_rename(src, dst)
    /\ UNCHANGED efs

\* loss of power or a restart: what was committed is there, open handles are not
Remount ==
    /\ cache' = NoDescriptors /\ cache_size' = MinSlots
    /\ fd_count' = 0 /\ fd' = NoHandle
    /\ UNCHANGED files
=============================================================================
