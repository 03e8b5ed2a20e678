--------------------------- MODULE LittleFs_proofs ---------------------------
(***************************************************************************)
(* The file library, for any number of threads and of files, a cache of    *)
(* any size and files of any length.  First the descriptors: a name counts *)
(* as open exactly while a thread has a handle for it or a close of it has *)
(* failed; every count of the file system rests on this, since the search  *)
(* for a name ends when it has seen fd_count descriptors.  Then what an    *)
(* edit computes, and with both the files: each holds what the calls meant *)
(* it to hold.                                                             *)
(***************************************************************************)
EXTENDS LittleFs, FiniteSetTheorems, SequenceTheorems, WellFoundedInduction, TLAPS

\* the places in use
Used == {k \in 1..cache_size : cache[k].name # NoName}

Shape ==
    /\ cache_size \in Nat \ {0} /\ fd_count \in Nat
    /\ DOMAIN cache = 1..cache_size
    /\ fd \in [Clients -> 0..cache_size]
    /\ pc \in [Clients -> {"idle", "reading", "read", "writing"}]
    /\ call \in [Clients -> Calls \cup {NoCall}]
    /\ stuck \subseteq Names

\* the search may end when it has seen fd_count descriptors
Counted == IsFiniteSet(Used) /\ fd_count = Cardinality(Used)

\* a place in use has a name that scripts use, any other is Free
Named == \A k \in 1..cache_size : cache[k] = Free \/ cache[k].name \in Names

\* a thread in a call has a descriptor while the file is open, of its own, for
\* the file of the call
Held ==
    /\ \A c \in Clients : fd[c] # 0 <=> pc[c] \in {"reading", "writing"}
    /\ \A c \in Clients : fd[c] # 0 => /\ call[c].name \in Names
                                     /\ cache[fd[c]].name = call[c].name
    /\ \A c, d \in Clients : fd[c] = fd[d] /\ fd[c] # 0 => c = d

\* every other descriptor was left by a close that failed
Accounted ==
    /\ \A k \in Used : (\E c \in Clients : fd[c] = k) \/ cache[k].name \in stuck
    /\ \A n \in stuck : \E k \in Used : cache[k].name = n /\ \A c \in Clients : fd[c] # k

Descriptors == Shape /\ Counted /\ Named /\ Held /\ Accounted

-----------------------------------------------------------------------------
\* The search ends before it has seen a place only if that place is not in use.
LEMMA SeenInTime ==
    ASSUME IsFiniteSet(Used), NEW k \in Used, cache_size \in Nat
    PROVE  Cardinality({j \in 1..k - 1 : cache[j].name # NoName}) < Cardinality(Used)
<1> DEFINE before == {j \in 1..k - 1 : cache[j].name # NoName}
<1>1. before \subseteq Used /\ k \in Used /\ k \notin before
  BY DEF Used
<1>2. IsFiniteSet(before) /\ IsFiniteSet(before \cup {k})
  BY <1>1, FS_Subset, FS_AddElement
<1>3. Cardinality(before \cup {k}) = Cardinality(before) + 1
  BY <1>1, <1>2, FS_AddElement
<1>4. before \cup {k} \subseteq Used
  BY <1>1
<1>5. Cardinality(before \cup {k}) =< Cardinality(Used)
  BY <1>4, FS_Subset
<1> QED BY <1>2, <1>3, <1>5, FS_CardinalityType

\* So a name is found if and only if a place in use has it.
LEMMA FoundIfThere ==
    ASSUME Shape, Counted, Named, NEW n \in Names
    PROVE  esp_littlefs_get_fd_by_name(n) <=> \E k \in Used : cache[k].name = n
<1>1. n # NoName
  BY NameAssumption
<1>2. ASSUME NEW k \in 1..cache_size
      PROVE  {j \in 1..k - 1 : cache[j] # Free} = {j \in 1..k - 1 : cache[j].name # NoName}
  BY NameAssumption DEF Named, Shape, Free
<1>3. ASSUME NEW k \in Used, cache[k].name = n
      PROVE  esp_littlefs_get_fd_by_name(n)
  BY <1>2, <1>3, SeenInTime DEF esp_littlefs_get_fd_by_name, Counted, Shape, Used
<1>4. ASSUME esp_littlefs_get_fd_by_name(n)
      PROVE  \E k \in Used : cache[k].name = n
  BY <1>1, <1>4 DEF esp_littlefs_get_fd_by_name, Used
<1> QED BY <1>3, <1>4

-----------------------------------------------------------------------------
(* What the steps of the file system do to the places in use.              *)

\* The cache grows, never shrinks.
LEMMA Growing ==
    ASSUME Shape
    PROVE  NewSize \in Nat /\ NewSize >= cache_size
<1>1. Factor * cache_size \in Nat /\ Factor * cache_size >= cache_size
  BY SlotsAssumption DEF Shape
<1> QED BY <1>1 DEF NewSize, Shape

\* A descriptor is made: one more place is in use, which was not.
LEMMA Allocated ==
    ASSUME Descriptors, NEW c \in Clients, NEW n \in Names, NEW content,
           fd[c] = 0,
           esp_littlefs_allocate_fd(c, [name |-> n, data |-> content])
    PROVE  \E slot \in 1..cache_size' :
              /\ slot \notin Used /\ Used' = Used \cup {slot}
              /\ cache_size' \in Nat \ {0} /\ cache_size' >= cache_size
              /\ DOMAIN cache' = 1..cache_size'
              /\ cache'[slot] = [name |-> n, data |-> content]
              /\ \A k \in 1..cache_size : k # slot => cache'[k] = cache[k]
              /\ \A k \in 1..cache_size' : k > cache_size /\ k # slot => cache'[k] = Free
              /\ fd' = [fd EXCEPT ![c] = slot]
              /\ Counted'
<1> DEFINE file == [name |-> n, data |-> content]
<1> USE DEF Descriptors
<1>1. PICK slot \in 1..NewSize :
        /\ Grown[slot] = Free
        /\ cache' = [Grown EXCEPT ![slot] = file] /\ cache_size' = NewSize
        /\ fd_count' = fd_count + 1
        /\ fd' = [fd EXCEPT ![c] = slot]
  BY DEF esp_littlefs_allocate_fd
<1>2. NewSize \in Nat /\ NewSize >= cache_size
  BY Growing
<1>3. /\ DOMAIN cache' = 1..cache_size' /\ cache'[slot] = file
      /\ \A k \in 1..cache_size' : k # slot =>
            cache'[k] = IF k =< cache_size THEN cache[k] ELSE Free
  BY <1>1, <1>2 DEF Grown
<1>4. slot \notin Used
  BY <1>1, <1>2 DEF Grown, Used, Free, Shape
<1>5. Used' = Used \cup {slot}
  BY <1>1, <1>2, <1>3, NameAssumption DEF Used, Free, Shape
<1>6. Counted'
  BY <1>1, <1>4, <1>5, FS_AddElement DEF Counted
<1>7. slot \in 1..cache_size' /\ cache_size' \in Nat \ {0} /\ cache_size' >= cache_size
  BY <1>1, <1>2 DEF Shape
<1>8. /\ \A k \in 1..cache_size : k # slot => cache'[k] = cache[k]
      /\ \A k \in 1..cache_size' : k > cache_size /\ k # slot => cache'[k] = Free
  BY <1>3, <1>7 DEF Shape
<1> HIDE DEF file
<1>9. cache'[slot] = file /\ DOMAIN cache' = 1..cache_size' /\ fd' = [fd EXCEPT ![c] = slot]
  BY <1>1, <1>3
<1>10. file = [name |-> n, data |-> content]
  BY DEF file
<1> QED BY <1>4, <1>5, <1>6, <1>7, <1>8, <1>9, <1>10

\* A descriptor is freed: its place is not in use any more.
LEMMA Freed ==
    ASSUME Descriptors, NEW c \in Clients, fd[c] # 0,
           esp_littlefs_free_fd(c)
    PROVE  /\ fd[c] \in Used /\ Used' = Used \ {fd[c]}
           /\ cache_size' = cache_size /\ DOMAIN cache' = 1..cache_size
           /\ \A k \in 1..cache_size :
                cache'[k] = IF k = fd[c] THEN Free ELSE cache[k]
           /\ fd' = [fd EXCEPT ![c] = 0]
           /\ Counted' /\ fd_count' \in Nat
<1> USE DEF Descriptors
<1>1. fd[c] \in Used
  BY NameAssumption DEF Shape, Held, Used
<1>2. /\ cache_size' = cache_size /\ DOMAIN cache' = 1..cache_size
      /\ \A k \in 1..cache_size : cache'[k] = IF k = fd[c] THEN Free ELSE cache[k]
      /\ fd' = [fd EXCEPT ![c] = 0]
      /\ fd_count' = fd_count - 1
  BY DEF esp_littlefs_free_fd, Shape
<1>3. Used' = Used \ {fd[c]}
  BY <1>2 DEF Used, Free
<1>4. IsFiniteSet(Used') /\ Cardinality(Used') = Cardinality(Used) - 1
  BY <1>1, <1>3, FS_RemoveElement DEF Counted
<1>5. Counted'
  BY <1>2, <1>4 DEF Counted
<1>6. fd_count' \in Nat
  BY <1>4, <1>5, FS_CardinalityType DEF Counted
<1> QED BY <1>1, <1>2, <1>3, <1>5, <1>6

-----------------------------------------------------------------------------
(* A thread opens or closes a file.                                        *)

\* The thread goes to a place of its call, and may change its call.
Moves(c, to) ==
    /\ pc' = [pc EXCEPT ![c] = to]
    /\ call' \in [Clients -> Calls \cup {NoCall}]
    /\ \A d \in Clients \ {c} : call'[d] = call[d]

\* An open makes a descriptor of the thread's own.
LEMMA OpenKeeps ==
    ASSUME Descriptors, NEW c \in Clients, NEW n \in Names, NEW content,
           NEW to \in {"reading", "writing"},
           fd[c] = 0, Moves(c, to), call'[c].name = n, UNCHANGED stuck,
           esp_littlefs_allocate_fd(c, [name |-> n, data |-> content])
    PROVE  Descriptors'
<1> DEFINE file == [name |-> n, data |-> content]
<1>1. PICK slot \in 1..cache_size' :
              /\ slot \notin Used /\ Used' = Used \cup {slot}
              /\ cache_size' \in Nat \ {0} /\ cache_size' >= cache_size
              /\ DOMAIN cache' = 1..cache_size'
              /\ cache'[slot] = file
              /\ \A k \in 1..cache_size : k # slot => cache'[k] = cache[k]
              /\ \A k \in 1..cache_size' : k > cache_size /\ k # slot => cache'[k] = Free
              /\ fd' = [fd EXCEPT ![c] = slot]
              /\ Counted'
  BY Allocated
<1>2. file.name = n /\ cache'[slot].name = n
  BY <1>1
<1> HIDE DEF file
<1>3. fd_count' \in Nat
  BY <1>1, FS_CardinalityType DEF Counted
<1>4. Shape'
  BY <1>1, <1>3 DEF Descriptors, Shape, Moves
<1>5. Named'
  BY <1>1, <1>2 DEF Descriptors, Shape, Named
<1>6. \A k \in Used : k \in 1..cache_size /\ k # slot /\ cache'[k] = cache[k]
  BY <1>1 DEF Used
<1>7. \A d \in Clients : fd[d] # 0 => fd[d] \in Used
  BY NameAssumption DEF Descriptors, Shape, Held, Used
<1>8. \A d \in Clients : fd'[d] = (IF d = c THEN slot ELSE fd[d]) /\ fd[d] # slot
  BY <1>1, <1>7 DEF Descriptors, Shape
<1>9. Held'
  <2>1. \A d \in Clients : fd'[d] # 0 <=> pc'[d] \in {"reading", "writing"}
    BY <1>8 DEF Descriptors, Shape, Held, Moves
  <2>2. \A d \in Clients : fd'[d] # 0 => /\ call'[d].name \in Names
                                         /\ cache'[fd'[d]].name = call'[d].name
    BY <1>2, <1>6, <1>7, <1>8 DEF Descriptors, Held, Moves
  <2>3. \A d, e \in Clients : fd'[d] = fd'[e] /\ fd'[d] # 0 => d = e
    BY <1>8 DEF Descriptors, Held
  <2> QED BY <2>1, <2>2, <2>3 DEF Held
<1>10. Accounted'
  <2>1. ASSUME NEW k \in Used'
        PROVE  (\E d \in Clients : fd'[d] = k) \/ cache'[k].name \in stuck'
    <3>1. CASE k = slot
      BY <1>8, <3>1
    <3>2. CASE k \in Used
      <4>1. cache'[k] = cache[k]
        BY <1>6, <3>2
      <4>2. fd[c] # k
        BY <3>2 DEF Used
      <4> QED BY <1>8, <3>2, <4>1, <4>2 DEF Descriptors, Accounted
    <3> QED BY <1>1, <2>1, <3>1, <3>2
  <2>2. ASSUME NEW m \in stuck'
        PROVE  \E k \in Used' : cache'[k].name = m /\ \A d \in Clients : fd'[d] # k
    <3>1. PICK k \in Used : cache[k].name = m /\ \A d \in Clients : fd[d] # k
      BY <2>2 DEF Descriptors, Accounted
    <3> QED BY <1>1, <1>6, <1>8, <3>1
  <2> QED BY <2>1, <2>2 DEF Accounted
<1> QED BY <1>1, <1>4, <1>5, <1>9, <1>10 DEF Descriptors

\* A close gives the thread's descriptor back and no other.
LEMMA CloseKeeps ==
    ASSUME Descriptors, NEW c \in Clients, NEW to \in {"idle", "read"},
           fd[c] # 0, Moves(c, to), UNCHANGED stuck,
           esp_littlefs_free_fd(c)
    PROVE  Descriptors'
<1>1. /\ fd[c] \in Used /\ Used' = Used \ {fd[c]}
      /\ cache_size' = cache_size /\ DOMAIN cache' = 1..cache_size
      /\ \A k \in 1..cache_size : cache'[k] = IF k = fd[c] THEN Free ELSE cache[k]
      /\ fd' = [fd EXCEPT ![c] = 0]
      /\ Counted' /\ fd_count' \in Nat
  BY Freed
<1>2. Shape'
  BY <1>1 DEF Descriptors, Shape, Moves
<1>3. Named'
  BY <1>1 DEF Descriptors, Named
<1>4. \A d \in Clients : fd'[d] = IF d = c THEN 0 ELSE fd[d]
  BY <1>1 DEF Descriptors, Shape
<1>5. \A d \in Clients \ {c} : fd[d] # 0 => fd[d] \in 1..cache_size /\ fd[d] # fd[c]
  BY DEF Descriptors, Shape, Held
<1>6. \A k \in Used' : k \in Used /\ k # fd[c] /\ cache'[k] = cache[k]
  BY <1>1 DEF Used
<1>7. Held'
  <2>1. \A d \in Clients : fd'[d] # 0 <=> pc'[d] \in {"reading", "writing"}
    BY <1>4 DEF Descriptors, Shape, Held, Moves
  <2>2. \A d \in Clients : fd'[d] # 0 => /\ call'[d].name \in Names
                                         /\ cache'[fd'[d]].name = call'[d].name
    BY <1>1, <1>4, <1>5 DEF Descriptors, Held, Moves
  <2>3. \A d, e \in Clients : fd'[d] = fd'[e] /\ fd'[d] # 0 => d = e
    BY <1>4 DEF Descriptors, Held
  <2> QED BY <2>1, <2>2, <2>3 DEF Held
<1>8. Accounted'
  <2>1. ASSUME NEW k \in Used'
        PROVE  (\E d \in Clients : fd'[d] = k) \/ cache'[k].name \in stuck'
    BY <1>4, <1>6, <2>1 DEF Descriptors, Accounted
  <2>2. ASSUME NEW m \in stuck'
        PROVE  \E k \in Used' : cache'[k].name = m /\ \A d \in Clients : fd'[d] # k
    <3>1. PICK k \in Used : cache[k].name = m /\ \A d \in Clients : fd[d] # k
      BY <2>2 DEF Descriptors, Accounted
    <3>2. k # 0 /\ k \in Used' /\ cache'[k] = cache[k]
      BY <1>1, <3>1 DEF Used
    <3> QED BY <1>4, <3>1, <3>2
  <2> QED BY <2>1, <2>2 DEF Accounted
<1> QED BY <1>1, <1>2, <1>3, <1>7, <1>8 DEF Descriptors

\* The commit fails: the descriptor stays, and the name is stuck.
LEMMA CloseFailsKeeps ==
    ASSUME Descriptors, NEW c \in Clients,
           fd[c] # 0, Moves(c, "idle"), stuck' = stuck \cup {call[c].name},
           vfs_littlefs_close_fails(c)
    PROVE  Descriptors'
<1>1. /\ Used' = Used /\ cache' = cache /\ cache_size' = cache_size
      /\ fd_count' = fd_count /\ fd' = [fd EXCEPT ![c] = 0]
  BY DEF vfs_littlefs_close_fails, Used
<1>2. call[c].name \in Names /\ cache[fd[c]].name = call[c].name /\ fd[c] \in Used
  BY NameAssumption DEF Descriptors, Shape, Held, Used
<1>3. Shape'
  BY <1>1, <1>2 DEF Descriptors, Shape, Moves
<1>4. Named' /\ Counted'
  BY <1>1 DEF Descriptors, Named, Counted
<1>5. \A d \in Clients : fd'[d] = IF d = c THEN 0 ELSE fd[d]
  BY <1>1 DEF Descriptors, Shape
<1>6. Held'
  <2>1. \A d \in Clients : fd'[d] # 0 <=> pc'[d] \in {"reading", "writing"}
    BY <1>5 DEF Descriptors, Shape, Held, Moves
  <2>2. \A d \in Clients : fd'[d] # 0 => /\ call'[d].name \in Names
                                         /\ cache'[fd'[d]].name = call'[d].name
    BY <1>1, <1>5 DEF Descriptors, Held, Moves
  <2>3. \A d, e \in Clients : fd'[d] = fd'[e] /\ fd'[d] # 0 => d = e
    BY <1>5 DEF Descriptors, Held
  <2> QED BY <2>1, <2>2, <2>3 DEF Held
<1>7. \A k \in Used : k # 0
  BY DEF Used
<1>8. Accounted'
  <2>1. ASSUME NEW k \in Used
        PROVE  (\E d \in Clients : fd'[d] = k) \/ cache[k].name \in stuck'
    BY <1>2, <1>5, <2>1 DEF Descriptors, Accounted
  <2>2. ASSUME NEW m \in stuck'
        PROVE  \E k \in Used : cache[k].name = m /\ \A d \in Clients : fd'[d] # k
    <3>1. CASE m \in stuck
      BY <1>5, <1>7, <3>1 DEF Descriptors, Accounted
    <3>2. CASE m = call[c].name
      <4>1. \A d \in Clients : fd'[d] # fd[c]
        BY <1>5 DEF Descriptors, Held
      <4> QED BY <1>2, <3>2, <4>1
    <3> QED BY <2>2, <3>1, <3>2
  <2> QED BY <1>1, <2>1, <2>2 DEF Accounted
<1> QED BY <1>3, <1>4, <1>6, <1>8 DEF Descriptors

\* An open that fails changes no descriptor, though the cache may have grown.
LEMMA OpenFailsKeeps ==
    ASSUME Descriptors, NEW c \in Clients, fd[c] = 0,
           UNCHANGED <<pc, call>> \/ Moves(c, "idle"), UNCHANGED stuck,
           vfs_littlefs_open_fails \/ UNCHANGED efs
    PROVE  Descriptors'
<1>1. /\ fd' = fd /\ fd_count' = fd_count
      /\ cache_size' \in Nat \ {0} /\ cache_size' >= cache_size /\ DOMAIN cache' = 1..cache_size'
      /\ \A k \in 1..cache_size : cache'[k] = cache[k]
      /\ \A k \in 1..cache_size' : k > cache_size => cache'[k] = Free
  BY Growing DEF Descriptors, Shape, vfs_littlefs_open_fails, efs, Grown
<1>2. Used' = Used
  BY <1>1 DEF Descriptors, Shape, Used, Free
<1>3. /\ pc' \in [Clients -> {"idle", "reading", "read", "writing"}]
      /\ call' \in [Clients -> Calls \cup {NoCall}]
  BY DEF Descriptors, Shape, Moves
<1>4. Shape'
  BY <1>1, <1>3 DEF Descriptors, Shape
<1>5. Counted' /\ Named'
  BY <1>1, <1>2 DEF Descriptors, Shape, Counted, Named
<1>6. \A k \in Used : cache'[k] = cache[k]
  BY <1>1 DEF Used
<1>7. \A d \in Clients : fd[d] # 0 => fd[d] \in 1..cache_size
  BY DEF Descriptors, Shape
<1>8. Held'
  BY <1>1, <1>7 DEF Descriptors, Shape, Held, Moves
<1>9. Accounted'
  BY <1>1, <1>2, <1>6 DEF Descriptors, Accounted
<1> QED BY <1>4, <1>5, <1>8, <1>9 DEF Descriptors

-----------------------------------------------------------------------------
\* A mounted file system has no descriptor.
LEMMA InitDescriptors == Init => Descriptors
<1> SUFFICES ASSUME Init PROVE Descriptors
  OBVIOUS
<1>1. /\ cache_size = MinSlots /\ fd_count = 0 /\ DOMAIN cache = 1..cache_size
      /\ \A k \in 1..cache_size : cache[k] = Free
      /\ fd = [c \in Clients |-> 0] /\ stuck = {}
      /\ pc = [c \in Clients |-> "idle"] /\ call = [c \in Clients |-> NoCall]
  BY DEF Init, Mounted, NoDescriptors, NoHandle
<1>2. Used = {}
  BY <1>1 DEF Used, Free
<1> QED BY <1>1, <1>2, FS_EmptySet, SlotsAssumption
        DEF Descriptors, Shape, Counted, Named, Held, Accounted

\* No descriptor outlives a restart.
LEMMA RestartKeeps == Restart => Descriptors'
<1> SUFFICES ASSUME Restart PROVE Descriptors'
  OBVIOUS
<1>1. /\ cache_size' = MinSlots /\ fd_count' = 0 /\ DOMAIN cache' = 1..cache_size'
      /\ \A k \in 1..cache_size' : cache'[k] = Free
      /\ fd' = [c \in Clients |-> 0] /\ stuck' = {}
      /\ pc' = [c \in Clients |-> "idle"] /\ call' = [c \in Clients |-> NoCall]
  BY DEF Restart, Remount, NoDescriptors, NoHandle
<1>2. Used' = {}
  BY <1>1 DEF Used, Free
<1> QED BY <1>1, <1>2, FS_EmptySet, SlotsAssumption
        DEF Descriptors, Shape, Counted, Named, Held, Accounted

\* Every call keeps the descriptors in order.
LEMMA StepKeeps == Descriptors /\ [Next]_vars => Descriptors'
<1> SUFFICES ASSUME Descriptors, [Next]_vars PROVE Descriptors'
  OBVIOUS
<1>a. \A c \in Clients : fd[c] # 0 <=> pc[c] \in {"reading", "writing"}
  BY DEF Descriptors, Held
<1>1. ASSUME NEW c \in Clients, NEW what \in Calls, OpenRead(c, what) PROVE Descriptors'
  <2>1. what.name \in Names
    BY DEF Calls, Edits, Reads, Writes
  <2>2. Moves(c, "reading") /\ call'[c].name = what.name /\ fd[c] = 0 /\ UNCHANGED stuck
    BY <1>1, <1>a DEF OpenRead, Enters, Goes, Moves, Descriptors, Shape
  <2>3. PICK content : esp_littlefs_allocate_fd(c, [name |-> what.name, data |-> content])
    BY <1>1 DEF OpenRead, vfs_littlefs_open
  <2> QED BY <2>1, <2>2, <2>3, OpenKeeps
<1>2. ASSUME NEW c \in Clients, OpenFails(c) PROVE Descriptors'
  BY <1>2, <1>a, OpenFailsKeeps DEF OpenFails, client, Descriptors, Shape
<1>3. ASSUME NEW c \in Clients, L_FS_READ(c) PROVE Descriptors'
  <2>1. Moves(c, "idle") /\ fd[c] # 0 /\ UNCHANGED stuck /\ esp_littlefs_free_fd(c)
    BY <1>3, <1>a DEF L_FS_READ, In, Returns, Goes, Moves, Descriptors, Shape,
                vfs_littlefs_close_clean
  <2> QED BY <2>1, CloseKeeps
<1>4. ASSUME NEW c \in Clients, EditRead(c) PROVE Descriptors'
  <2>1. Moves(c, "read") /\ fd[c] # 0 /\ UNCHANGED stuck /\ esp_littlefs_free_fd(c)
    BY <1>4, <1>a DEF EditRead, In, Goes, Moves, Descriptors, Shape,
                vfs_littlefs_close_clean
  <2> QED BY <2>1, CloseKeeps
<1>5. ASSUME NEW c \in Clients, EditFails(c) PROVE Descriptors'
  <2>1. Moves(c, "idle") /\ fd[c] = 0 /\ UNCHANGED stuck
    BY <1>5, <1>a DEF EditFails, In, Returns, Goes, Moves, Descriptors, Shape
  <2>2. vfs_littlefs_open_fails \/ UNCHANGED efs
    BY <1>5 DEF EditFails
  <2> QED BY <2>1, <2>2, OpenFailsKeeps
<1>6. ASSUME NEW c \in Clients, EditOpen(c) PROVE Descriptors'
  <2>1. call[c].name \in Names
    BY <1>6 DEF EditOpen, In, Descriptors, Shape, Calls, Edits, Reads, Writes, NoCall
  <2>2. Moves(c, "writing") /\ call'[c].name = call[c].name /\ fd[c] = 0 /\ UNCHANGED stuck
    BY <1>6, <1>a DEF EditOpen, In, Goes, Moves, Descriptors, Shape
  <2>3. PICK content : esp_littlefs_allocate_fd(c, [name |-> call[c].name, data |-> content])
    BY <1>6 DEF EditOpen, vfs_littlefs_open
  <2> QED BY <2>1, <2>2, <2>3, OpenKeeps
<1>7. ASSUME NEW c \in Clients, EditClose(c) \/ L_FS_WRITE(c) PROVE Descriptors'
  <2>1. Moves(c, "idle") /\ fd[c] # 0 /\ UNCHANGED stuck
    BY <1>7, <1>a DEF EditClose, L_FS_WRITE, In, Returns, Goes, Moves, Descriptors, Shape
  <2>2. esp_littlefs_free_fd(c)
    BY <1>7 DEF EditClose, L_FS_WRITE, vfs_littlefs_close
  <2> QED BY <2>1, <2>2, CloseKeeps
<1>8. ASSUME NEW c \in Clients, CloseFails(c) PROVE Descriptors'
  <2>1. Moves(c, "idle") /\ fd[c] # 0
    BY <1>8, <1>a DEF CloseFails, In, Returns, Goes, Moves, Descriptors, Shape
  <2>2. CASE vfs_littlefs_close_clean(c) /\ UNCHANGED stuck
    BY <2>1, <2>2, CloseKeeps DEF vfs_littlefs_close_clean
  <2>3. CASE vfs_littlefs_close_fails(c) /\ stuck' = stuck \cup {call[c].name}
    BY <2>1, <2>3, CloseFailsKeeps
  <2> QED BY <1>8, <2>2, <2>3 DEF CloseFails
<1>9. ASSUME NEW c \in Clients, NEW n \in Names, NEW t \in Texts, WriteOpen(c, n, t)
      PROVE  Descriptors'
  <2> DEFINE what == [op |-> "write", name |-> n, content |-> t]
  <2>1. what \in Calls /\ what.name = n
    BY DEF Calls, Writes
  <2>2. /\ call' = [call EXCEPT ![c] = what] /\ pc' = [pc EXCEPT ![c] = "writing"]
        /\ fd[c] = 0 /\ UNCHANGED stuck
    BY <1>9, <1>a DEF WriteOpen, Enters, Goes
  <2> HIDE DEF what
  <2>3. Moves(c, "writing") /\ call'[c].name = n
    BY <2>1, <2>2 DEF Moves, Descriptors, Shape
  <2>4. PICK content : esp_littlefs_allocate_fd(c, [name |-> n, data |-> content])
    BY <1>9 DEF WriteOpen, vfs_littlefs_open
  <2> QED BY <2>2, <2>3, <2>4, OpenKeeps
<1>10. ASSUME UNCHANGED <<efs, pc, call, stuck>> PROVE Descriptors'
  <2>1. /\ cache' = cache /\ cache_size' = cache_size /\ fd_count' = fd_count /\ fd' = fd
        /\ pc' = pc /\ call' = call /\ stuck' = stuck
    BY <1>10 DEF efs
  <2>2. Used' = Used
    BY <2>1 DEF Used
  <2>3. Shape' /\ Counted' /\ Named'
    BY <2>1, <2>2 DEF Descriptors, Shape, Counted, Named
  <2>4. Held' /\ Accounted'
    BY <2>1, <2>2 DEF Descriptors, Held, Accounted
  <2> QED BY <2>3, <2>4 DEF Descriptors
<1>11. ASSUME NEW c \in Clients,
              \/ EditOverruns(c)
              \/ \E n \in Names : L_FS_REMOVE(c, n) \/ \E m \in Names : L_FS_RENAME(c, n, m)
       PROVE  Descriptors'
  BY <1>10, <1>11 DEF EditOverruns, L_FS_REMOVE, L_FS_RENAME, client,
                      vfs_littlefs_unlink, vfs_littlefs_rename
<1>12. CASE UNCHANGED vars
  BY <1>10, <1>12 DEF vars, client
<1> QED
  BY <1>1, <1>2, <1>3, <1>4, <1>5, <1>6, <1>7, <1>8, <1>9, <1>11, <1>12, RestartKeeps DEF Next

\* So a name is found if and only if it is in use, or a close of it failed.
LEMMA OpenKnown == Descriptors => OpenMeansOpen
<1> SUFFICES ASSUME Descriptors PROVE OpenMeansOpen
  OBVIOUS
<1>1. ASSUME NEW n \in Names
      PROVE  (\E k \in Used : cache[k].name = n) <=>
                (n \in stuck \/ \E c \in Clients : fd[c] # 0 /\ call[c].name = n)
  <2>1. \A c \in Clients : fd[c] # 0 => fd[c] \in Used
    BY NameAssumption DEF Descriptors, Shape, Held, Used
  <2>2. \A k \in Used : k # 0
    BY DEF Used
  <2> QED
    BY <2>1, <2>2 DEF Descriptors, Held, Accounted
<1> QED
  BY <1>1, FoundIfThere DEF Descriptors, Held, OpenMeansOpen

-----------------------------------------------------------------------------
(* Sequences that are put together by recursion.                           *)

\* The order of the numbers as the relation that well-founded induction wants.
LEMMA LessRelated ==
    ASSUME NEW x \in Nat, NEW y \in Nat, y < x
    PROVE  <<y, x>> \in OpToRel(<, Nat)
  BY Zenon DEF OpToRel

(* A set of numbers that is not empty has a least one.                     *)
LEMMA LeastNumber ==
    ASSUME NEW S, S \subseteq Nat, S # {}
    PROVE  \E x \in S : \A y \in S : x =< y
<1>1. PICK x \in S : \A y \in S : ~(<<y, x>> \in OpToRel(<, Nat))
  BY NatLessThanWellFounded, WFMin, Zenon
<1>2. ASSUME NEW y \in S, ~(x =< y) PROVE FALSE
  <2>1. <<y, x>> \in OpToRel(<, Nat)
    <3>1. y \in Nat /\ x \in Nat /\ y < x
      BY <1>2
    <3> QED
      BY <3>1, LessRelated
  <2> QED
    BY <1>1, <2>1, Zenon
<1> QED
  BY <1>2

(* What FlattenSeq computes is there: the pieces up to i, for each i.      *)
Joins(g, s, m) == g = [i \in 1..m |-> IF i = 1 THEN s[i] ELSE g[i - 1] \o s[i]]

\* What joins the first m - 1 sequences can be continued to the m-th.
LEMMA JoinsGrow ==
    ASSUME NEW S, NEW n \in Nat, NEW s \in [1..n -> Seq(S)], NEW m \in 2..n,
           NEW h \in [1..m - 1 -> Seq(S)], Joins(h, s, m - 1)
    PROVE  \E g \in [1..m -> Seq(S)] : Joins(g, s, m)
<1> DEFINE g == [i \in 1..m |-> IF i = m THEN h[m - 1] \o s[m] ELSE h[i]]
<1>1. h[m - 1] \in Seq(S) /\ s[m] \in Seq(S) /\ h[m - 1] \o s[m] \in Seq(S)
  BY ConcatProperties
<1>2. g \in [1..m -> Seq(S)]
  BY <1>1
<1>3. ASSUME NEW i \in 1..m
      PROVE  g[i] = IF i = 1 THEN s[i] ELSE g[i - 1] \o s[i]
  <2>0. /\ g[m] = h[m - 1] \o s[m]
        /\ \A k \in 1..m - 1 : g[k] = h[k]
    <3>1. m \in 1..m /\ \A k \in 1..m - 1 : k \in 1..m /\ k # m
      OBVIOUS
    <3> QED
      BY <3>1
  <2> HIDE DEF g
  <2>1. CASE i = m
    <3>1. m # 1 /\ m - 1 \in 1..m - 1
      OBVIOUS
    <3> QED
      BY <2>0, <2>1, <3>1
  <2>2. CASE i # m
    <3>1. i \in 1..m - 1 /\ (i # 1 => i - 1 \in 1..m - 1)
      BY <2>2
    <3>2. h[i] = IF i = 1 THEN s[i] ELSE h[i - 1] \o s[i]
      BY <3>1 DEF Joins
    <3> QED
      BY <2>0, <3>1, <3>2
  <2> QED
    BY <2>1, <2>2
<1>4. g = [i \in 1..m |-> g[i]]
  OBVIOUS
<1> HIDE DEF g
<1>5. Joins(g, s, m)
  BY <1>3, <1>4 DEF Joins
<1> QED
  BY <1>2, <1>5

\* The recursive function of FlattenSeq exists: else there were a least m to which it
\* cannot be continued.
LEMMA JoinsExist ==
    ASSUME NEW S, NEW n \in Nat \ {0}, NEW s \in [1..n -> Seq(S)]
    PROVE  \E g \in [1..n -> Seq(S)] : Joins(g, s, n)
<1> DEFINE Bad == {m \in 1..n : ~ \E g \in [1..m -> Seq(S)] : Joins(g, s, m)}
<1>1. SUFFICES ASSUME Bad # {} PROVE FALSE
  OBVIOUS
<1>2. PICK m \in Bad : \A k \in Bad : m =< k
  <2>1. Bad \subseteq Nat
    OBVIOUS
  <2> HIDE DEF Bad
  <2> QED
    BY <1>1, <2>1, LeastNumber
<1>3. m \in 1..n /\ ~ \E g \in [1..m -> Seq(S)] : Joins(g, s, m)
  OBVIOUS
<1>4. CASE m = 1
  <2> DEFINE one == [i \in 1..1 |-> s[1]]
  <2>1. one \in [1..1 -> Seq(S)]
    OBVIOUS
  <2>2. one = [i \in 1..1 |-> IF i = 1 THEN s[i] ELSE one[i - 1] \o s[i]]
    OBVIOUS
  <2> HIDE DEF one
  <2>3. Joins(one, s, 1)
    BY <2>2 DEF Joins
  <2> QED
    BY <1>3, <1>4, <2>1, <2>3
<1>5. CASE m # 1
  <2>0. m \in 2..n /\ m - 1 \in 1..n /\ ~(m =< m - 1)
    BY <1>3, <1>5
  <2>1. m - 1 \notin Bad
    <3> HIDE DEF Bad
    <3> QED
      BY <1>2, <2>0
  <2>2. PICK h \in [1..m - 1 -> Seq(S)] : Joins(h, s, m - 1)
    BY <2>0, <2>1
  <2> QED
    BY <1>3, <2>0, <2>2, JoinsGrow
<1> QED
  BY <1>4, <1>5

(* Whatever satisfies the recursion is a sequence at each place.           *)
LEMMA JoinsTyped ==
    ASSUME NEW S, NEW n \in Nat \ {0}, NEW s \in [1..n -> Seq(S)], NEW g, Joins(g, s, n)
    PROVE  \A i \in 1..n : g[i] \in Seq(S)
<1> DEFINE Bad == {i \in 1..n : g[i] \notin Seq(S)}
<1>1. SUFFICES ASSUME Bad # {} PROVE FALSE
  OBVIOUS
<1>2. PICK m \in Bad : \A k \in Bad : m =< k
  <2>1. Bad \subseteq Nat
    OBVIOUS
  <2> HIDE DEF Bad
  <2> QED
    BY <1>1, <2>1, LeastNumber
<1>3. m \in 1..n /\ g[m] \notin Seq(S)
  OBVIOUS
<1>4. g[m] = IF m = 1 THEN s[m] ELSE g[m - 1] \o s[m]
  BY <1>3 DEF Joins
<1>5. m # 1 => g[m - 1] \in Seq(S)
  <2>1. m # 1 => m - 1 \in 1..n /\ ~(m =< m - 1)
    BY <1>3
  <2> QED
    BY <1>2, <2>1
<1> QED
  BY <1>3, <1>4, <1>5, ConcatProperties

\* Sequences over S that are put together are a sequence over S.
LEMMA FlattenTyped ==
    ASSUME NEW S, NEW s \in Seq(Seq(S))
    PROVE  FlattenSeq(s) \in Seq(S)
<1>1. CASE Len(s) = 0
  BY <1>1, EmptySeq DEF FlattenSeq
<1>2. CASE Len(s) # 0
  <2> DEFINE n == Len(s)
             f == CHOOSE g : g = [i \in 1..n |-> IF i = 1 THEN s[i] ELSE g[i - 1] \o s[i]]
  <2>1. n \in Nat \ {0} /\ s \in [1..n -> Seq(S)]
    BY <1>2, LenProperties, ElementOfSeq
  <2>2. FlattenSeq(s) = f[n]
    BY <1>2 DEF FlattenSeq
  <2>3. f = CHOOSE g : Joins(g, s, n)
    BY DEF Joins
  <2> HIDE DEF n, f
  <2>4. \E g : Joins(g, s, n)
    BY <2>1, JoinsExist
  <2>5. Joins(f, s, n)
    BY <2>3, <2>4
  <2> QED
    BY <2>1, <2>2, <2>5, JoinsTyped
<1> QED
  BY <1>1, <1>2

(* Sequences of one element each are put together to the sequence of them. *)
LEMMA JoinsSingles ==
    ASSUME NEW S, NEW t \in Seq(S), Len(t) # 0,
           NEW g, Joins(g, [k \in 1..Len(t) |-> <<t[k]>>], Len(t))
    PROVE  \A i \in 1..Len(t) : g[i] = SubSeq(t, 1, i)
<1> DEFINE n == Len(t)
           s == [k \in 1..Len(t) |-> <<t[k]>>]
           Bad == {i \in 1..n : g[i] # SubSeq(t, 1, i)}
<1>0. n \in Nat
  BY LenProperties
<1>1. SUFFICES ASSUME Bad # {} PROVE FALSE
  OBVIOUS
<1>2. PICK m \in Bad : \A k \in Bad : m =< k
  <2>1. Bad \subseteq Nat
    BY <1>0
  <2> HIDE DEF Bad
  <2> QED
    BY <1>1, <2>1, LeastNumber
<1>3. m \in 1..n /\ g[m] # SubSeq(t, 1, m)
  OBVIOUS
<1>4. g[m] = IF m = 1 THEN <<t[m]>> ELSE g[m - 1] \o <<t[m]>>
  BY <1>3 DEF Joins
<1>5. SubSeq(t, 1, m) = SubSeq(t, 1, m - 1) \o <<t[m]>>
  BY <1>0, <1>3, SubSeqRecursiveSecond
<1>6. CASE m = 1
  <2>1. SubSeq(t, 1, m - 1) = <<>>
    BY <1>6, SubSeqEmpty
  <2>2. <<>> \o <<t[m]>> = <<t[m]>>
    BY <1>3, ElementOfSeq
  <2> QED
    BY <1>3, <1>4, <1>5, <1>6, <2>1, <2>2
<1>7. CASE m # 1
  <2>1. m - 1 \in 1..n /\ ~(m =< m - 1)
    BY <1>0, <1>3, <1>7
  <2>2. g[m - 1] = SubSeq(t, 1, m - 1)
    BY <1>2, <2>1
  <2> QED
    BY <1>3, <1>4, <1>5, <1>7, <2>2
<1> QED
  BY <1>6, <1>7

LEMMA FlattenSingles ==
    ASSUME NEW S, NEW t \in Seq(S)
    PROVE  FlattenSeq([k \in 1..Len(t) |-> <<t[k]>>]) = t
<1> DEFINE n == Len(t)
           s == [k \in 1..n |-> <<t[k]>>]
<1>1. n \in Nat /\ s \in Seq(Seq(S)) /\ Len(s) = n
  <2>1. n \in Nat /\ \A k \in 1..n : <<t[k]>> \in Seq(S)
    BY LenProperties, ElementOfSeq
  <2>2. s \in [1..n -> Seq(S)]
    BY <2>1
  <2> HIDE DEF s, n
  <2>3. s \in Seq(Seq(S))
    BY <2>1, <2>2, SeqDef
  <2> QED
    BY <2>1, <2>2, <2>3, LenProperties
<1>2. CASE n = 0
  <2>1. s = <<>> /\ t = <<>>
    BY <1>1, <1>2, EmptySeq
  <2> QED
    BY <1>1, <1>2, <2>1 DEF FlattenSeq
<1>3. CASE n # 0
  <2> DEFINE f == CHOOSE g : g = [i \in 1..Len(s) |-> IF i = 1 THEN s[i] ELSE g[i - 1] \o s[i]]
  <2>1. FlattenSeq(s) = f[n]
    BY <1>1, <1>3 DEF FlattenSeq
  <2>2. f = CHOOSE g : Joins(g, s, n)
    BY <1>1 DEF Joins
  <2>3. s \in [1..n -> Seq(S)] /\ n \in Nat \ {0}
    BY <1>1, <1>3, LenProperties, ElementOfSeq
  <2> HIDE DEF f
  <2>4. Joins(f, s, n)
    <3> HIDE DEF s, n
    <3> QED
      BY <2>2, <2>3, JoinsExist
  <2>5. n \in 1..n /\ f[n] = SubSeq(t, 1, n)
    BY <1>1, <1>3, <2>4, JoinsSingles
  <2> QED
    BY <2>1, <2>5, SubSeqFull
<1> QED
  BY <1>2, <1>3

-----------------------------------------------------------------------------
(* What an edit computes.                                                  *)

LEMMA LongIsLine == /\ Long \in Lines /\ Head1 \in Lines /\ Tail1 \in Lines /\ Blank \in Lines
                    /\ Texts \subseteq Lines /\ Blank \notin Texts
  BY FsAssumption DEF Lines

LEMMA SameInterval ==
    ASSUME NEW m \in Nat, NEW n \in Nat, 1..m = 1..n
    PROVE  m = n
<1>1. ~(m < n)
  <2>1. m < n => n \in 1..n /\ n \notin 1..m
    OBVIOUS
  <2> QED
    BY <2>1
<1>2. ~(n < m)
  <2>1. n < m => m \in 1..m /\ m \notin 1..n
    OBVIOUS
  <2> QED
    BY <2>1
<1> QED
  BY <1>1, <1>2

LEMMA GetsTyped ==
    ASSUME NEW content \in Seq(Lines)
    PROVE  Gets(content) \in Seq(Lines)
<1> DEFINE parts == [k \in 1..Len(content) |-> Pieces(content[k])]
<1>1. \A k \in 1..Len(content) : content[k] \in Lines
  BY ElementOfSeq
<1>2. \A k \in 1..Len(content) : parts[k] \in Seq(Lines)
  BY <1>1, LongIsLine DEF Pieces
<1>3. Len(content) \in Nat
  BY LenProperties
<1>4. parts \in Seq(Seq(Lines))
  BY <1>2, <1>3, IsASeq
<1> QED
  BY <1>4, FlattenTyped DEF Gets

(* Without wide lines fgets reads the lines of the file.                   *)
LEMMA GetsLines ==
    ASSUME NEW content \in Seq(Lines), ~Wide(content)
    PROVE  Gets(content) = content
<1>1. \A k \in 1..Len(content) : content[k] \in Range(content)
  BY LenProperties DEF Range
<1>2. \A k \in 1..Len(content) : Pieces(content[k]) = <<content[k]>>
  BY <1>1 DEF Wide, Pieces
<1>3. [k \in 1..Len(content) |-> Pieces(content[k])] = [k \in 1..Len(content) |-> <<content[k]>>]
  BY <1>2
<1> QED
  BY <1>3, FlattenSingles DEF Gets

(* The array holds what fgets reads, if that fits.                         *)
LEMMA ReadTyped ==
    ASSUME NEW content \in Seq(Lines)
    PROVE  /\ ReadLines(content) \in Seq(Lines) /\ Len(ReadLines(content)) =< MaxLines
           /\ ~ReadOverruns(content) => ReadLines(content) = Gets(content)
<1> DEFINE all == Gets(content)
<1>1. all \in Seq(Lines) /\ Len(all) \in Nat
  BY GetsTyped, LenProperties
<1> HIDE DEF all
<1>2. ReadLines(content) = SubSeq(all, 1, IF Len(all) < MaxLines THEN Len(all) ELSE MaxLines)
  BY DEF ReadLines, all
<1>3. ReadOverruns(content) <=> Len(all) > MaxLines
  BY DEF ReadOverruns, all
<1>4. CASE Len(all) =< MaxLines
  <2>1. ReadLines(content) = SubSeq(all, 1, Len(all))
    BY <1>1, <1>2, <1>4, FsAssumption
  <2>2. ReadLines(content) = all
    BY <1>1, <2>1, SubSeqFull
  <2> QED
    BY <1>1, <1>4, <2>2 DEF all
<1>5. CASE Len(all) > MaxLines
  <2>1. ReadLines(content) = SubSeq(all, 1, MaxLines)
    BY <1>1, <1>2, <1>5, FsAssumption
  <2> QED
    BY <1>1, <1>3, <1>5, <2>1, SubSeqProperties, FsAssumption
<1> QED
  BY <1>1, <1>4, <1>5, FsAssumption

(* To move the lines up by one is to remove one.                           *)
LEMMA DeletedIsRemoved ==
    ASSUME NEW S, NEW old \in Seq(S), NEW index \in Nat, index < Len(old)
    PROVE  Deleted(old, index) = RemoveAt(old, index + 1)
           /\ Deleted(old, index) \in Seq(S) /\ Len(Deleted(old, index)) = Len(old) - 1
<1> DEFINE front == SubSeq(old, 1, index)
           back == SubSeq(old, index + 2, Len(old))
           n == Len(old) - 1
<1>0. Len(old) \in Nat /\ n \in Nat
  BY LenProperties
<1>1. front \in Seq(S) /\ Len(front) = index /\ \A k \in 1..index : front[k] = old[k]
  BY <1>0, SubSeqProperties
<1>2. back \in Seq(S) /\ Len(back) = n - index
      /\ \A k \in 1..n - index : back[k] = old[k + index + 1]
  BY <1>0, SubSeqProperties
<1> HIDE DEF front, back
<1>3. RemoveAt(old, index + 1) = front \o back
  <2>1. (index + 1) - 1 = index /\ (index + 1) + 1 = index + 2
    OBVIOUS
  <2>2. SubSeq(old, 1, (index + 1) - 1) = front
    BY <2>1, Zenon DEF front
  <2>3. SubSeq(old, (index + 1) + 1, Len(old)) = back
    BY <2>1, Zenon DEF back
  <2> QED
    BY <2>2, <2>3, Zenon DEF RemoveAt
<1>4. front \o back \in Seq(S) /\ Len(front \o back) = n
  <2>1. front \o back \in Seq(S) /\ Len(front \o back) = Len(front) + Len(back)
    BY <1>1, <1>2, ConcatProperties
  <2>2. index + (n - index) = n
    BY <1>0
  <2> QED
    BY <1>1, <1>2, <2>1, <2>2
<1>5. \A k \in 1..n : (front \o back)[k] = IF k > index THEN old[k + 1] ELSE old[k]
  <2> TAKE k \in 1..n
  <2>1. CASE k =< index
    <3>1. k \in 1..Len(front) + Len(back) /\ k =< Len(front) /\ ~(k > index)
      BY <1>0, <1>1, <1>2, <2>1
    <3>2. (front \o back)[k] = front[k]
      BY <1>1, <1>2, <3>1, ConcatProperties
    <3> QED
      BY <1>1, <3>1, <3>2
  <2>2. CASE k > index
    <3>1. k \in 1..Len(front) + Len(back) /\ k - index \in 1..n - index /\ ~(k =< Len(front))
      BY <1>0, <1>1, <1>2, <2>2
    <3>2. (front \o back)[k] = back[k - Len(front)]
      <4>1. \A i \in 1..Len(front) + Len(back) :
               (front \o back)[i] = IF i =< Len(front) THEN front[i] ELSE back[i - Len(front)]
        BY <1>1, <1>2, ConcatProperties
      <4>2. (front \o back)[k] = IF k =< Len(front) THEN front[k] ELSE back[k - Len(front)]
        BY <3>1, <4>1, Zenon
      <4> QED
        BY <3>1, <4>2, Zenon
    <3>3. (front \o back)[k] = back[k - index]
      BY <1>1, <3>2
    <3>4. back[k - index] = old[(k - index) + index + 1]
      BY <1>2, <3>1
    <3>5. (k - index) + index + 1 = k + 1
      BY <1>0
    <3>6. old[(k - index) + index + 1] = old[k + 1]
      BY <3>5, Zenon
    <3>7. (front \o back)[k] = old[k + 1]
      BY <3>3, <3>4, <3>6, Zenon
    <3> QED
      BY <2>2, <3>7
  <2>3. k =< index \/ k > index
    BY <1>0
  <2> QED
    BY <2>1, <2>2, <2>3, Zenon
<1>6. \A k \in 1..n : Deleted(old, index)[k] = IF k > index THEN old[k + 1] ELSE old[k]
  BY DEF Deleted
<1>7. \A k \in 1..n : old[k] \in S /\ old[k + 1] \in S
  BY <1>0, ElementOfSeq
<1>8. Deleted(old, index) \in Seq(S) /\ Len(Deleted(old, index)) = n
  BY <1>0, <1>7, IsASeq DEF Deleted
<1> QED
  BY <1>3, <1>4, <1>5, <1>6, <1>8, SeqEqual

(* To store a line behind the last is to pad with empty ones and replace.  *)
LEMMA ReplacedIsPut ==
    ASSUME NEW S, NEW old \in Seq(S), NEW index \in Nat, NEW content, Blank \in S, Fit(content) \in S
    PROVE  /\ Replaced(old, index, content) =
                ReplaceAt(old \o [k \in 1..index + 1 - Len(old) |-> Blank], index + 1, Fit(content))
           /\ Replaced(old, index, content) \in Seq(S)
           /\ Len(Replaced(old, index, content)) = IF index >= Len(old) THEN index + 1 ELSE Len(old)
<1> DEFINE pad == [k \in 1..index + 1 - Len(old) |-> Blank]
           size == IF index >= Len(old) THEN index + 1 ELSE Len(old)
           body == [k \in 1..size |-> IF k =< Len(old) THEN old[k] ELSE Blank]
<1>0. Len(old) \in Nat /\ size \in Nat
  BY LenProperties
<1>1. pad \in Seq(S) /\ Len(pad) = size - Len(old) /\ \A k \in 1..size - Len(old) : pad[k] = Blank
  <2> DEFINE m == size - Len(old)
  <2>1. m \in Nat /\ 1..index + 1 - Len(old) = 1..m
    BY <1>0
  <2>2. pad = [k \in 1..m |-> Blank]
    BY <2>1
  <2> HIDE DEF pad, m
  <2>3. pad \in Seq(S)
    BY <2>1, <2>2, IsASeq
  <2>4. DOMAIN pad = 1..Len(pad) /\ Len(pad) \in Nat
    BY <2>3, LenProperties
  <2>5. 1..m = 1..Len(pad) /\ m \in Nat
    BY <2>1, <2>2, <2>4
  <2>6. m = Len(pad)
    BY <2>4, <2>5, SameInterval
  <2> QED
    BY <2>2, <2>3, <2>6 DEF m
<1>2. \A k \in 1..Len(old) : old[k] \in S
  BY ElementOfSeq
<1>3. body \in Seq(S) /\ Len(body) = size
  BY <1>0, <1>2, IsASeq
<1>4. \A k \in 1..size : body[k] = IF k =< Len(old) THEN old[k] ELSE Blank
  OBVIOUS
<1> HIDE DEF pad, body
<1>5. old \o pad = body
  <2>1. old \o pad \in Seq(S) /\ Len(old \o pad) = size
    BY <1>0, <1>1, ConcatProperties
  <2>2. \A k \in 1..size : (old \o pad)[k] = IF k =< Len(old) THEN old[k] ELSE Blank
    BY <1>0, <1>1, ConcatProperties
  <2> QED
    BY <1>3, <1>4, <2>1, <2>2, SeqEqual
<1>6. index + 1 \in 1..size
  BY <1>0
<1>7. ReplaceAt(body, index + 1, Fit(content)) \in Seq(S)
      /\ Len(ReplaceAt(body, index + 1, Fit(content))) = size
      /\ \A k \in 1..size : ReplaceAt(body, index + 1, Fit(content))[k] =
            IF k = index + 1 THEN Fit(content) ELSE body[k]
  BY <1>3, <1>6, ExceptSeq DEF ReplaceAt
<1>8. /\ Replaced(old, index, content) \in Seq(S)
      /\ Len(Replaced(old, index, content)) = size
      /\ \A k \in 1..size : Replaced(old, index, content)[k] =
            IF k = index + 1 THEN Fit(content)
            ELSE IF k =< Len(old) THEN old[k] ELSE Blank
  BY <1>0, <1>2, IsASeq DEF Replaced
<1>9. Replaced(old, index, content) = ReplaceAt(body, index + 1, Fit(content))
  BY <1>4, <1>7, <1>8, SeqEqual
<1> QED
  BY <1>5, <1>8, <1>9 DEF pad

\* The index as it is used.
LEMMA IndexTyped ==
    ASSUME NEW e \in Edits
    PROVE  /\ e.index \in Nat /\ Index8(e) \in Nat /\ e.content \in Texts \cup {Blank}
           /\ e.index < IndexWidth => Index8(e) = e.index
<1>1. e.index \in 0..IndexWidth + 1 /\ e.content \in Texts \cup {Blank}
  BY DEF Edits
<1>2. IndexWidth \in Nat \ {0}
  BY FsAssumption
<1> QED
  BY <1>1, <1>2 DEF Index8

(* The line that an edit changes is the one its caller means, and no other *)
(* is, where the lines and the index are such that anything is meant.      *)
LEMMA EditedAsIntended ==
    ASSUME NEW e \in Edits, NEW content \in Seq(Lines), ~DeletePastEnd(e, Gets(content))
    PROVE  Intended(e, content) \in {Edited(e, Gets(content)), Unknown}
<1>1. content \notin {NoFile, Unknown}
  BY FsAssumption
<1>2. e.index \in Nat /\ e.content \in Texts \cup {Blank} /\ Len(content) \in Nat
  BY IndexTyped, LenProperties
<1>3. Fit(e.content) \in Lines
  BY <1>2, LongIsLine DEF Fit
<1>4. CASE e.index >= IndexWidth \/ Wide(content)
  BY <1>1, <1>4 DEF Intended
<1>5. CASE ~(e.index >= IndexWidth \/ Wide(content))
  <2>1. Gets(content) = content /\ Index8(e) = e.index
    BY <1>2, <1>5, GetsLines, IndexTyped, FsAssumption
  <2>2. CASE e.content = Blank
    <3>1. e.index < Len(content)
      BY <1>2, <2>1, <2>2 DEF DeletePastEnd
    <3>2. Deleted(content, e.index) = RemoveAt(content, e.index + 1)
      BY <1>2, <3>1, DeletedIsRemoved
    <3> QED
      BY <1>1, <1>5, <2>1, <2>2, <3>1, <3>2 DEF Edited, Intended
  <2>3. CASE e.content # Blank
    <3>1. Replaced(content, e.index, e.content) =
             ReplaceAt(content \o [k \in 1..e.index + 1 - Len(content) |-> Blank],
                       e.index + 1, Fit(e.content))
      BY <1>2, <1>3, LongIsLine, ReplacedIsPut
    <3> QED
      BY <1>1, <1>5, <2>1, <2>3, <3>1 DEF Edited, Intended
  <2> QED
    BY <2>2, <2>3
<1> QED
  BY <1>4, <1>5

\* What a call means to leave has a type, and is unknown where the file already was.
LEMMA IntendedTyped ==
    ASSUME NEW e \in Edits, NEW content \in Seq(Lines) \cup {NoFile, Unknown}
    PROVE  Intended(e, content) \in Seq(Lines) \cup {NoFile, Unknown}
           /\ (content = Unknown => Intended(e, content) = Unknown)
<1>1. CASE content \in {NoFile, Unknown}
  BY <1>1 DEF Intended
<1>2. CASE content \in Seq(Lines) /\ content \notin {NoFile, Unknown}
  <2>1. e.index \in Nat /\ e.content \in Texts \cup {Blank} /\ Len(content) \in Nat
    BY IndexTyped, LenProperties
  <2>2. Fit(e.content) \in Lines
    BY <2>1, LongIsLine DEF Fit
  <2>3. CASE e.content = Blank /\ e.index < Len(content)
    <3>1. RemoveAt(content, e.index + 1) \in Seq(Lines)
      BY <1>2, <2>1, <2>3, DeletedIsRemoved
    <3> QED
      BY <1>2, <2>3, <3>1 DEF Intended
  <2>4. CASE e.content # Blank
    <3>1. ReplaceAt(content \o [k \in 1..e.index + 1 - Len(content) |-> Blank],
                    e.index + 1, Fit(e.content)) \in Seq(Lines)
      <4>1. /\ Replaced(content, e.index, e.content) =
                  ReplaceAt(content \o [k \in 1..e.index + 1 - Len(content) |-> Blank],
                            e.index + 1, Fit(e.content))
            /\ Replaced(content, e.index, e.content) \in Seq(Lines)
        BY <1>2, <2>1, <2>2, LongIsLine, ReplacedIsPut
      <4> QED
        BY <4>1
    <3> QED
      BY <1>2, <2>4, <3>1 DEF Intended
  <2>5. CASE e.content = Blank /\ ~(e.index < Len(content))
    BY <1>2, <2>5 DEF Intended
  <2> QED
    BY <2>3, <2>4, <2>5
<1> QED
  BY <1>1, <1>2

\* An edit within bounds leaves lines, no more than the array holds.
LEMMA EditedTyped ==
    ASSUME NEW e \in Edits, NEW old \in Seq(Lines), Index8(e) =< MaxLines, Len(old) =< MaxLines,
           ~DeletePastEnd(e, old), ~StoreOverruns(e)
    PROVE  Edited(e, old) \in Seq(Lines) /\ Len(Edited(e, old)) =< MaxLines
<1> DEFINE index == Index8(e)
<1>1. Len(old) \in Nat
  BY LenProperties
<1>2. index \in Nat /\ e.content \in Texts \cup {Blank}
  BY IndexTyped
<1>3. Fit(e.content) \in Lines
  BY <1>2, LongIsLine DEF Fit
<1>4. CASE e.content = Blank
  <2>1. index < Len(old)
    BY <1>1, <1>2, <1>4 DEF DeletePastEnd
  <2>2. Deleted(old, index) \in Seq(Lines) /\ Len(Deleted(old, index)) = Len(old) - 1
    BY <1>2, <2>1, DeletedIsRemoved
  <2> QED
    BY <1>1, <1>4, <2>2, FsAssumption DEF Edited
<1>5. CASE e.content # Blank
  <2>1. index < MaxLines
    BY <1>2, <1>5, FsAssumption DEF StoreOverruns
  <2> DEFINE new == Replaced(old, index, e.content)
  <2>2. new \in Seq(Lines) /\ Len(new) = IF index >= Len(old) THEN index + 1 ELSE Len(old)
    <3>1. index \in Nat /\ Blank \in Lines /\ Fit(e.content) \in Lines
      BY <1>2, <1>3, LongIsLine
    <3>2. /\ new = ReplaceAt(old \o [k \in 1..index + 1 - Len(old) |-> Blank],
                            index + 1, Fit(e.content))
          /\ new \in Seq(Lines)
          /\ Len(new) = IF index >= Len(old) THEN index + 1 ELSE Len(old)
      BY <3>1, ReplacedIsPut
    <3> QED
      BY <3>2
  <2>3. Edited(e, old) = new
    BY <1>5 DEF Edited
  <2> HIDE DEF new
  <2> QED
    BY <1>1, <1>2, <2>1, <2>2, <2>3, FsAssumption
<1> QED
  BY <1>4, <1>5

-----------------------------------------------------------------------------
(* The files.                                                              *)

(* A thread that changes a file, and one that has emptied it for an edit.  *)
Busy(c) == pc[c] # "idle" /\ call[c].op \in {"edit", "write"}
Rewrites(c) == pc[c] = "writing" /\ call[c].op = "edit"

\* no other has emptied the file of c
Alone(c) == \A d \in Clients \ {c} : Rewrites(d) => call[d].name # call[c].name

(* What a thread does with its file comes to what was meant, unless others *)
(* came between: the handle holds the file, then the array has its lines,  *)
(* then those that the edit is to leave.                                   *)
OnCourse(c) ==
    LET meant == intended[call[c].name] IN
    Up /\ Busy(c) /\ Alone(c) /\ meant # Unknown =>
        /\ pc[c] = "reading" => meant = cache[fd[c]].data
        /\ pc[c] = "read" => meant \in Seq(Lines) /\ lines[c] = Gets(meant)
        /\ pc[c] = "writing" =>
             IF call[c].op = "edit" THEN Intended(call[c], meant) \in {lines[c], Unknown}
                                    ELSE meant = cache[fd[c]].data

\* an edit keeps to the array, and its lines go to a file its handle has emptied
Ready(c) ==
    /\ call[c].op = "edit" => Index8(call[c]) \in 1..MaxLines
    /\ Rewrites(c) => cache[fd[c]].data = <<>>

\* every thread is on course
Course == \A c \in Clients : OnCourse(c) /\ Ready(c)

\* the places of the cache keep their types
Typed ==
    /\ cache_size \in MinSlots..MaxSlots
    /\ cache \in [1..cache_size -> [name : Names, data : Seq(Lines)] \cup {Free}]

\* the types that Descriptors leaves open
Contents ==
    /\ device \in {"up", "corrupt"}
    /\ files \in [Names -> Seq(Lines) \cup {NoFile}]
    /\ intended \in [Names -> Seq(Lines) \cup {NoFile, Unknown}]
    /\ lines \in [Clients -> Seq(Lines)]
    /\ \A c \in Clients : Len(lines[c]) =< MaxLines
    /\ Typed

\* the inductive invariant of the file library
Whole == Descriptors /\ Contents /\ FilesAsIntended /\ Course

-----------------------------------------------------------------------------
(* Calls, handles and what others keep.                                    *)

\* The fields of a call.
LEMMA CallTyped ==
    ASSUME Descriptors, NEW c \in Clients
    PROVE  /\ call[c].op = "edit" => call[c] \in Edits /\ call[c].name \in Names
           /\ call[c].op = "write" => call[c].name \in Names /\ call[c].content \in Texts
           /\ pc[c] \in {"idle", "reading", "read", "writing"}
  BY DEF Descriptors, Shape, Calls, Edits, Reads, Writes, NoCall

\* A handle is for the file of the call, and what it holds are lines.
LEMMA HandleTyped ==
    ASSUME Descriptors, Contents, NEW c \in Clients, fd[c] # 0
    PROVE  /\ cache[fd[c]].data \in Seq(Lines) /\ cache[fd[c]].name = call[c].name
           /\ call[c].name \in Names /\ fd[c] \in 1..cache_size
  BY NameAssumption DEF Descriptors, Shape, Held, Contents, Typed, Free

\* the handles of the others, and what they hold, stay
HandlesStay(c) ==
    \A d \in Clients \ {c} :
        fd'[d] = fd[d] /\ (fd[d] # 0 => cache'[fd[d]] = cache[fd[d]])

\* An open leaves the handles of others alone and holds what was read.
LEMMA OpenedHandle ==
    ASSUME Descriptors, Contents, NEW c \in Clients, NEW n \in Names, NEW content \in Seq(Lines),
           fd[c] = 0, esp_littlefs_allocate_fd(c, [name |-> n, data |-> content])
    PROVE  HandlesStay(c) /\ cache'[fd'[c]].data = content /\ Typed'
<1> DEFINE file == [name |-> n, data |-> content]
<1>1. PICK slot \in 1..cache_size' :
              /\ slot \notin Used
              /\ cache_size' \in Nat \ {0} /\ cache_size' >= cache_size
              /\ cache'[slot] = file
              /\ \A k \in 1..cache_size : k # slot => cache'[k] = cache[k]
              /\ \A k \in 1..cache_size' : k > cache_size /\ k # slot => cache'[k] = Free
              /\ fd' = [fd EXCEPT ![c] = slot]
  BY Allocated
<1>2. file \in [name : Names, data : Seq(Lines)] /\ file.data = content
  OBVIOUS
<1> HIDE DEF file
<1>3. cache_size' \in MinSlots..MaxSlots
  <2>1. cache_size' = NewSize /\ NewSize =< MaxSlots
    BY DEF esp_littlefs_allocate_fd, HeapSuffices
  <2> QED
    BY <1>1, <2>1, SlotsAssumption DEF Contents, Typed
<1>4. ASSUME NEW k \in 1..cache_size'
      PROVE  cache'[k] \in [name : Names, data : Seq(Lines)] \cup {Free}
  <2>1. CASE k = slot
    BY <1>1, <1>2, <2>1
  <2>2. CASE k # slot /\ k =< cache_size
    <3>1. k \in 1..cache_size
      BY <1>1, <2>2 DEF Descriptors, Shape
    <3> QED
      BY <1>1, <2>2, <3>1 DEF Contents, Typed
  <2>3. CASE k # slot /\ k > cache_size
    BY <1>1, <2>3
  <2> QED
    BY <1>1, <2>1, <2>2, <2>3 DEF Descriptors, Shape
<1>5. Typed'
  <2>1. cache' = [k \in 1..cache_size' |-> cache'[k]]
    BY DEF esp_littlefs_allocate_fd, Grown
  <2> QED
    BY <1>3, <1>4, <2>1 DEF Typed
<1>6. \A d \in Clients : fd[d] # 0 => fd[d] \in Used /\ fd[d] \in 1..cache_size
  BY NameAssumption DEF Descriptors, Shape, Held, Used
<1>7. HandlesStay(c)
  BY <1>1, <1>6 DEF HandlesStay, Descriptors, Shape
<1>8. fd'[c] = slot
  BY <1>1 DEF Descriptors, Shape
<1> QED
  BY <1>1, <1>2, <1>5, <1>7, <1>8

\* So does a close.
LEMMA ClosedHandle ==
    ASSUME Descriptors, Contents, NEW c \in Clients, fd[c] # 0, esp_littlefs_free_fd(c)
    PROVE  HandlesStay(c) /\ Typed'
<1>1. /\ cache_size' = cache_size
      /\ \A k \in 1..cache_size : cache'[k] = IF k = fd[c] THEN Free ELSE cache[k]
      /\ fd' = [fd EXCEPT ![c] = 0]
  BY Freed
<1>2. \A d \in Clients \ {c} : fd[d] # 0 => fd[d] \in 1..cache_size /\ fd[d] # fd[c]
  BY DEF Descriptors, Shape, Held
<1>3. HandlesStay(c)
  BY <1>1, <1>2 DEF HandlesStay, Descriptors, Shape
<1>4. Typed'
  <2>1. cache' = [cache EXCEPT ![fd[c]] = Free]
    BY DEF esp_littlefs_free_fd
  <2> QED
    BY <1>1, <2>1 DEF Contents, Typed
<1> QED
  BY <1>3, <1>4

\* So does an open that fails, though it may have enlarged the cache.
LEMMA FailedHandle ==
    ASSUME Descriptors, Contents, NEW c \in Clients,
           vfs_littlefs_open_fails \/ UNCHANGED efs
    PROVE  HandlesStay(c) /\ Typed'
<1>1. /\ fd' = fd /\ cache_size' \in MinSlots..MaxSlots
      /\ cache_size' >= cache_size /\ cache' = [k \in 1..cache_size' |-> cache'[k]]
      /\ \A k \in 1..cache_size : cache'[k] = cache[k]
      /\ \A k \in 1..cache_size' : k > cache_size => cache'[k] = Free
  <2>1. CASE UNCHANGED efs
    BY <2>1 DEF efs, Contents, Typed
  <2>2. CASE vfs_littlefs_open_fails /\ HeapSuffices
    BY <2>2, Growing, SlotsAssumption DEF vfs_littlefs_open_fails, HeapSuffices, Grown, Contents, Typed,
       Descriptors, Shape
  <2>3. CASE vfs_littlefs_open_fails /\ ~HeapSuffices
    BY <2>3 DEF vfs_littlefs_open_fails, Contents, Typed
  <2> QED
    BY <2>1, <2>2, <2>3
<1>2. \A d \in Clients : fd[d] # 0 => fd[d] \in 1..cache_size
  BY DEF Descriptors, Shape
<1>3. HandlesStay(c)
  BY <1>1, <1>2 DEF HandlesStay
<1>4. ASSUME NEW k \in 1..cache_size'
      PROVE  cache'[k] \in [name : Names, data : Seq(Lines)] \cup {Free}
  <2>1. CASE k =< cache_size
    BY <1>1, <2>1 DEF Contents, Typed
  <2>2. CASE k > cache_size
    BY <1>1, <2>2
  <2> QED
    BY <2>1, <2>2 DEF Descriptors, Shape
<1>5. Typed'
  BY <1>1, <1>4 DEF Typed
<1> QED
  BY <1>3, <1>5

\* So does a close that fails and leaves its descriptor behind.
LEMMA StuckHandle ==
    ASSUME Descriptors, Contents, NEW c \in Clients, vfs_littlefs_close_fails(c)
    PROVE  HandlesStay(c) /\ Typed'
  BY DEF vfs_littlefs_close_fails, HandlesStay, Typed, Contents, Descriptors, Shape

(* A thread stays on course while another does a step, if what is meant by *)
(* its file stays, or becomes Unknown; it does so when the other gives the *)
(* file back that it had emptied.                                          *)
LEMMA OthersOnCourse ==
    ASSUME Descriptors, Course, NEW c \in Clients, HandlesStay(c),
           Up' => Up,
           \A d \in Clients \ {c} :
                /\ pc'[d] = pc[d] /\ call'[d] = call[d] /\ lines'[d] = lines[d]
                /\ Busy(d) => intended'[call[d].name] \in {intended[call[d].name], Unknown},
           \/ ~Rewrites(c)
           \/ \A d \in Clients \ {c} :
                Busy(d) /\ call[d].name = call[c].name => intended'[call[d].name] = Unknown
    PROVE  \A d \in Clients \ {c} : OnCourse(d)' /\ Ready(d)'
<1> SUFFICES ASSUME NEW d \in Clients \ {c} PROVE OnCourse(d)' /\ Ready(d)'
  OBVIOUS
<1>1. pc'[d] = pc[d] /\ call'[d] = call[d] /\ lines'[d] = lines[d] /\ fd'[d] = fd[d]
  BY DEF HandlesStay
<1>2. pc[d] \in {"reading", "writing"} => cache'[fd'[d]] = cache[fd[d]]
  BY <1>1 DEF HandlesStay, Descriptors, Held
<1>3. Busy(d)' <=> Busy(d)
  BY <1>1 DEF Busy
<1>4. Rewrites(d)' <=> Rewrites(d)
  BY <1>1 DEF Rewrites
<1>5. Ready(d)'
  BY <1>1, <1>2, <1>4 DEF Course, Ready, Rewrites
<1>6. Busy(d) /\ intended'[call[d].name] # Unknown /\ Alone(d)' => Alone(d)
  <2> SUFFICES ASSUME Busy(d), intended'[call[d].name] # Unknown, Alone(d)',
                      NEW e \in Clients \ {d}, Rewrites(e)
               PROVE  call[e].name # call[d].name
    BY DEF Alone
  <2>1. CASE e = c
    BY <2>1
  <2>2. CASE e # c
    <3>1. Rewrites(e)' /\ call'[e] = call[e]
      BY <2>2 DEF Rewrites
    <3> QED
      BY <1>1, <3>1 DEF Alone
  <2> QED
    BY <2>1, <2>2
<1>7. Busy(d) /\ intended'[call[d].name] # Unknown => intended'[call[d].name] = intended[call[d].name]
  OBVIOUS
<1>8. OnCourse(d)
  BY DEF Course
<1>9. OnCourse(d)'
  BY <1>1, <1>2, <1>3, <1>6, <1>7, <1>8 DEF OnCourse
<1> QED
  BY <1>5, <1>9

\* the others do nothing
OthersStay(c) ==
    \A d \in Clients \ {c} : pc'[d] = pc[d] /\ call'[d] = call[d] /\ lines'[d] = lines[d]

\* what was meant by the files of the others stays, or becomes Unknown
OthersMean(c) ==
    \A d \in Clients \ {c} :
        Busy(d) => intended'[call[d].name] \in {intended[call[d].name], Unknown}
\* the others that have the file of c open give up what was meant by it
OthersGiveUp(c) ==
    \A d \in Clients \ {c} :
        Busy(d) /\ call[d].name = call[c].name => intended'[call[d].name] = Unknown

\* What each step has to show: its own thread stays on course, the others keep their
\* handles, and what was meant by their files stays or is given up.
LEMMA Assembled ==
    ASSUME Whole, NEW c \in Clients, HandlesStay(c), OthersStay(c), OthersMean(c), Typed',
           device' \in {"up", "corrupt"}, Up' => Up,
           files' \in [Names -> Seq(Lines) \cup {NoFile}],
           intended' \in [Names -> Seq(Lines) \cup {NoFile, Unknown}],
           lines' \in [Clients -> Seq(Lines)], Len(lines'[c]) =< MaxLines,
           ~Rewrites(c) \/ OthersGiveUp(c), OnCourse(c)', Ready(c)'
    PROVE  Contents' /\ Course'
<1>1. Contents'
  BY DEF Whole, Contents, Typed, OthersStay
<1>2. \A d \in Clients \ {c} : OnCourse(d)' /\ Ready(d)'
  BY OthersOnCourse DEF Whole, OthersStay, OthersMean, OthersGiveUp
<1> QED
  BY <1>1, <1>2 DEF Course

\* the step of a call that is over
LEMMA ReturnsToIdle ==
    ASSUME Whole, NEW c \in Clients, Returns(c)
    PROVE  /\ OthersStay(c) /\ OnCourse(c)' /\ Ready(c)'
           /\ lines' \in [Clients -> Seq(Lines)] /\ Len(lines'[c]) =< MaxLines
<1>1. pc'[c] = "idle" /\ call'[c] = NoCall /\ lines'[c] = <<>> /\ OthersStay(c)
  BY DEF Returns, Goes, Whole, Descriptors, Shape, Contents, Typed, OthersStay
<1>2. OnCourse(c)' /\ Ready(c)'
  BY <1>1 DEF OnCourse, Busy, Ready, Rewrites, NoCall
<1>3. lines' \in [Clients -> Seq(Lines)]
  BY EmptySeq DEF Returns, Whole, Contents, Typed
<1> QED
  BY <1>1, <1>2, <1>3, EmptySeq, FsAssumption

\* A file stops being rewritten only by a step of the thread that rewrites it.
LEMMA RewrittenKept ==
    ASSUME NEW c \in Clients, OthersStay(c), NEW n
    PROVE  n \in Rewritten /\ n \notin Rewritten' => Rewrites(c) /\ call[c].name = n
  BY DEF OthersStay, Rewritten, Rewrites

\* another that changes the file makes what is meant by it Unknown
LEMMA OthersMeant ==
    ASSUME Descriptors, Contents, NEW c \in Clients, NEW n \in Names, NEW content,
           intended' = [intended EXCEPT ![n] = Intend(c, n, content)]
    PROVE  /\ OthersMean(c) /\ (n = call[c].name => OthersGiveUp(c))
           /\ intended'[n] = Unknown \/ intended'[n] = content
           /\ (\A d \in Clients \ {c} : Busy(d) => call[d].name # n) => intended'[n] = content
<1>1. intended'[n] = Intend(c, n, content) /\ \A m \in Names : m # n => intended'[m] = intended[m]
  BY DEF Contents, Typed
<1>2. ASSUME NEW d \in Clients \ {c} PROVE Busy(d) /\ call[d].name = n <=> Changing(d, n)
  BY <1>2, CallTyped DEF Busy, Changing
<1>3. ASSUME NEW d \in Clients \ {c}, Busy(d), call[d].name = n PROVE intended'[n] = Unknown
  BY <1>1, <1>2, <1>3 DEF Intend
<1>4. ASSUME NEW d \in Clients \ {c}, Busy(d) PROVE call[d].name \in Names
  BY <1>4, CallTyped DEF Busy
<1>5. OthersMean(c)
  BY <1>1, <1>3, <1>4 DEF OthersMean
<1>6. n = call[c].name => OthersGiveUp(c)
  BY <1>3 DEF OthersGiveUp
<1>7. intended'[n] = Unknown \/ intended'[n] = content
  BY <1>1 DEF Intend
<1>8. (\A d \in Clients \ {c} : Busy(d) => call[d].name # n) => intended'[n] = content
  BY <1>1, <1>2 DEF Intend
<1> QED
  BY <1>5, <1>6, <1>7, <1>8

\* a step that changes neither the files nor what is meant by them
LEMMA StillAsIntended ==
    ASSUME Whole, NEW c \in Clients, OthersStay(c), ~Rewrites(c), UNCHANGED <<files, intended>>
    PROVE  FilesAsIntended' /\ OthersMean(c)
  BY RewrittenKept DEF Whole, FilesAsIntended, OthersMean

\* A step that leaves the device alone does not revive it.
LEMMA DeviceUp == Up /\ UNCHANGED device => (Up' => Up)
  BY DEF Up

-----------------------------------------------------------------------------
\* A read or an edit opens the file: the handle holds what was meant.
LEMMA OpenRead_Kept ==
    ASSUME Whole, NEW c \in Clients, NEW what \in Calls, OpenRead(c, what)
    PROVE  Contents' /\ Course' /\ FilesAsIntended'
<1>1. /\ what.op # "write" /\ (what.op = "edit" => Index8(what) \in 1..MaxLines)
      /\ Up /\ pc[c] = "idle" /\ pc' = [pc EXCEPT ![c] = "reading"]
      /\ call' = [call EXCEPT ![c] = what]
      /\ UNCHANGED <<device, lines, intended, files>>
      /\ Exists(what.name)
      /\ esp_littlefs_allocate_fd(c, [name |-> what.name, data |-> files[what.name]])
  BY DEF OpenRead, Enters, Goes, vfs_littlefs_open, lfs_file_opencfg
<1>2. what.name \in Names
  BY DEF Calls, Edits, Reads, Writes
<1>3. pc'[c] = "reading" /\ call'[c] = what /\ OthersStay(c) /\ ~Rewrites(c) /\ fd[c] = 0
  BY <1>1 DEF Whole, Descriptors, Shape, Held, OthersStay, Rewrites
<1>4. files[what.name] \in Seq(Lines)
  BY <1>1, <1>2 DEF Whole, Contents, Typed, Exists
<1>5. HandlesStay(c) /\ cache'[fd'[c]].data = files[what.name] /\ Typed'
  BY <1>1, <1>2, <1>3, <1>4, OpenedHandle DEF Whole
<1>6. OnCourse(c)'
  <2> SUFFICES ASSUME Alone(c)', intended[what.name] # Unknown
               PROVE  intended[what.name] = files[what.name]
    BY <1>1, <1>3, <1>5 DEF OnCourse
  <2>1. what.name \notin Rewritten
    BY <1>1, <1>3 DEF Alone, Rewritten, Rewrites, OthersStay
  <2> QED
    BY <1>2, <2>1 DEF Whole, FilesAsIntended
<1>7. Ready(c)'
  BY <1>1, <1>3 DEF Ready, Rewrites
<1>8. FilesAsIntended' /\ OthersMean(c)
  BY <1>1, <1>3, StillAsIntended
<1> QED
  BY <1>1, <1>3, <1>5, <1>6, <1>7, <1>8, Assembled, DeviceUp DEF Whole, Contents, Typed

\* An open that fails changes no file.
LEMMA OpenFails_Kept ==
    ASSUME Whole, NEW c \in Clients, OpenFails(c)
    PROVE  Contents' /\ Course' /\ FilesAsIntended'
<1>1. /\ Up /\ pc[c] = "idle" /\ vfs_littlefs_open_fails
      /\ UNCHANGED <<device, files, intended, pc, call, lines>>
  BY DEF OpenFails, client, vfs_littlefs_open_fails
<1>2. HandlesStay(c) /\ Typed'
  BY <1>1, FailedHandle DEF Whole
<1>3. OthersStay(c) /\ ~Rewrites(c)
  BY <1>1 DEF OthersStay, Rewrites
<1>4. OnCourse(c)' /\ Ready(c)'
  BY <1>1 DEF OnCourse, Busy, Ready, Rewrites, Whole, Course
<1>5. FilesAsIntended' /\ OthersMean(c)
  BY <1>1, <1>3, StillAsIntended
<1> QED
  BY <1>1, <1>2, <1>3, <1>4, <1>5, Assembled, DeviceUp DEF Whole, Contents, Typed

\* A read closes its handle and changes no file.
LEMMA L_FS_READ_Kept ==
    ASSUME Whole, NEW c \in Clients, L_FS_READ(c)
    PROVE  Contents' /\ Course' /\ FilesAsIntended'
<1>1. /\ Up /\ pc[c] = "reading" /\ Returns(c) /\ esp_littlefs_free_fd(c)
      /\ UNCHANGED <<device, files, intended>>
  BY DEF L_FS_READ, In, vfs_littlefs_close_clean
<1>2. HandlesStay(c) /\ Typed'
  BY <1>1, ClosedHandle DEF Whole, Descriptors, Held
<1>3. /\ OthersStay(c) /\ OnCourse(c)' /\ Ready(c)' /\ ~Rewrites(c)
      /\ lines' \in [Clients -> Seq(Lines)] /\ Len(lines'[c]) =< MaxLines
  BY <1>1, ReturnsToIdle DEF Rewrites
<1>4. FilesAsIntended' /\ OthersMean(c)
  BY <1>1, <1>3, StillAsIntended
<1> QED
  BY <1>1, <1>2, <1>3, <1>4, Assembled, DeviceUp DEF Whole, Contents, Typed

\* An edit has read the lines that were meant, unless they overran the array.
LEMMA EditRead_Kept ==
    ASSUME Whole, NEW c \in Clients, EditRead(c)
    PROVE  Contents' /\ Course' /\ FilesAsIntended'
<1> DEFINE content == cache[fd[c]].data
<1>1. /\ Up /\ pc[c] = "reading" /\ call[c].op = "edit" /\ pc' = [pc EXCEPT ![c] = "read"]
      /\ lines' = [lines EXCEPT ![c] = ReadLines(content)]
      /\ device' = IF ReadOverruns(content) THEN "corrupt" ELSE "up"
      /\ esp_littlefs_free_fd(c) /\ UNCHANGED <<call, files, intended>>
  BY DEF EditRead, In, Goes, vfs_littlefs_close_clean
<1>2. fd[c] # 0
  BY <1>1 DEF Whole, Descriptors, Held
<1>3. content \in Seq(Lines) /\ HandlesStay(c) /\ Typed'
  BY <1>1, <1>2, HandleTyped, ClosedHandle DEF Whole
<1> HIDE DEF content
<1>4. pc'[c] = "read" /\ lines'[c] = ReadLines(content) /\ OthersStay(c) /\ ~Rewrites(c)
  BY <1>1 DEF Whole, Descriptors, Shape, Contents, Typed, OthersStay, Rewrites
<1>5. /\ lines' \in [Clients -> Seq(Lines)] /\ Len(lines'[c]) =< MaxLines
      /\ Up' => lines'[c] = Gets(content)
  BY <1>1, <1>3, <1>4, ReadTyped DEF Whole, Contents, Typed, Up
<1>6. Alone(c)' => Alone(c)
  BY <1>1, <1>4 DEF Alone, OthersStay, Rewrites
<1>7. OnCourse(c)'
  <2> SUFFICES ASSUME Up', Alone(c)', intended[call[c].name] # Unknown
               PROVE  intended[call[c].name] \in Seq(Lines) /\ lines'[c] = Gets(intended[call[c].name])
    BY <1>1, <1>4 DEF OnCourse
  <2>1. intended[call[c].name] = content
    BY <1>1, <1>6 DEF Whole, Course, OnCourse, Busy, content
  <2> QED
    BY <1>3, <1>5, <2>1
<1>8. Ready(c)'
  BY <1>1, <1>4 DEF Ready, Rewrites, Whole, Course
<1>9. FilesAsIntended' /\ OthersMean(c)
  BY <1>1, <1>4, StillAsIntended
<1> QED
  BY <1>1, <1>3, <1>4, <1>5, <1>7, <1>8, <1>9, Assembled DEF Whole, Contents, Typed, Up

\* An edit that cannot open the file again leaves it as it is.
LEMMA EditFails_Kept ==
    ASSUME Whole, NEW c \in Clients, EditFails(c)
    PROVE  Contents' /\ Course' /\ FilesAsIntended'
<1>1. /\ Up /\ pc[c] = "read" /\ Returns(c) /\ (vfs_littlefs_open_fails \/ UNCHANGED efs)
      /\ UNCHANGED <<device, files, intended>>
  BY DEF EditFails, In, vfs_littlefs_open_fails
<1>2. HandlesStay(c) /\ Typed'
  BY <1>1, FailedHandle DEF Whole
<1>3. /\ OthersStay(c) /\ OnCourse(c)' /\ Ready(c)' /\ ~Rewrites(c)
      /\ lines' \in [Clients -> Seq(Lines)] /\ Len(lines'[c]) =< MaxLines
  BY <1>1, ReturnsToIdle DEF Rewrites
<1>4. FilesAsIntended' /\ OthersMean(c)
  BY <1>1, <1>3, StillAsIntended
<1> QED
  BY <1>1, <1>2, <1>3, <1>4, Assembled, DeviceUp DEF Whole, Contents, Typed

\* An edit that writes past the array ends what the device promises.
LEMMA EditOverruns_Kept ==
    ASSUME Whole, NEW c \in Clients, EditOverruns(c)
    PROVE  Contents' /\ Course' /\ FilesAsIntended'
<1>1. /\ pc[c] = "read" /\ device' = "corrupt"
      /\ UNCHANGED <<files, efs, pc, call, lines, intended>>
  BY DEF EditOverruns, In, client
<1>2. HandlesStay(c) /\ Typed'
  BY <1>1, FailedHandle DEF Whole
<1>3. OthersStay(c) /\ ~Rewrites(c) /\ ~Up'
  BY <1>1 DEF OthersStay, Rewrites, Up
<1>4. OnCourse(c)' /\ Ready(c)'
  BY <1>1, <1>3 DEF OnCourse, Ready, Rewrites, Whole, Course
<1>5. FilesAsIntended' /\ OthersMean(c)
  BY <1>1, <1>3, StillAsIntended
<1> QED
  BY <1>1, <1>2, <1>3, <1>4, <1>5, Assembled DEF Whole, Contents, Typed

\* An edit computes what it is to leave and empties the file: from here on it is rewritten.
LEMMA EditOpen_Kept ==
    ASSUME Whole, NEW c \in Clients, EditOpen(c)
    PROVE  Contents' /\ Course' /\ FilesAsIntended'
<1> DEFINE e == call[c]
           n == call[c].name
           meant == intended[n]
<1>1. /\ Up /\ pc[c] = "read" /\ e.op = "edit" /\ pc' = [pc EXCEPT ![c] = "writing"]
      /\ ~StoreOverruns(e) /\ ~DeletePastEnd(e, lines[c])
      /\ lines' = [lines EXCEPT ![c] = Edited(e, lines[c])]
      /\ vfs_littlefs_open(c, n, "w")
      /\ UNCHANGED <<device, call, intended>>
  BY DEF EditOpen, In, Goes, Whole, Contents, Typed
<1>2. e \in Edits /\ n \in Names /\ fd[c] = 0 /\ Index8(e) \in 1..MaxLines
  BY <1>1, CallTyped DEF Whole, Descriptors, Held, Course, Ready
<1>3. /\ esp_littlefs_allocate_fd(c, [name |-> n, data |-> <<>>])
      /\ files' = [files EXCEPT ![n] = <<>>] \/ files' = files
  BY <1>1 DEF vfs_littlefs_open, lfs_file_opencfg, lfs_file_sync
<1>4. <<>> \in Seq(Lines)
  BY EmptySeq
<1>5. HandlesStay(c) /\ cache'[fd'[c]].data = <<>> /\ Typed'
  BY <1>2, <1>3, <1>4, OpenedHandle DEF Whole
<1>6. pc'[c] = "writing" /\ lines'[c] = Edited(e, lines[c]) /\ OthersStay(c) /\ ~Rewrites(c)
  BY <1>1 DEF Whole, Descriptors, Shape, Contents, Typed, OthersStay, Rewrites
<1>7. Edited(e, lines[c]) \in Seq(Lines) /\ Len(Edited(e, lines[c])) =< MaxLines
  <2>1. lines[c] \in Seq(Lines) /\ Len(lines[c]) =< MaxLines /\ Index8(e) =< MaxLines
    BY <1>2, FsAssumption DEF Whole, Contents, Typed
  <2> HIDE DEF e
  <2> QED
    BY <1>1, <1>2, <2>1, EditedTyped
<1>8. files' \in [Names -> Seq(Lines) \cup {NoFile}]
  BY <1>2, <1>3, <1>4 DEF Whole, Contents, Typed
<1>9. Alone(c)' => Alone(c)
  BY <1>1, <1>6 DEF Alone, OthersStay, Rewrites
<1>10. OnCourse(c)'
  <2> SUFFICES ASSUME Alone(c), meant # Unknown
               PROVE  Intended(e, meant) \in {lines'[c], Unknown}
    BY <1>1, <1>6, <1>9 DEF OnCourse
  <2>1. meant \in Seq(Lines) /\ lines[c] = Gets(meant)
    BY <1>1 DEF Whole, Course, OnCourse, Busy
  <2> HIDE DEF e, meant
  <2>2. Intended(e, meant) \in {Edited(e, Gets(meant)), Unknown}
    BY <1>1, <1>2, <2>1, EditedAsIntended
  <2> QED
    BY <1>6, <2>1, <2>2
<1>11. Ready(c)'
  BY <1>1, <1>2, <1>5 DEF Ready
<1>12. n \in Rewritten'
  BY <1>1, <1>6 DEF Rewritten
<1>13. FilesAsIntended'
  <2> SUFFICES ASSUME NEW m \in Names, m \notin Rewritten'
               PROVE  intended'[m] \in {files'[m], Unknown}
    BY DEF FilesAsIntended
  <2>1. m # n /\ files'[m] = files[m]
    BY <1>3, <1>12 DEF Whole, Contents, Typed
  <2>2. m \notin Rewritten
    BY <1>6, RewrittenKept
  <2> QED
    BY <1>1, <2>1, <2>2 DEF Whole, FilesAsIntended
<1>14. OthersMean(c) /\ lines' \in [Clients -> Seq(Lines)] /\ Len(lines'[c]) =< MaxLines
  BY <1>1, <1>6, <1>7 DEF OthersMean, Whole, Contents, Typed
<1> QED
  BY <1>1, <1>5, <1>6, <1>8, <1>10, <1>11, <1>13, <1>14, Assembled, DeviceUp DEF Whole, Contents, Typed

\* A close that commits what was meant.
LEMMA CommitKept ==
    ASSUME Whole, NEW c \in Clients, Up, pc[c] = "writing", call[c].op \in {"edit", "write"},
           Returns(c), NEW data \in Seq(Lines), NEW meant,
           files' = [files EXCEPT ![call[c].name] = data], esp_littlefs_free_fd(c),
           intended' = [intended EXCEPT ![call[c].name] = Intend(c, call[c].name, meant)],
           UNCHANGED device,
           Alone(c) => meant \in {data, Unknown}
    PROVE  Contents' /\ Course' /\ FilesAsIntended'
<1> DEFINE n == call[c].name
<1>1. n \in Names
  BY CallTyped DEF Whole
<1>2. HandlesStay(c) /\ Typed'
  BY ClosedHandle DEF Whole, Descriptors, Held
<1>3. /\ OthersStay(c) /\ OnCourse(c)' /\ Ready(c)'
      /\ lines' \in [Clients -> Seq(Lines)] /\ Len(lines'[c]) =< MaxLines
  BY ReturnsToIdle
<1>4. /\ OthersMean(c) /\ OthersGiveUp(c) /\ intended'[n] \in {meant, Unknown}
      /\ (\A d \in Clients \ {c} : Busy(d) => call[d].name # n) => intended'[n] = meant
  BY <1>1, OthersMeant DEF Whole
<1>5. intended'[n] \in {data, Unknown}
  <2>1. CASE Alone(c)
    BY <1>4, <2>1
  <2>2. CASE ~Alone(c)
    <3>1. PICK d \in Clients \ {c} : Rewrites(d) /\ call[d].name = n
      BY <2>2 DEF Alone
    <3>2. Busy(d)
      BY <3>1 DEF Busy, Rewrites
    <3> QED
      BY <1>4, <3>1, <3>2 DEF OthersGiveUp
  <2> QED
    BY <2>1, <2>2
<1>6. FilesAsIntended'
  <2> SUFFICES ASSUME NEW m \in Names, m \notin Rewritten'
               PROVE  intended'[m] \in {files'[m], Unknown}
    BY DEF FilesAsIntended
  <2>1. CASE m = n
    BY <1>1, <1>5, <2>1 DEF Whole, Contents, Typed
  <2>2. CASE m # n
    <3>1. m \notin Rewritten
      BY <1>3, <2>2, RewrittenKept
    <3>2. files'[m] = files[m] /\ intended'[m] = intended[m]
      BY <2>2 DEF Whole, Contents, Typed
    <3> QED
      BY <3>1, <3>2 DEF Whole, FilesAsIntended
  <2> QED
    BY <2>1, <2>2
<1>7. /\ files' \in [Names -> Seq(Lines) \cup {NoFile}]
      /\ intended' \in [Names -> Seq(Lines) \cup {NoFile, Unknown}]
  BY <1>1, <1>5 DEF Whole, Contents, Typed
<1> QED
  BY <1>2, <1>3, <1>4, <1>6, <1>7, Assembled, DeviceUp DEF Whole, Contents, Typed

\* The file holds what the edit was to leave, unless another came between.
LEMMA EditClose_Kept ==
    ASSUME Whole, NEW c \in Clients, EditClose(c)
    PROVE  Contents' /\ Course' /\ FilesAsIntended'
<1> DEFINE n == call[c].name
           meant == Intended(call[c], intended[n])
<1>1. /\ Up /\ pc[c] = "writing" /\ call[c].op = "edit" /\ Returns(c) /\ UNCHANGED device
      /\ esp_littlefs_free_fd(c)
      /\ files' = [files EXCEPT ![cache[fd[c]].name] = cache[fd[c]].data \o lines[c]]
  BY DEF EditClose, In, vfs_littlefs_close, lfs_file_sync, lfs_file_write
<1>2. call[c] \in Edits /\ n \in Names /\ cache[fd[c]].name = n /\ cache[fd[c]].data = <<>>
  BY <1>1, CallTyped DEF Whole, Descriptors, Held, Course, Ready, Rewrites
<1>3. lines[c] \in Seq(Lines) /\ intended[n] \in Seq(Lines) \cup {NoFile, Unknown}
  BY <1>2 DEF Whole, Contents, Typed
<1>4. files' = [files EXCEPT ![n] = lines[c]]
  BY <1>1, <1>2, <1>3, ConcatEmptySeq
<1>5. meant \in Seq(Lines) \cup {NoFile, Unknown} /\ (intended[n] = Unknown => meant = Unknown)
  BY <1>2, <1>3, IntendedTyped
<1>6. Alone(c) /\ intended[n] # Unknown => meant \in {lines[c], Unknown}
  BY <1>1 DEF Whole, Course, OnCourse, Busy
<1>7. intended' = [intended EXCEPT ![n] = Intend(c, n, meant)]
  BY DEF EditClose
<1> HIDE DEF meant
<1> QED
  BY <1>1, <1>3, <1>4, <1>5, <1>6, <1>7, CommitKept

\* The text is appended to what was meant, unless another came between.
LEMMA L_FS_WRITE_Kept ==
    ASSUME Whole, NEW c \in Clients, L_FS_WRITE(c)
    PROVE  Contents' /\ Course' /\ FilesAsIntended'
<1> DEFINE n == call[c].name
           text == call[c].content
           meant == IF intended[n] = Unknown THEN Unknown ELSE Append(intended[n], text)
           data == cache[fd[c]].data
<1>1. /\ Up /\ pc[c] = "writing" /\ call[c].op = "write" /\ Returns(c) /\ UNCHANGED device
      /\ esp_littlefs_free_fd(c)
      /\ files' = [files EXCEPT ![cache[fd[c]].name] = data \o <<text>>]
  BY DEF L_FS_WRITE, In, vfs_littlefs_close, lfs_file_sync, lfs_file_write
<1>2. n \in Names /\ text \in Lines
  BY <1>1, CallTyped, LongIsLine DEF Whole
<1>3. cache[fd[c]].name = n /\ data \in Seq(Lines)
  BY <1>1, HandleTyped DEF Whole, Descriptors, Held
<1>4. intended' = [intended EXCEPT ![n] = Intend(c, n, meant)]
  BY DEF L_FS_WRITE
<1> HIDE DEF text, data
<1>5. data \o <<text>> \in Seq(Lines) /\ Append(data, text) = data \o <<text>>
  BY <1>2, <1>3, AppendIsConcat
<1>6. Alone(c) /\ intended[n] # Unknown => intended[n] = data
  BY <1>1 DEF Whole, Course, OnCourse, Busy, data
<1>7. Alone(c) => meant \in {data \o <<text>>, Unknown}
  BY <1>5, <1>6
<1>8. files' = [files EXCEPT ![n] = data \o <<text>>]
  BY <1>1, <1>3
<1> HIDE DEF meant
<1> QED
  BY <1>1, <1>4, <1>5, <1>7, <1>8, CommitKept

\* A commit that fails leaves the old file; an emptied one is known to be unknown.
LEMMA CloseFails_Kept ==
    ASSUME Whole, NEW c \in Clients, CloseFails(c)
    PROVE  Contents' /\ Course' /\ FilesAsIntended'
<1> DEFINE n == call[c].name
<1>1. /\ Up /\ pc[c] = "writing" /\ call[c].op \in {"edit", "write"} /\ Returns(c)
      /\ UNCHANGED <<device, files>>
      /\ intended' = IF call[c].op = "write" THEN intended ELSE [intended EXCEPT ![n] = Unknown]
      /\ esp_littlefs_free_fd(c) \/ vfs_littlefs_close_fails(c)
  BY DEF CloseFails, In, vfs_littlefs_close_clean, vfs_littlefs_close_fails
<1>2. n \in Names /\ fd[c] # 0
  BY <1>1, CallTyped DEF Whole, Descriptors, Held
<1>3. HandlesStay(c) /\ Typed'
  BY <1>1, <1>2, ClosedHandle, StuckHandle DEF Whole
<1>4. /\ OthersStay(c) /\ OnCourse(c)' /\ Ready(c)'
      /\ lines' \in [Clients -> Seq(Lines)] /\ Len(lines'[c]) =< MaxLines
  BY <1>1, ReturnsToIdle
<1>5. /\ intended' \in [Names -> Seq(Lines) \cup {NoFile, Unknown}]
      /\ \A m \in Names : intended'[m] \in {intended[m], Unknown}
      /\ call[c].op = "edit" => intended'[n] = Unknown
  BY <1>1, <1>2 DEF Whole, Contents, Typed
<1>6. OthersMean(c)
  BY <1>5, CallTyped DEF OthersMean, Busy, Whole
<1>7. ~Rewrites(c) \/ OthersGiveUp(c)
  BY <1>5 DEF Rewrites, OthersGiveUp
<1>8. FilesAsIntended'
  <2> SUFFICES ASSUME NEW m \in Names, m \notin Rewritten'
               PROVE  intended'[m] \in {files'[m], Unknown}
    BY DEF FilesAsIntended
  <2>1. CASE m \in Rewritten
    BY <1>4, <1>5, <2>1, RewrittenKept DEF Rewrites
  <2>2. CASE m \notin Rewritten
    BY <1>1, <1>5, <2>2 DEF Whole, FilesAsIntended
  <2> QED
    BY <2>1, <2>2
<1> QED
  BY <1>1, <1>3, <1>4, <1>5, <1>6, <1>7, <1>8, Assembled, DeviceUp DEF Whole, Contents, Typed

\* A write opens the file and creates it if there is none.
LEMMA WriteOpen_Kept ==
    ASSUME Whole, NEW c \in Clients, NEW n \in Names, NEW t \in Texts, WriteOpen(c, n, t)
    PROVE  Contents' /\ Course' /\ FilesAsIntended'
<1> DEFINE what == [op |-> "write", name |-> n, content |-> t]
           data == IF Exists(n) THEN files[n] ELSE <<>>
<1>1. /\ Up /\ pc[c] = "idle" /\ pc' = [pc EXCEPT ![c] = "writing"]
      /\ call' = [call EXCEPT ![c] = what]
      /\ intended' = IF Exists(n) THEN intended ELSE [intended EXCEPT ![n] = Intend(c, n, <<>>)]
      /\ UNCHANGED <<device, lines>>
      /\ esp_littlefs_allocate_fd(c, [name |-> n, data |-> data])
      /\ files' = [files EXCEPT ![n] = data] \/ (Exists(n) /\ files' = files)
  BY DEF WriteOpen, Enters, Goes, vfs_littlefs_open, lfs_file_opencfg, lfs_file_sync
<1>2. what.op = "write" /\ what.name = n
  OBVIOUS
<1> HIDE DEF what
<1>3. pc'[c] = "writing" /\ call'[c] = what /\ OthersStay(c) /\ ~Rewrites(c) /\ fd[c] = 0
  BY <1>1 DEF Whole, Descriptors, Shape, Held, OthersStay, Rewrites
<1>4. data \in Seq(Lines)
  BY EmptySeq DEF Whole, Contents, Typed, Exists
<1>5. files'[n] = data /\ \A m \in Names : m # n => files'[m] = files[m]
  BY <1>1 DEF Whole, Contents, Typed
<1>6. Exists(n) => intended' = intended
  BY <1>1
<1>7. ~Exists(n) => /\ intended' = [intended EXCEPT ![n] = Intend(c, n, data)]
                    /\ OthersMean(c) /\ intended'[n] \in {data, Unknown}
                    /\ \A m \in Names : m # n => intended'[m] = intended[m]
  BY <1>1, OthersMeant DEF Whole, Contents, Typed
<1>8. Exists(n) => data = files[n]
  OBVIOUS
<1>9. HandlesStay(c) /\ cache'[fd'[c]].data = data /\ Typed'
  <2> HIDE DEF data
  <2> QED
    BY <1>1, <1>3, <1>4, OpenedHandle DEF Whole
<1> HIDE DEF data
<1>10. OthersMean(c)
  BY <1>6, <1>7 DEF OthersMean
<1>11. n \notin Rewritten => intended'[n] \in {data, Unknown}
  BY <1>6, <1>7, <1>8 DEF Whole, FilesAsIntended
<1>12. OnCourse(c)'
  <2> SUFFICES ASSUME Alone(c)', intended'[n] # Unknown
               PROVE  intended'[n] = data
    BY <1>2, <1>3, <1>9 DEF OnCourse
  <2>1. n \notin Rewritten
    BY <1>1, <1>2, <1>3 DEF Alone, Rewritten, Rewrites, OthersStay
  <2> QED
    BY <1>11, <2>1
<1>13. Ready(c)'
  BY <1>2, <1>3 DEF Ready, Rewrites
<1>14. FilesAsIntended'
  <2> SUFFICES ASSUME NEW m \in Names, m \notin Rewritten'
               PROVE  intended'[m] \in {files'[m], Unknown}
    BY DEF FilesAsIntended
  <2>1. m \notin Rewritten
    BY <1>3, RewrittenKept
  <2>2. CASE m = n
    BY <1>5, <1>11, <2>1, <2>2
  <2>3. CASE m # n
    BY <1>5, <1>6, <1>7, <2>1, <2>3 DEF Whole, FilesAsIntended
  <2> QED
    BY <2>2, <2>3
<1>15. /\ files' \in [Names -> Seq(Lines) \cup {NoFile}]
       /\ intended' \in [Names -> Seq(Lines) \cup {NoFile, Unknown}]
  <2>1. files' = files \/ files' = [files EXCEPT ![n] = data]
    BY <1>1
  <2>2. intended' = intended \/ (intended' = [intended EXCEPT ![n] = Intend(c, n, data)] /\ intended'[n] \in {data, Unknown})
    BY <1>6, <1>7
  <2> QED
    BY <1>4, <2>1, <2>2 DEF Whole, Contents, Typed
<1> QED
  BY <1>1, <1>3, <1>9, <1>10, <1>12, <1>13, <1>14, <1>15, Assembled, DeviceUp DEF Whole, Contents, Typed

\* A file that is not open is not being rewritten.
LEMMA NotRewritten ==
    ASSUME Descriptors, NEW n \in Names, ~esp_littlefs_get_fd_by_name(n)
    PROVE  n \notin Rewritten
  BY OpenKnown DEF OpenMeansOpen, Rewritten, Descriptors, Held

\* a file is removed, or renamed, or nothing happens
LEMMA NamesKept ==
    ASSUME Whole, NEW c \in Clients, pc[c] = "idle", UNCHANGED <<device, efs, pc, call, lines>>,
           files' \in [Names -> Seq(Lines) \cup {NoFile}],
           intended' \in [Names -> Seq(Lines) \cup {NoFile, Unknown}],
           FilesAsIntended', OthersMean(c)
    PROVE  Contents' /\ Course'
<1>1. HandlesStay(c) /\ Typed'
  BY FailedHandle DEF Whole
<1>2. OthersStay(c) /\ ~Rewrites(c)
  BY DEF OthersStay, Rewrites
<1>3. OnCourse(c)' /\ Ready(c)'
  BY DEF OnCourse, Busy, Ready, Rewrites, Whole, Course
<1> QED
  BY <1>1, <1>2, <1>3, Assembled DEF Whole, Contents, Typed, Up

\* A file that is removed is gone, as was meant.
LEMMA L_FS_REMOVE_Kept ==
    ASSUME Whole, NEW c \in Clients, NEW n \in Names, L_FS_REMOVE(c, n)
    PROVE  Contents' /\ Course' /\ FilesAsIntended'
<1>1. /\ pc[c] = "idle" /\ UNCHANGED <<device, efs, pc, call, lines>>
      /\ files' = [files EXCEPT ![n] = NoFile]
      /\ intended' = [intended EXCEPT ![n] = Intend(c, n, NoFile)]
  BY DEF L_FS_REMOVE, vfs_littlefs_unlink, lfs_remove, client
<1>2. OthersMean(c) /\ intended'[n] \in {NoFile, Unknown}
  BY <1>1, OthersMeant DEF Whole
<1>3. Rewritten' = Rewritten
  BY <1>1 DEF Rewritten
<1>4. FilesAsIntended'
  BY <1>1, <1>2, <1>3 DEF Whole, Contents, Typed, FilesAsIntended
<1> QED
  BY <1>1, <1>2, <1>4, NamesKept DEF Whole, Contents, Typed

\* A file that is renamed is found under its new name, as was meant.
LEMMA L_FS_RENAME_Kept ==
    ASSUME Whole, NEW c \in Clients, NEW old \in Names, NEW new \in Names, L_FS_RENAME(c, old, new)
    PROVE  Contents' /\ Course' /\ FilesAsIntended'
<1>1. /\ pc[c] = "idle" /\ UNCHANGED <<device, efs, pc, call, lines>> /\ old # new
      /\ ~esp_littlefs_get_fd_by_name(old)
      /\ files' = [files EXCEPT ![new] = files[old], ![old] = NoFile]
      /\ intended' = [intended EXCEPT ![new] = Intend(c, new, intended[old]),
                                     ![old] = Intend(c, old, NoFile)]
  BY DEF L_FS_RENAME, vfs_littlefs_rename, lfs_rename, client
<1>2. /\ intended'[new] = Intend(c, new, intended[old]) /\ intended'[old] = Intend(c, old, NoFile)
      /\ \A m \in Names : m \notin {old, new} => intended'[m] = intended[m]
  BY <1>1 DEF Whole, Contents, Typed
<1>3. /\ files'[new] = files[old] /\ files'[old] = NoFile
      /\ \A m \in Names : m \notin {old, new} => files'[m] = files[m]
  BY <1>1 DEF Whole, Contents, Typed
<1>4. intended'[new] \in {intended[old], Unknown} /\ intended'[old] \in {NoFile, Unknown}
  BY <1>2 DEF Intend
<1>5. OthersMean(c)
  <2> SUFFICES ASSUME NEW d \in Clients \ {c}, Busy(d)
               PROVE  intended'[call[d].name] \in {intended[call[d].name], Unknown}
    BY DEF OthersMean
  <2>1. call[d].name \in Names /\ Changing(d, call[d].name)
    BY CallTyped DEF Busy, Changing, Whole
  <2>2. CASE call[d].name \in {old, new}
    BY <1>2, <2>1, <2>2 DEF Intend
  <2>3. CASE call[d].name \notin {old, new}
    BY <1>2, <2>1, <2>3
  <2> QED
    BY <2>2, <2>3
<1>6. Rewritten' = Rewritten
  BY <1>1 DEF Rewritten
<1>7. intended[old] \in {files[old], Unknown}
  BY <1>1, NotRewritten DEF Whole, FilesAsIntended
<1>8. FilesAsIntended'
  <2> SUFFICES ASSUME NEW m \in Names \ Rewritten PROVE intended'[m] \in {files'[m], Unknown}
    BY <1>6 DEF FilesAsIntended
  <2>1. CASE m \in {old, new}
    BY <1>3, <1>4, <1>7, <2>1
  <2>2. CASE m \notin {old, new}
    BY <1>2, <1>3, <2>2 DEF Whole, FilesAsIntended
  <2> QED
    BY <2>1, <2>2
<1>9. /\ files' \in [Names -> Seq(Lines) \cup {NoFile}]
      /\ intended' \in [Names -> Seq(Lines) \cup {NoFile, Unknown}]
  BY <1>1, <1>4 DEF Whole, Contents, Typed
<1> QED
  BY <1>1, <1>5, <1>8, <1>9, NamesKept

\* A restart loses the emptied files and no other.
LEMMA Restart_Kept ==
    ASSUME Whole, Restart
    PROVE  Contents' /\ Course' /\ FilesAsIntended'
<1>1. /\ device' = "up" /\ files' = files
      /\ cache' = NoDescriptors /\ cache_size' = MinSlots
      /\ pc' = [c \in Clients |-> "idle"] /\ call' = [c \in Clients |-> NoCall]
      /\ lines' = [c \in Clients |-> <<>>]
      /\ intended' = [n \in Names |-> IF n \in Rewritten THEN Unknown ELSE intended[n]]
  BY DEF Restart, Remount
<1>2. Contents'
  BY <1>1, EmptySeq, SlotsAssumption, FsAssumption DEF Whole, Contents, Typed, NoDescriptors
<1>3. Course'
  BY <1>1 DEF Course, OnCourse, Busy, Ready, Rewrites, NoCall
<1>4. FilesAsIntended'
  BY <1>1 DEF Whole, FilesAsIntended
<1> QED
  BY <1>2, <1>3, <1>4

\* A step that changes nothing keeps everything.
LEMMA Stutter_Kept ==
    ASSUME Whole, UNCHANGED vars
    PROVE  Contents' /\ Course' /\ FilesAsIntended'
<1>1. UNCHANGED <<device, files, cache, cache_size, fd, pc, call, lines, intended>>
  BY DEF vars, efs, client
<1>2. Contents'
  BY <1>1 DEF Whole, Contents, Typed
<1>3. Course'
  BY <1>1 DEF Whole, Course, OnCourse, Busy, Alone, Ready, Rewrites, Up
<1>4. FilesAsIntended'
  BY <1>1 DEF Whole, FilesAsIntended, Rewritten
<1> QED
  BY <1>2, <1>3, <1>4

\* The invariant holds in a file system that was just formatted.
LEMMA InitWhole == Init => Whole
<1> SUFFICES ASSUME Init PROVE Whole
  OBVIOUS
<1>1. /\ device = "up" /\ files = [n \in Names |-> NoFile] /\ intended = files
      /\ cache = NoDescriptors /\ cache_size = MinSlots
      /\ pc = [c \in Clients |-> "idle"] /\ call = [c \in Clients |-> NoCall]
      /\ lines = [c \in Clients |-> <<>>]
  BY DEF Init, Mounted
<1>2. Contents
  BY <1>1, EmptySeq, SlotsAssumption, FsAssumption DEF Contents, Typed, NoDescriptors
<1>3. Course
  BY <1>1 DEF Course, OnCourse, Busy, Ready, Rewrites, NoCall
<1>4. FilesAsIntended
  BY <1>1 DEF FilesAsIntended
<1> QED
  BY <1>2, <1>3, <1>4, InitDescriptors DEF Whole

\* Every step keeps the invariant.
LEMMA NextWhole == Whole /\ [Next]_vars => Whole'
<1> SUFFICES ASSUME Whole, [Next]_vars PROVE Whole'
  OBVIOUS
<1>1. Descriptors'
  BY StepKeeps DEF Whole
<1>2. Contents' /\ Course' /\ FilesAsIntended'
  BY OpenRead_Kept, OpenFails_Kept, L_FS_READ_Kept, EditRead_Kept, EditFails_Kept,
     EditOverruns_Kept, EditOpen_Kept, EditClose_Kept, L_FS_WRITE_Kept, CloseFails_Kept,
     WriteOpen_Kept, L_FS_REMOVE_Kept, L_FS_RENAME_Kept, Restart_Kept, Stutter_Kept DEF Next
<1> QED
  BY <1>1, <1>2 DEF Whole

\* The invariant gives every variable its type.
LEMMA WholeTyped == Whole => TypeOK
<1> SUFFICES ASSUME Whole PROVE TypeOK
  OBVIOUS
<1>1. fd_count \in 0..cache_size
  <2>1. cache_size \in Nat /\ 1 =< cache_size /\ fd_count \in Nat /\ fd_count = Cardinality(Used)
    BY DEF Whole, Descriptors, Shape, Counted
  <2>2. IsFiniteSet(1..cache_size) /\ Cardinality(1..cache_size) = cache_size
    <3>1. 1 \in Int /\ cache_size \in Int
      BY <2>1
    <3>2. /\ IsFiniteSet(1..cache_size)
          /\ Cardinality(1..cache_size) = IF 1 > cache_size THEN 0 ELSE cache_size - 1 + 1
      BY <3>1, FS_Interval, Zenon
    <3> QED
      BY <2>1, <3>2
  <2>3. Used \subseteq 1..cache_size
    BY DEF Used
  <2>4. Cardinality(Used) =< cache_size
    BY <2>2, <2>3, FS_Subset
  <2> QED
    BY <2>1, <2>4
<1> QED
  BY <1>1 DEF Whole, Contents, Typed, Descriptors, Shape, TypeOK

-----------------------------------------------------------------------------
(* Everything proved of the files follows from this invariant.             *)
THEOREM Inductive == Spec => []Whole
  BY InitWhole, NextWhole, PTL DEF Spec

(* Every variable keeps its type: a file is a sequence of lines however it *)
(* was read, cut and put together, and the array of an edit never counts   *)
(* more lines than it has.                                                 *)
THEOREM TypeCorrect == Spec => []TypeOK
  BY Inductive, WholeTyped, PTL

(* For any number of threads and files: each thread finds its own file     *)
(* under its descriptor, and a name counts as open as long as a thread has *)
(* a handle for it or a close of it has failed, and no longer.  So remove  *)
(* and rename refuse the files that are in use, and no others but those.   *)
THEOREM OpenFilesAreKnown == Spec => []OpenMeansOpen
<1>1. Spec => []Descriptors
  BY InitDescriptors, StepKeeps, PTL DEF Spec
<1> QED
  BY <1>1, OpenKnown, PTL

(* A file that was not changed by two calls at once holds what the calls   *)
(* that took effect intended, for edits, writes, removes and renames in    *)
(* any order, with a full flash or heap and restarts between any steps,    *)
(* until an edit meets a line of 63 characters or more in it, or an index  *)
(* beyond uint8_t.                                                         *)
THEOREM FilesAreKept == Spec => []FilesKept
<1>1. Whole => FilesKept
  BY OpenKnown DEF Whole, FilesKept
<1> QED
  BY <1>1, Inductive, PTL
=============================================================================
