# A verification project for CLIos

CLIos is firmware for the ESP32: a serial console that runs Lua, with libraries
for FreeRTOS tasks, files, Wi-Fi and sockets, Bluetooth and the chip's buses and
pins. It is small, but several threads share one `lua_State`, blocks of memory
change hands between threads and the garbage collector, and the console, the
interpreter and the Wi-Fi driver run beside each other. There are no tests.
This directory models the parts where the order of steps decides whether the
program is right, checks them with TLC and proves with TLAPS, for every number
of threads, handles and files, each safety property that a run checks.

Run a check with `tlc -config <cfg> <module>`, e.g.
`tlc -config MCLuaTask_kept.cfg MCLuaTask`, and the proofs with
`tlapm <module>_proofs.tla`.

## 1. Inventory

Paths are below `src/`.

| Part | Source | State | Operations | Hard about it | What makes it correct |
|---|---|---|---|---|---|
| Task library and luaMutex | `components/FOS/fos_task.c`, `main/Core_Level.c:155-182`, `components/SYS/sys_os.c` | a block (`lua_task_param_t`) per task, its trigger queue, the callback's reference, the handle in Lua, `luaMutex` | create, start, stop, suspend, resume, `__gc`, the worker thread, the boot script, reboot | worker, scripts and collector share the block; `stop_flag` is read before a wait; allocations fail | callbacks are serialised, the block outlives its worker, stop is bounded, what ends is freed |
| Console thread | `main/Core_Level.c:108-153` | `buffer_input`, `index` | read the UART, end of line, ordinary byte | one buffer for the read and for the line | the lines handed over are those typed |
| Hand-over of lines | `main/Core_Level.c:30-34, 118-134, 42-55` | two slots, their lengths, `active_index`, the notification count | copy, flip, notify; take, load, copy | two threads, no lock, two slots, notifications taken all at once | every line runs once, whole, in order |
| Interpreter loop | `main/Core_Level.c:38-105` | `buffer_multiline` and its 8-bit length | one turn per line: compile, run, keep or drop | what survives an error; the length wraps | each completed chunk runs once, in order |
| Wi-Fi and net | `components/NET/net_wifi.c`, `net_net.c` | `wifi_init`, two interfaces, `g_net_inited`, the driver | mode, start, stop, delete, net.init, the event handler | events that are handled late; calls that abort | flags follow the driver; a station reconnects |
| Files | `components/SYS/sys_littlefs.c`, over `managed_components/joltwallet__littlefs` | the files; the file system's cache of descriptors; during an edit, an array of lines | write, edit, remove, rename, read, size, ls | an edit is read, change, write back; a commit that fails; restarts | an edit changes its line only; a file in use is not removed or renamed, any other may be |
| Script synchronisation | `components/FOS/fos_mutex.c`, `fos_queue.c`, `fos_semaphore.c` | a FreeRTOS object each | create, take/lock/receive, give/unlock/send | they block while `luaMutex` is held | no deadlock with the tasks |
| HTTP server | `components/NET/net_httpd.c` | the running server, its one handler, the field `srv` of each handle | start, on, stop, the handler on the server's thread | the handler uses the Lua state and the handle beside the scripts | start, on and stop in any order are safe; nothing of a stopped server stays |
| Sockets and HTTP client | `net_socket.c`, `net_http.c` | the field `fd` of a handle; LWIP's table of descriptors | connect, listen, accept, send and receive, close, request | the number is tested, then waited with, then reset, and LWIP gives it to the next | a close takes its own descriptor; every descriptor can be given back |
| WebSocket | `net_websocket.c`, `managed_components/espressif__esp_websocket_client` | the client's state, `run`, event bits, lock, transport | open, send, close; the client's task connects, reads, pings and connects again | fields read outside the lock; the task and `close` race to the end | nothing is used after it is freed, close returns, a lost peer is noticed |
| TLS, mDNS | `net_tls.c`, `net_mdns.c` | none of their own | | see section 6 | |
| Bluetooth | `components/BLE/ble_ble.c` | `g_nimble_ready`, `g_conn_handle` | init, advertise, send, NimBLE callbacks | see section 6 | |
| Buses | `components/COM/*.c`, but for i2s | what is installed on a port; the fields of its handles; the devices on a bus | open, add a device, transfer, remove, close | handles are tested and reset around calls that wait; a refused call aborts the device; a host has few chip selects | the field says whether there is a driver; a careful script is never refused |
| I2S | `components/COM/com_i2s.c` | | | not bound by `main/init.c`: see section 6 | | |
| Pins and converters | `components/HDW/*.c` | as the buses, for adc, dac and pwm; nothing for gpio | open, read or write, close | as the buses | as the buses |
| Other vendored code | `managed_components/` | | | third party | not this project's |

How they interact: `app_main` opens the libraries (so Wi-Fi's event loop, the
UART and the mount exist before any script), takes `luaMutex`, runs
`/home/boot.lua`, gives the mutex back and creates the console and the
interpreter threads. The console hands lines to the interpreter through two
slots and a notification. Scripts (the boot script, the interpreter, callbacks)
create worker threads, which call Lua under `luaMutex`; the interpreter itself
does not take it. The Wi-Fi driver calls `wifi_event_handler` on its own thread,
the HTTP server its handler, and each WebSocket has a task. Handles of files,
sockets and drivers belong to scripts, so that two threads (the owner of
`luaMutex` and the interpreter) may be in a call on one handle at a time, and
the collector may take a handle that is still open.

The hazards this code has, with their lines, are listed in `PROJECT.json`.

## 2. Modules

| Module | What it is | How it corresponds to the code |
|---|---|---|
| `TaskLibrary` | what the task library promises: tasks are absent, armed, active, ended; one callback at a time; at most one after a stop | abstract |
| `LuaTask` | the task library | `pc[w]` is the line of `lua_task` the worker is at, `param[w]` its block with the queue and the reference, `ud[w]` the handle in Lua, `luaMutex` its owner; each `L_TASK_*` is the function of that name, called by any thread that runs Lua |
| `LuaTask_proofs` | theorems about `LuaTask` | |
| `FosSync` | mutexes, semaphores and queues of scripts | a thread is outside Lua, in it, or in a call; `luaMutex` is taken and given as in `LuaTask`; each `L_*` is the return of the function of that name, which waits (`Call` is its start) until what it needs is there; semaphores and queues are counters |
| `FosSync_proofs` | theorems about `FosSync` | |
| `LineReader` | what the console comes to: bytes are cut at ends of lines, lines keep their first bytes; with `firstLost` an end of line stands in the place of a line's first byte | abstract |
| `ShellTask` | `_ShellTask`, one byte per step | `UartRead` overwrites the front of `buffer_input`; `EndOfLine` and `OrdinaryByte` are the two branches of the loop; `typing` says how the input comes: in whole lines, key by key, or in any pieces |
| `LineQueue` | what the hand-over promises: each line once, in order | abstract |
| `LineHandoff` | `_ShellTask` and `_HandleLuaCommand` as two threads | one action per access to a shared variable; a `memcpy` is two steps, between which the text is `HalfCopied`; a line is its number |
| `Repl` | `_HandleLuaCommand`, a turn per line | `Line` appends and compiles, then one of `Incomplete`, `RetryWraps`, `SyntaxError`, `Success`, `RuntimeError`, the exits of the loop body; `reference` is what the lines come to when each is interpreted as it is entered |
| `Console_proofs` | theorems about `ShellTask`, `LineHandoff` and `Repl` | |
| `WifiNet` | the two network libraries over a driver | one action per call up to its first driver call, then one per driver call; `at` is the place in the call that runs, `asked` its mode; the driver's answers and events are external and come between any two steps |
| `WifiNet_proofs` | theorems about `WifiNet` | |
| `EspLittleFs` | the file system below the fs library | `cache`, `cache_size`, `fd_count` are the fields of `esp_littlefs_t`; `vfs_littlefs_*` are the functions of `esp_littlefs.c`, one step each since each holds the lock of the file system; `lfs_*` is what the function of `lfs.c` leaves on the flash |
| `LittleFs` | the file library over it | a call that opens a file is split at `fopen` and `fclose`: `OpenRead`, `EditRead`, `EditOpen`, `EditClose` are the four of `L_FS_EDIT`, `WriteOpen` and `L_FS_WRITE` the two of `L_FS_WRITE`; `Pieces` is what `fgets` makes of a line, `Index8` the conversion of the index to `uint8_t` |
| `LittleFs_proofs` | theorems about `EspLittleFs` and `LittleFs` | |
| `Drivers` | the libraries of buses and converters that scripts can reach, which differ in what a handle remembers and what a close tests | `kind[p]` is the library; `driver[p]` what is installed; `held` the field a close tests (`installed`, `ch`, `unit`, `h`); `lost` the devices on a bus that no handle has; a transfer and a close are two steps each, with the wait between them |
| `Drivers_proofs` | theorems about `Drivers` | |
| `Net` | sockets, HTTP requests and the HTTP server over LWIP's descriptors | `table` is LWIP's, `fd[h]` the field of the handle; a call that waits is its start and its end, with the number it read at the start |
| `Net_proofs` | theorems about `Net` | |
| `WsClient` | one WebSocket: the client's task and the script's calls | `pc` is the place in `esp_websocket_client_task`, `state`, `run`, `bits`, `lock` its fields; `SendPing`, `PongTimeout`, `PollFails`, `Reconnect` and the rest are the branches of the task's loop |
| `WsClient_proofs` | theorems about `WsClient` | |
| `MC*` | the above with constants for TLC | |

`ShellTask`, `LineHandoff` and `Repl` cut the path of a line at the two places
where it changes hands: `ShellTask` says which lines are handed over,
`LineHandoff` which of them the interpreter gets, `Repl` what it does with them.

Modelling decisions worth knowing:

- *Undefined behaviour.* A use of memory that was freed leaves the device
  unharmed, damages the heap, or panics. A damaged heap is followed only to the
  panic. In `Repl` and `LittleFs` a write past a buffer ends what is modelled of
  that boot.
- *Cores.* Threads interleave at every access to shared state. `luaMutex` is a
  FreeRTOS mutex with no time limit.
- *Suspension.* A suspended worker takes no step, and keeps `luaMutex` if it
  has it, as `vTaskSuspend` does.
- *The REPL.* It runs Lua beside the callbacks without `luaMutex`
  (`Core_Level.c:62-86`), and so does the `luaL_unref` of a worker that ends
  (`fos_task.c:52`): any of the script calls may happen while a callback runs.
  As long as two threads are in the `lua_State` (`LuaShared`), `LuaRace` may
  damage the heap or panic at any step.
- *Wi-Fi calls* are made by one thread at a time; connections made and lost, and
  the event handler, come between any two driver calls of a call.
- *Care*. Where scripts can do harm, `Init` chooses how they behave in all of a
  behaviour, and the properties say what each choice is worth. `FosSync`: the
  rules of `Careful` are kept or not. `Drivers` and `Net`: "full" is a script that
  opens, uses, closes once and then drops, as the comments at the head of the
  libraries show, and keeps a record of what it has open (in `Drivers` it also
  counts its spi devices, uses one from one thread at a time, and receives no
  more than it sends); "serial" is any script that makes one
  call at a time; "none" is any script. `WsClient`: calls on a handle overlap or
  not, and `prompt` says whether the client's task gets through its first and
  last statements before the thread that made it, or waits for it, goes on,
  which priorities decide. A script mutex belongs to a thread, not to a
  callback, and a task that ends does not unlock what it has.
- *LWIP* hands out the lowest free descriptor, so that a number that was closed
  is soon somebody else's.
- *History variables* (`late`, `open`, `intended`, `stuck`, `handed`, `interpreted`, `ran`,
  `reference`, `overfull`) record what happened for
  the properties; no action of the code reads them, but a careful script its
  own record `open`.
- *The compiler*, in `Repl`, tells apart what `_HandleLuaCommand` tells apart:
  "near <eof>" with and without "expected", other errors, and success.
- *Files.* A handle works on the file as it was opened; what it writes is on the
  flash when it is closed. The glue commits right after opening, so `fopen "w"`
  empties the file at once; it refuses to remove or rename a file with an open
  handle, which it finds by name among its descriptors. A full flash or heap
  refuses any open, and a close in one of two ways: the data is refused, which
  stdio hears and nobody asks about, or the commit is, and then the descriptor
  stays. What is in a file ends in an end of line. That littlefs may reuse blocks under a reader, and that stdio may
  write a long file in several portions, is left out.
- *Driver answers* in `WifiNet` are the documented conditions of
  `esp_wifi_set_config`, `esp_wifi_connect` and `esp_wifi_disconnect`. A call
  under `ESP_ERROR_CHECK` that they refuse aborts the device.
- The operators called "variant" are deliberate mistakes that the checks are
  known to notice; no specification uses them.

## 3. Runs

| Run | Shows | Bounds, and why they are enough |
|---|---|---|
| `MCLuaTask_kept` | Scripts that keep handles and let go of them at stop: nothing brings the device down but two threads in the `lua_State`, one of them the REPL or an ending worker (`OnlyRacesHurt`), callbacks and boot script never overlap, at most one callback begins after stop, `LuaTask` implements `TaskLibrary`; started tasks run and stopped tasks end. | Two tasks: every hazard is between a task and another owner of the mutex, or a task and its script. A queue of 2 is met empty, partly filled and full. |
| `MCLuaTask_any` | All calls, allocation failures, handles used after stop, a period of 5 ms (0 ticks): a worker that gets to its end has given everything back (`NothingLeaks`), and only a stop (the finaliser sets `stop_flag` too), or a command beside another thread in Lua, precedes damage to the heap (`DamageNeedsCause`). | Two interchangeable tasks, queue of 1. |
| `MCLuaTask_freed` | Violation of `OnlyRacesHurt`: a collected handle. | |
| `MCFosSync_waits` | With care no deadlock is reached (`NeverDead`) and every wait of a callback ends (`WaitsEnd`), though callbacks lock two mutexes in either order and share them with the REPL. Without care: when the REPL waits too, or does not exist yet, nothing can end the wait of a callback (`DeadStaysDead`). | Two tasks, the boot script and the REPL; two mutexes are needed for opposite orders; a semaphore and a queue of one are met empty and full. |
| `MCShellTask_reads` | However the input is cut into reads the uninitialised tail never gets into a line; a NUL, which the console wrote itself, does only where longer reads end inside lines (`LinesAreWritten`). `ShellTask` implements `LineReader` (`KeepsLines`): when every read ends at an end of line the lines are those typed; when every read is one key, as when somebody types by hand, they are cut at the size of the buffer, and an end of line stands for their first byte. | A buffer of 4 bytes is filled and exceeded, key by key and by reads on top of a line so far; 7 bytes typed make several lines and reads. |
| `MCLineHandoff_lines` | A user who waits (`paced`): `LineHandoff` implements `LineQueue`. A user who does not: nothing unwritten is read, the slot being read is overwritten by its second successor only (`SlotsKeepApart`), and after a pause the last line has run. | Five lines: the third is the first that can reach a slot in use, two more let the threads lap each other again. |
| `MCRepl_lines` | Completed chunks run once and in order while the lines fit, no statement runs twice or early even when the length wraps (`RunsOnce`), a failure holds back the lines after it. | The real sizes: 62 or 63 bytes a line, four of them fill the 256 bytes exactly, to the byte before (which the retry with one more newline needs), or beyond. Five lines of six kinds. |
| `MCWifiNet_calls` | `wifi_init` and the interface pointers follow the driver through every order of calls and between any two driver calls, and a link has its interface, but for the steps that `FollowsDriver` names: `wifi.mode` between `esp_wifi_init` and the flag, and a stop at level 1, which destroys the station's interface under a running driver and the others after it is gone. A station that was started and not stopped is connected, connecting, or has an event waiting that will make it connect (`NeverStranded`). | Four events waiting: more than the calls between two handlings can make stale. |
| `MCLittleFs_edits` | `FilesKept`: edits change their line only, unless they meet a line of 63 characters or more or an index beyond `uint8_t`; writes add their line or nothing, and neither a full flash nor a restart costs a file but one an edit was writing; each thread has its own descriptor, and a name counts as open while a thread has it open, or since a close of it failed, and no longer. | Two threads, two files, an array of two lines and files of up to two lines, long ones included, so that every index is met below, at and above each boundary; an index of two bits, so that one above the array wraps. A cache of one place that grows to two: met full, grown, with a gap, and with a place lost for good. One file at a time has more than one line or a long one, and long lines are met by one thread at a time (`Bound`). |
| `MCDrivers_handles` | A careful script is never refused and uses nothing that is gone (`SafeWithCare`); with calls that do not overlap no handle whose close tests a field damages memory (`GuardsHold`); the tested field is set exactly while the driver is the handle's, and a careful script's record is the state of the drivers (`HandlesTellTruth`). | One peripheral of each kind in turn and the console's port, two threads, three handles: a bus with a device and another bus, two handles on one port and one more, or one device more than a host with two chip selects takes. |
| `MCNet_descriptors` | Handle and descriptor point at each other, a server has its three and nothing stays when it is stopped, a careful script loses none (`DescriptorsAccounted`); a close takes the descriptor of another only if two calls on one handle overlap, and memory is damaged by the server's handler only (`SafeWithoutOverlap`). | Four descriptors, of which a server takes three: the table is met empty, full with and without a server. Three handles: a listener, an accepted connection, and a server or another socket. Two threads. |
| `MCWsClient_client` | With calls that do not overlap and a prompt task, the client is not used after it is freed (`SafeUnlessRaced`), and close returns (`CloseReturns`), whatever the peer does; a connection that counts as closing is pinged no more only after a send that the close frame overtook (`PingsWhenConnected`); a silent or lost peer is noticed and the connection opened again (`StaysInTouch`). | Two threads: one that closes while the other sends. The state has no counters, so nothing is bounded. |

`CHECK_DEADLOCK FALSE` stands where the user may stop typing (console,
hand-over, interpreter), where threads may wait for each other for ever
(`FosSync`), and where memory is damaged and nothing is modelled of that boot
any more (`Net`, `WsClient`). The others never stop.

Fairness. `LuaTask`: FreeRTOS runs every ready thread of a script (they have one
priority by default and block between callbacks), hence weak fairness of each
worker; the waiters of a mutex are woken in turn, hence strong fairness of
`TakeLuaMutex`; the boot script and callbacks end. Nothing is assumed of
scripts. The two liveness properties stop at a suspended task, since it may
keep the mutex for ever. `FosSync`: a call returns if what it waits for is there again and again (the
REPL sleeps between commands, so the waiter of its mutex gets it), and a command
does not keep a mutex for ever. `LineHandoff`: both threads run; the user need not type.
`WsClient`: the task and the calls of scripts run; a lock that is free again and
again is got, since FreeRTOS wakes its waiters in turn (strong fairness of
`TaskLocks`, `TaskAborts`, `SendLocks`). The timers of the client elapse: the time
to ping, to give up on an answer and to connect again comes again and again
while the task turns, and among ever more attempts to connect one succeeds
(strong fairness of `SendPing`, `PongTimeout`, `Reconnect`, `ConnectOk`; the last is
an assumption about the network, without which no client stays in touch).

## 4. Where the code and its comments disagree

The first is a run that TLC refutes; the others can be read off one action
each, named here:

1. *A dropped handle* (`fos_task.c:146-155`, `MCLuaTask_freed`). The finaliser
   frees the block that the worker uses and later frees itself.
2. *The example of spi* (`com_spi.c:7`) sends one byte and
   receives three. In full duplex, which `add_device` configures, the driver
   refuses to receive more than it sends, and `ESP_ERROR_CHECK` aborts the device
   every time (`F_SPI_DEV_TXRX` with `longer`).
3. *The index of fs.edit* (`sys_littlefs.c:73-78`, `Index8`) is cut to
   8 bits before it is tested, so that 257 is not "out of range" but line 1. And
   it is a "0-based index" that refuses 0 (`OpenRead`).
4. *The quit key* (`Core_Level.c:137`) is tested where the byte is an end of
   line, so it never interrupts anything (`EndOfLine`). The hook it would need is
   set "once at the beginning", line 39, and removed by the first command, line
   103; with nothing to ask for an interruption the hook is not modelled.
5. *net.init* (`net_net.c:20`) is "safe to call multiple times", and the first
   call aborts the device (`L_NET_INIT`).
6. *httpd.on* promises to "store Lua callback per path+method"
   (`net_httpd.c:9`); the code stores the table in itself, under the reference
   of the callback (`net_httpd.c:20`), the handler looks up path and method, and
   every request is answered with 404 (`lua_httpd_generic_handler`).
7. *fs.write and fs.edit* (`sys_littlefs.c:35, 132`) do not look at the result of
   `fclose`, and stdio keeps the text until then: they report success for
   text that a full flash has refused, and for a name that stays open
   until the next restart (`CloseFails`).

The models also show behaviour that no comment speaks about, and the properties
are stated around it: a line that arrives key by key loses its first byte to its
end of line, and one that arrives in longer pieces its first bytes to its last
ones, with a NUL that the console wrote before them (`Core_Level.c:113, 120`;
`firstLost` in `KeepsLines`, and `typing = "any"`, of which it claims nothing);
lines entered while another is interpreted are lost, doubled, torn or
swapped (`LineHandoff` with `paced = FALSE`); a line entered before the
interpreter exists notifies a NULL handle (`NotifyGive`); a statement that fails
is kept and fails again with every further line (`FailureHoldsBack`); four long
lines wrap the length of the buffer (`overfull`); two edits at once lose one,
and a restart inside an edit empties the file (`Unknown` in `LittleFs`); the
REPL and `luaL_unref` are outside `luaMutex`, and a callback beside them may damage
the heap (`LuaRace`); a line of 63 characters, which `fs.edit` itself makes of any longer one, is read by the
next edit as that line and an empty one (`Pieces`); a stop of Wi-Fi at level 1 destroys
the station's interface while the driver still runs (`DestroySta`), and `wifi.sta_start` aborts if the event
handler connects between its two driver calls (`Connect`); two threads that
transfer with one spi device may trip an assertion (`F_SPI_DEV_TXRX`), and the devices
of dropped handles use up the chip selects of a host (`HasRoom`); a
socket that is opened twice forgets its first descriptor (`care # "full"` in
`Net`); a close of a WebSocket waits for ever if the task starts only after it
(`prompt = FALSE`, with which `TaskRuns` sets `run` again).

## 5. Proofs

`LuaTask_proofs` is about `LuaTask` with any set of tasks, queue length, tick
and periods.

- `TypeCorrect`: `Spec => []TypeOK`, by one step per action.
- `Serialised`: `Spec => []CallbacksSerialised`. Not inductive alone: the
  strengthening `MutexOwner` says that whoever is in a callback or in the boot
  script owns `luaMutex`; it is preserved even where blocks are freed under
  their workers, since no worker changes its place without a step of its own.
- `StopIsBounded`: `Spec => []StopBound`. The invariant ties `late` to the place
  of the worker: once a callback has begun after stop, the worker is in it or
  behind it, and the next look at `stop_flag` ends the loop.
- `OnlyRacesHurtDiscipline`: for disciplined scripts (`Disciplined`: no handle is
  dropped, none is used after stop, memory suffices, no period below a tick)
  `Spec => [](OnlyRacesHurt /\ BlockOutlivesWorker)`. The invariant says for
  every place of the worker what of its block is still there, and that a device
  which is down was taken by `LuaRace`; since callbacks and boot script exclude each
  other (`MutexOwner`), one of the threads in that race is the REPL or at
  `luaL_unref` (`RaceNeedsOutsider`).
- `WorkersLeaveNothing`, `DamageHasCause`: `Spec => []NothingLeaks` and
  `Spec => []DamageNeedsCause`, for scripts without any discipline. The invariant
  `AnyInv` says, for each task, that every step of the worker's clean-up leaves the
  next one less to do (`LeakInvOf`), and that a block which was not stopped is
  whole while its worker is in its loop (`IntactInvOf`): no call of a script, no
  failing allocation and no collector takes that back.
- `PromiseKept`: for disciplined scripts, `Spec => KeepsPromise`: the initial
  state maps to the initial state of `TaskLibrary`, and each action to an action
  of it or to a stutter, using the invariants above.

`Console_proofs` is about the path of a line: `ShellTask` with a buffer of any
size and any number of bytes typed, `LineHandoff` with any number of lines,
`Repl` with any lengths of lines, any size of the buffer and any number of turns.

- `ShellTypeCorrect`, `OnlyWrittenBytes`: `ShellSpec => []ShellTypeOK`, which bounds
  `index`, and `[]LinesAreWritten`. Neither the line so far nor what is still to
  be scanned holds a byte nobody wrote (`CleanBuffer`, `CleanLines`); nor a NUL
  (`NoNulAhead`), where reads are whole lines or single keys, since then the line so
  far does not meet what is still to be scanned (`ReadsInv`).
- `LinesAreKept`: `ShellSpec => KeepsLines`: each step is one of `LineReader` or a
  stutter. `ReadsInv` says why for whole lines the read does no harm: the line
  so far is empty when a read begins, and never longer than what was scanned, so
  that a compacted byte is not written over one that was not looked at. A key
  lands on the first byte of the line so far, and `BarFacts` says that the line
  which `LineReader` has is the same but for that byte.
- `HandoffTypeCorrect`, `SlotsStayApart`: `HandoffSpec => []HandoffTypeOK` and
  `[]SlotsKeepApart`. `SlotsInv` says at each step of the console what both slots
  hold, in terms of the last two lines made active; `CountInv` that a
  notification comes after that; `ReadInv` that the interpreter takes none before.
- `EveryLineHandedOver`: `HandoffSpec => HandsOverEveryLine`, by steps of
  `LineQueue` and stutters. `PacedInv`: for a user who waits, the one line that
  is under way is with the console, in the notification, or with the
  interpreter, whose copy of it is then whole.
- `ReplTypeCorrect`, `ChunksRunOnce`, `FailuresHoldBack`: `ReplSpec => []ReplTypeOK`,
  `[]RunsOnce`, `[]FailureHoldsBack`. The lines in the buffer are numbered upwards
  and nothing has run that was not entered (`ChunkInv`); without a failure all that
  is in the buffer comes after all that ran (`AheadInv`); buffer and history are
  those of the reference, the last line apart while it is interpreted (`SyncInv`);
  and nothing has run past a failing line that is in the buffer (`BlockInv`). A
  length that wraps only empties the buffer, which keeps all of these but `SyncInv`,
  whence the condition `~overfull` there: of lines that do not fit `RunsOnce` says
  only that none runs twice or early, since whole chunks may be missing. What the compiler answers is a fold over
  the buffer about which nothing has to be known but that it depends on the
  buffer alone.

`FosSync_proofs` is about `FosSync` with any threads, objects and capacities.

- `SyncTypeCorrect`: `Spec => []TypeOK`, the bound of every counter included.
- `DeadlockIsFinal`: `Spec => DeadStaysDead`. It needs `LuaOwner`: the threads in
  Lua are the owner of `luaMutex` and the REPL, only threads in Lua make calls,
  and the REPL does not exist before `app_main` is gone. So when both wait,
  nobody is left to give, send or unlock.
- `CareAvoidsDeadlock`: `Spec => []NeverDead`. The strengthening `Care` says that
  who has a script mutex is in Lua, that the REPL does not wait while it has one,
  and that callbacks wait for mutexes of others only. Two callbacks are never in
  Lua together, so the owner a callback waits for can only be the REPL, which
  does not wait: no order of locks matters.

`Drivers_proofs` is about `Drivers` with any number of peripherals of every kind
at once, of handles and of threads (the run has one of each in turn).

- `CarefulScriptsAreSafe`, `GuardsSuffice`, `HandlesAreTrue`: `[]SafeWithCare`,
  `[]GuardsHold`, `[]HandlesTellTruth`. They are inductive together with what the
  calls under way rely on: only buses have devices (`DevsBare`), a handle that is
  being closed is in no other call (`NoOverlap`), has passed the test of its
  field (`ClosingHeld`), a serial script is in one call (`OneCall`), and what a
  careful script is using it has open (`Record`). `SafeWithCare` is about scripts that
  keep every rule of `May`, among them those no example shows: the devices on a
  host are no more than its chip selects, which such a script can count since
  its record is the driver's (`RoomLeft`), and no transfer receives more than it
  sends, which the example of `com_spi.c` breaks.

`WifiNet_proofs` is about `WifiNet` with any number of events waiting.

- `FlagsAreTrue`, `Reconnects`: `[]FollowsDriver`, `[]NeverStranded`. A station that
  scripts want could connect if it were told to (`WantedCould`), a station's mode
  comes with its interface (`ModeHasNetif`), until a stop takes it, each step of a call
  finds what those before it did (`StepsInOrder`), and nothing is wanted before
  the device is up (`OffIsReset`).

`Net_proofs` is about `Net` with any number of descriptors, sessions, handles and
threads.

- `ClosesOwnDescriptor`: `[]SafeWithoutOverlap`. The invariant `Linked` says that
  handle and descriptor point at each other (`FdTable`), that careful scripts lose
  none (`Record`), what a call under way found (`CallShape`), and that it is still
  there where calls do not overlap (`NoOverlap`).
- `EveryDescriptorCounted`: `[]DescriptorsAccounted`. `Counts` adds the server's three
  descriptors and the bound on its sessions; a start takes the three lowest that
  are free, and the lemma `ThreeLowest` says that these are three in any finite
  set that has as many. That a set of descriptors that is not empty has a lowest
  one is taken from the well-foundedness of `<`.

`WsClient_proofs` is about `WsClient` with any number of threads.

- `FreedIsUnused`, `PingsGoOn`: `[]SafeUnlessRaced`, `[]PingsWhenConnected`. Who is
  writing has the lock (`SendingLocks`), careful scripts are in one call
  (`OneCall`), the bit that lets close go on means that the task is at its end
  (`StoppedIsEnd`), a client that is freed has no task and no call (`FreedIsDone`),
  and after the close frame there is only the end, unless a send has failed
  (`CloseSentEnds`).

`LittleFs_proofs` is about `LittleFs` with any number of threads and files, files
of any length, and an array and a cache of any size.

- `OpenFilesAreKnown`: `[]OpenMeansOpen`, the second half of `FilesKept`. The search
  for a name ends when it has seen `fd_count` descriptors, so it is right only if
  that is the number of places in use (`Counted`), whatever gaps the cache has;
  every place in use is the handle of one thread (`Held`) or left by a close that
  failed (`Accounted`).
- `FilesAreKept`: `[]FilesKept`. `FilesAsIntended` speaks of the files that nobody
  rewrites and says nothing of a call that is half done. `Course` does: as long
  as no other has emptied the file a thread is working on, and what was meant by
  that file is known, its handle holds the file, then its array holds the file's
  lines, then the lines its edit is to leave. Each step keeps the course of its
  own thread; the others keep theirs since their handles stay (`HandlesStay`) and a
  thread that changes a file somebody else has open makes what was meant by it
  `Unknown` (`OthersMean`). `EditedAsIntended` says that the two loops of the
  editor, over an array and an index, compute the file with that one line
  replaced, put behind blanks, or removed: what was meant is stated on the file,
  not on what `fgets` reads of it, and `GetsLines` shows that for files whose lines fit
  the buffer these are the same.
- `TypeCorrect`: `[]TypeOK`. That lines which are cut, padded and put together
  again are a sequence of lines rests on `FlattenTyped`: the function that
  `FlattenSeq` chooses exists and has sequences as values, since there is no
  least place where it would not (`JoinsExist`, by the well-foundedness of `<`).

In each of these modules `TypeCorrect` (`SyncTypeCorrect`), where it is there, is
`[]TypeOK`, and `Inductive` is the invariant from which the others follow.

The assumptions are those of the modules: names of different things are
distinct, sizes are positive. The discipline is an assumption of the two
theorems that need it, and the run `MCLuaTask_freed` shows that it is needed.

Every invariant, action property and refinement the runs check is the statement
of a theorem. Only model-checked: liveness, which is out of the prover's reach
(`StartedTaskRuns`, `StoppedWorkerEnds`, `WaitsEnd`, `LastLineRuns`, `CloseReturns`,
`StaysInTouch`), and the counterexample of
`MCLuaTask_freed`. What `AfterLine` makes of a chunk, line by line, is a recursion over data
that no theorem here unfolds; the one over which something had to be
proved, `FlattenSeq`, is argued by a least counterexample instead of by induction.

## 6. Not modelled, and the plan

- *Bluetooth.* `ble.init` calls `nimble_port_init` twice (`ble_ble.c:184, 192`), and the task it makes for the host only sleeps and never runs the port
  (`ble_ble.c:163-169`), so that the synchronisation it waits for never comes: no
  later state of the library can be reached.
- *TLS.* `net.tls` passes a NULL handle to `esp_tls_conn_new_sync`
  (`net_tls.c`), so no connection is ever made. *mDNS* keeps nothing and passes its
  arguments on.
- *I2S.* `main/init.c` does not bind `com_i2s.c`, so that no script can reach it.
- *gpio*, and the duty of a pwm channel, are single calls of ESP-IDF that keep
  nothing here.
- *Vendored code* beyond what the libraries reach: littlefs's blocks,
  directories, attributes and garbage collection, and mDNS. They are most of the
  lines of the repository, and what matters of them here is what their callers
  rely on, which `EspLittleFs` and `WsClient` have.
- Lua itself; `task.delay`, scans, addresses, `fs.size`, `fs.ls` and other calls
  that read and report; the interruption of a command and its hook (nothing asks
  for it); priorities, but for `prompt`.

`FosSync` leaves out `task.suspend`, `task.delay` and `os.reboot`, which `LuaTask`
has or which change nothing here.

What would be next:

1. `ShellTask`, `LineHandoff` and `Repl` as one system, from `LineReader` to the
   chunks that run, for the user who waits.
2. The stdio between the fs library and the file system, for files that are
   written in several portions.
3. Two WebSockets that share the event loop and LWIP's descriptors, as a
   composition of `WsClient` and `Net`.
