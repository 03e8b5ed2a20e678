------------------------------- MODULE Drivers -------------------------------
(***************************************************************************)
(* The life of a peripheral and of the handles that scripts have on it:    *)
(* the libraries of components/COM that main/init.c binds (uart, spi, i2c, *)
(* can, rmt) and of components/HDW (adc, dac, pwm), with the new drivers   *)
(* of ESP-IDF 5.  Each opens a driver under ESP_ERROR_CHECK, passes calls  *)
(* on to it and gives it back; they differ in what a handle remembers and  *)
(* in what a close looks at.  Two threads may be in Lua at once: the owner *)
(* of luaMutex and the REPL.  A call that the driver refuses aborts the    *)
(* device, which starts again; a use of a driver object that was deleted   *)
(* damages memory.                                                         *)
(***************************************************************************)
EXTENDS FiniteSets, Naturals

CONSTANTS
    Peripherals,  \* ports, hosts, units and channels
    Console,      \* the uart ports the firmware itself uses
    Handles,      \* handles that exist at a time, of drivers and of devices
    Threads,      \* the threads that may be in Lua at once
    ChipSelects,  \* the devices that an spi host has a chip select for
    Free,         \* no driver is installed
    NoHandle      \* a driver is installed and no handle has it

ASSUME DriversAssumption ==
    /\ Console \subseteq Peripherals
    /\ Free # NoHandle /\ {Free, NoHandle} \cap Handles = {}
    /\ IsFiniteSet(Handles) /\ Handles \cap Peripherals = {}
    /\ ChipSelects \in Nat

\* the field of the handle that says whether there is a driver to close is
\* tested and cleared by close: uart installed, rmt ch, adc unit, dac h
Guarded == {"uart", "rmt", "adc", "dac"}
\* close does not look at the handle but stops the one controller or channel
Global == {"can", "pwm"}
\* close passes on the pointer of the handle, and leaves it there
Bare == {"i2c", "spi"}
Kinds == Guarded \cup Global \cup Bare

Cares == {"full", "serial", "none"}

VARIABLES
    device,    \* "up"; aborted after a refused "call" or a failed transfer on
               \* the "bus"; or the kind whose handle damaged the memory
    care,      \* how scripts behave, see May: chosen once
    kind,      \* of each peripheral: chosen once
    driver,    \* what is installed on it: a handle stands for the driver object
    attached,  \* the devices on an i2c or spi bus, by their handles
    lost,      \* how many devices on an spi bus no handle has; 1 for any on i2c
    live,      \* the handles that scripts can reach
    devs,      \* those of devices
    of,        \* the peripheral of a handle
    held,      \* the guarded handles whose field is set
    open,      \* history: what scripts opened and did not close, handles and spi hosts
    io,        \* the threads in a transfer, with their handles
    closing    \* the threads in a close, past its test

choices == <<care, kind>>
drivers == <<driver, attached, lost>>
handles == <<live, devs, of, held, open>>
calls == <<io, closing>>
vars == <<device, choices, drivers, handles, calls>>

TypeOK ==
    /\ device \in {"up", "call", "bus"} \cup Kinds
    /\ care \in Cares /\ kind \in [Peripherals -> Kinds]
    /\ driver \in [Peripherals -> Handles \cup {Free, NoHandle}]
    /\ attached \in [Peripherals -> SUBSET Handles] /\ lost \in [Peripherals -> Nat]
    /\ live \subseteq Handles /\ devs \subseteq live /\ held \subseteq live
    /\ of \in [Handles -> Peripherals] /\ open \subseteq live \cup Peripherals
    /\ io \subseteq Threads \X live /\ closing \subseteq Threads \X live

\* the UART of the console has its driver before any script
Installed0 == [p \in Peripherals |-> IF p \in Console THEN NoHandle ELSE Free]
NoDevice == [p \in Peripherals |-> {}]
NoneLost == [p \in Peripherals |-> 0]

Init ==
    /\ device = "up" /\ care \in Cares
    /\ kind \in [Peripherals -> Kinds] /\ \A p \in Console : kind[p] = "uart"
    /\ driver = Installed0 /\ attached = NoDevice /\ lost = NoneLost
    /\ live = {} /\ devs = {} /\ held = {} /\ open = {}
    /\ of \in [Handles -> Peripherals]
    /\ io = {} /\ closing = {}

-----------------------------------------------------------------------------
Up == device = "up"
Calls == io \cup closing
Idle(t) == \A c \in Calls : c[1] # t
Used(h) == \E c \in Calls : c[2] = h
\* the object that h was made for exists
Kept(h) == IF h \in devs THEN h \in attached[of[h]] ELSE driver[of[h]] = h
Busy(h) == \E c \in io : c[2] = h
Transfers(p) == {c \in io : of[c[2]] = p}
\* what scripts have open on a peripheral: its driver, and the devices on it
OpenOn(p) == {x \in open \ devs : x = p \/ (x \in Handles /\ of[x] = p)}
OpenDevices(p) == {h \in open \cap devs : of[h] = p}
HasDevices(p) == attached[p] # {} \/ lost[p] > 0

\* What scripts call.  "none": anything.  "serial": anything, one call at a
\* time.  "full": by their own record of it (open) they open what is not open,
\* use what is open, remove devices before their bus, close once and before the
\* handle is dropped, never while a call is using it; they add no more devices
\* to an spi host than it has chip selects, transfer with one from one thread
\* at a time, and receive no more than they send.  The last the example at the
\* head of com_spi.c does not keep, and the call it shows is always refused.
May(t, fullOk) ==
    /\ Up /\ Idle(t)
    /\ care = "serial" => Calls = {}
    /\ care = "full" => fullOk
MayOpen(t, p) == May(t, p \notin Console /\ OpenOn(p) = {})
MayUse(t, h) == h \in live /\ May(t, h \in open /\ \A c \in closing : c[2] # h)
MayClose(t, h) ==
    /\ h \in live
    /\ May(t, h \in open /\ ~Used(h) /\ (h \notin devs => OpenDevices(of[h]) = {}))

Abort(reason) == device' = reason /\ UNCHANGED <<choices, drivers, handles, calls>>
Damage(p) == Abort(kind[p])

\* a new handle
Make(h, p) ==
    /\ h \notin live
    /\ live' = live \cup {h} /\ of' = [of EXCEPT ![h] = p]
    /\ open' = open \cup {h}
    /\ UNCHANGED <<device, choices, calls>>

-----------------------------------------------------------------------------
(* Opening.                                                                *)

\* ESP_ERROR_CHECK of an installation: a driver that is there refuses
Open(t, p, h, k) ==
    /\ kind[p] = k /\ MayOpen(t, p)
    /\ IF driver[p] # Free THEN Abort("call")
       ELSE /\ Make(h, p)
            /\ driver' = [driver EXCEPT ![p] = h]
            /\ held' = IF k \in Guarded THEN held \cup {h} ELSE held
            /\ UNCHANGED <<devs, attached, lost>>

L_UART_OPEN(t, p, h) == Open(t, p, h, "uart")
L_I2C_BUS_NEW(t, p, h) == Open(t, p, h, "i2c")
L_CAN_START(t, p, h) == Open(t, p, h, "can")
L_RMT_TX_NEW(t, p, h) == Open(t, p, h, "rmt")
l_adc_channel(t, p, h) == Open(t, p, h, "adc")
l_dac_new(t, p, h) == Open(t, p, h, "dac")

\* ledc_channel_config takes a channel over, whoever has it
l_pwm_new(t, p, h) ==
    /\ kind[p] = "pwm" /\ MayOpen(t, p)
    /\ Make(h, p)
    /\ driver' = [driver EXCEPT ![p] = h]
    /\ UNCHANGED <<devs, held, attached, lost>>

\* an spi host has no handle
L_SPI_BUS_INIT(t, p) ==
    /\ kind[p] = "spi" /\ MayOpen(t, p)
    /\ IF driver[p] # Free THEN Abort("call")
       ELSE /\ driver' = [driver EXCEPT ![p] = NoHandle] /\ open' = open \cup {p}
            /\ UNCHANGED <<device, choices, attached, lost, live, devs, of, held, calls>>

Attach(p, h) ==
    /\ Make(h, p)
    /\ devs' = devs \cup {h}
    /\ attached' = [attached EXCEPT ![p] = @ \cup {h}]
    /\ UNCHANGED <<driver, lost, held>>

HasRoom(p) == Cardinality(attached[p]) + lost[p] < ChipSelects

L_SPI_ADD_DEVICE(t, p, h) ==
    /\ kind[p] = "spi"
    /\ May(t, p \in open /\ Cardinality(OpenDevices(p)) < ChipSelects)
    /\ IF driver[p] = Free \/ ~HasRoom(p) THEN Abort("call") ELSE Attach(p, h)

\* bus:add_device, with the pointer in the handle of the bus
F_I2C_BUS_ADD_DEV(t, bus, h) ==
    LET p == of[bus] IN
    /\ bus \notin devs /\ MayUse(t, bus) /\ kind[p] = "i2c"
    /\ IF ~Kept(bus) THEN Damage(p) ELSE Attach(p, h)

-----------------------------------------------------------------------------
(* Transfers, which may wait.                                              *)

Begin(t, h) ==
    /\ io' = io \cup {<<t, h>>}
    /\ UNCHANGED <<device, choices, drivers, handles, closing>>

\* the driver answers -1 if the port has none
UART_IO(t, h) ==
    /\ MayUse(t, h) /\ kind[of[h]] = "uart" /\ driver[of[h]] # Free
    /\ Begin(t, h)

F_CAN_TX(t, h) ==
    /\ MayUse(t, h) /\ kind[of[h]] = "can"
    /\ IF driver[of[h]] = Free THEN Abort("call") ELSE Begin(t, h)

\* nil if there is no driver
F_CAN_RX(t, h) ==
    /\ MayUse(t, h) /\ kind[of[h]] = "can" /\ driver[of[h]] # Free
    /\ Begin(t, h)

\* a NULL handle is refused
CheckedIo(t, h, k) ==
    /\ MayUse(t, h) /\ kind[of[h]] = k
    /\ IF h \notin held THEN Abort("call") ELSE Begin(t, h)

F_SEND_RAW(t, h) == CheckedIo(t, h, "rmt")
l_adc_read(t, h) == CheckedIo(t, h, "adc")
l_dac_write(t, h) == CheckedIo(t, h, "dac")

I2C_DEV_IO(t, h) ==
    /\ h \in devs /\ MayUse(t, h) /\ kind[of[h]] = "i2c"
    /\ IF ~Kept(h) THEN Damage(of[h]) ELSE Begin(t, h)

\* spi_device_transmit refuses to receive longer than it sends, and asserts that
\* the answer it takes is its own, which it may not be with two on one device
F_SPI_DEV_TXRX(t, h, longer) ==
    /\ h \in devs /\ MayUse(t, h) /\ kind[of[h]] = "spi"
    /\ May(t, ~longer /\ ~Busy(h))
    /\ IF ~Kept(h) THEN Damage(of[h])
       ELSE \/ (longer \/ Busy(h)) /\ Abort("call")
            \/ ~longer /\ Begin(t, h)

TransferEnds(t, h) ==
    /\ Up /\ <<t, h>> \in io
    /\ io' = io \ {<<t, h>>}
    /\ UNCHANGED <<device, choices, drivers, handles, closing>>

\* no acknowledgement, a time limit: ESP_ERROR_CHECK aborts, uart answers -1
TransferFails(t, h) ==
    /\ Up /\ <<t, h>> \in io /\ kind[of[h]] # "uart"
    /\ Abort("bus")

-----------------------------------------------------------------------------
(* Closing: the test of the handle, then the deletion.                     *)

\* variant: close does not test the field
BeginClose_untested(t, h) ==
    /\ MayClose(t, h) /\ kind[of[h]] # "pwm"
    /\ closing' = closing \cup {<<t, h>>}
    /\ UNCHANGED <<device, choices, drivers, handles, io>>

BeginClose(t, h) ==
    /\ MayClose(t, h) /\ kind[of[h]] # "pwm"
    /\ kind[of[h]] \in Guarded => h \in held
    /\ closing' = closing \cup {<<t, h>>}
    /\ UNCHANGED <<device, choices, drivers, handles, io>>

Closes(t, h, k) == Up /\ <<t, h>> \in closing /\ kind[of[h]] = k

\* the driver is deleted, and the field cleared
Deleted(t, h) ==
    /\ driver' = [driver EXCEPT ![of[h]] = Free]
    /\ held' = held \ {h} /\ open' = open \ {h}
    /\ closing' = closing \ {<<t, h>>}
    /\ UNCHANGED <<device, choices, attached, lost, live, devs, of, io>>

\* uart_driver_delete takes the number of the port, and is content if it has no driver
F_UART_CLOSE(t, h) ==
    /\ Closes(t, h, "uart")
    /\ IF Transfers(of[h]) # {} THEN Damage(of[h]) ELSE Deleted(t, h)

\* the object is gone if another thread was faster
DeleteObject(t, h, k) ==
    /\ Closes(t, h, k)
    /\ IF ~Kept(h) \/ Transfers(of[h]) # {} THEN Damage(of[h]) ELSE Deleted(t, h)

\* variant: only the encoder is deleted
F_RMT_CLOSE_encoder(t, h) ==
    /\ Closes(t, h, "rmt")
    /\ held' = held \ {h} /\ open' = open \ {h}
    /\ closing' = closing \ {<<t, h>>}
    /\ UNCHANGED <<device, choices, drivers, live, devs, of, io>>

F_RMT_CLOSE(t, h) == DeleteObject(t, h, "rmt")
l_adc_close(t, h) == DeleteObject(t, h, "adc")
l_dac_free(t, h) == DeleteObject(t, h, "dac")

\* twai_stop and twai_driver_uninstall: the one driver, whoever started it
F_CAN_STOP(t, h) ==
    /\ Closes(t, h, "can")
    /\ IF Transfers(of[h]) # {} THEN Damage(of[h]) ELSE Deleted(t, h)

\* ledc_stop: the channel, whoever has it; nothing can fail or wait
l_pwm_free(t, h) ==
    /\ MayClose(t, h) /\ kind[of[h]] = "pwm"
    /\ driver' = [driver EXCEPT ![of[h]] = Free] /\ open' = open \ {h}
    /\ UNCHANGED <<device, choices, attached, lost, live, devs, of, held, calls>>

\* the result is not looked at: a bus with devices may stay, or go and leave
\* its devices without one
F_I2C_BUS_CLOSE(t, h) ==
    LET p == of[h] IN
    /\ Closes(t, h, "i2c") /\ h \notin devs
    /\ IF ~Kept(h) \/ Transfers(p) # {} THEN Damage(p)
       ELSE /\ \/ /\ driver' = [driver EXCEPT ![p] = Free]
                  /\ attached' = [attached EXCEPT ![p] = {}]
                  /\ lost' = [lost EXCEPT ![p] = 0]
               \/ /\ HasDevices(p)
                  /\ UNCHANGED drivers
            /\ open' = open \ {h} /\ closing' = closing \ {<<t, h>>}
            /\ UNCHANGED <<device, choices, live, devs, of, held, io>>

RemoveDevice(t, h, k) ==
    /\ Closes(t, h, k) /\ h \in devs
    /\ IF ~Kept(h) \/ Busy(h) THEN Damage(of[h])
       ELSE /\ attached' = [attached EXCEPT ![of[h]] = @ \ {h}]
            /\ open' = open \ {h} /\ closing' = closing \ {<<t, h>>}
            /\ UNCHANGED <<device, choices, driver, lost, live, devs, of, held, io>>

\* variant: the device stays on the bus
F_SPI_DEV_REMOVE_keeps(t, h) ==
    /\ Closes(t, h, "spi") /\ h \in devs
    /\ open' = open \ {h} /\ closing' = closing \ {<<t, h>>}
    /\ UNCHANGED <<device, choices, drivers, live, devs, of, held, io>>

F_I2C_DEV_REMOVE(t, h) == RemoveDevice(t, h, "i2c")
F_SPI_DEV_REMOVE(t, h) == RemoveDevice(t, h, "spi")

L_SPI_BUS_FREE(t, p) ==
    /\ kind[p] = "spi" /\ May(t, p \in open /\ OpenDevices(p) = {})
    /\ IF driver[p] = Free \/ HasDevices(p) THEN Abort("call")
       ELSE /\ driver' = [driver EXCEPT ![p] = Free] /\ open' = open \ {p}
            /\ UNCHANGED <<device, choices, attached, lost, live, devs, of, held, calls>>

-----------------------------------------------------------------------------
Collected(h, finalised) ==
    LET p == of[h] IN
    /\ Up /\ h \in live
    /\ care = "full" => h \notin open
    /\ live' = live \ {h} /\ devs' = devs \ {h}
    /\ held' = held \ {h} /\ open' = open \ {h}
    /\ driver' = IF driver[p] # h THEN driver
                 ELSE [driver EXCEPT ![p] = IF finalised THEN Free ELSE NoHandle]
    /\ attached' = [attached EXCEPT ![p] = @ \ {h}]
    /\ lost' = IF h \notin attached[p] THEN lost
               ELSE [lost EXCEPT ![p] = IF kind[p] = "i2c" THEN 1 ELSE @ + 1]
    /\ UNCHANGED <<device, choices, of, calls>>

\* variant: a handle is collected although a call is using it
Collect_used(h) == Collected(h, kind[of[h]] = "adc")

\* the collector takes a handle; only adc has a finaliser, what others have
\* stays installed
Collect(h) == ~Used(h) /\ Collected(h, kind[of[h]] = "adc")

Restart ==
    /\ ~Up /\ device' = "up"
    /\ driver' = Installed0 /\ attached' = NoDevice /\ lost' = NoneLost
    /\ live' = {} /\ devs' = {} /\ held' = {} /\ open' = {}
    /\ io' = {} /\ closing' = {}
    /\ UNCHANGED <<choices, of>>

Opens(t) ==
    \E p \in Peripherals :
        \/ L_SPI_BUS_INIT(t, p) \/ L_SPI_BUS_FREE(t, p)
        \/ \E h \in Handles :
            \/ L_UART_OPEN(t, p, h) \/ L_I2C_BUS_NEW(t, p, h) \/ L_CAN_START(t, p, h)
            \/ L_RMT_TX_NEW(t, p, h) \/ l_adc_channel(t, p, h)
            \/ l_dac_new(t, p, h) \/ l_pwm_new(t, p, h) \/ L_SPI_ADD_DEVICE(t, p, h)

Uses(t, h) ==
    \/ UART_IO(t, h) \/ F_CAN_TX(t, h) \/ F_CAN_RX(t, h) \/ F_SEND_RAW(t, h)
    \/ l_adc_read(t, h) \/ l_dac_write(t, h) \/ I2C_DEV_IO(t, h)
    \/ \E longer \in BOOLEAN : F_SPI_DEV_TXRX(t, h, longer)
    \/ \E d \in Handles : F_I2C_BUS_ADD_DEV(t, h, d)
    \/ TransferEnds(t, h) \/ TransferFails(t, h)

Ends(t, h) ==
    \/ BeginClose(t, h)
    \/ F_UART_CLOSE(t, h) \/ F_RMT_CLOSE(t, h)
    \/ l_adc_close(t, h) \/ l_dac_free(t, h) \/ F_CAN_STOP(t, h) \/ l_pwm_free(t, h)
    \/ F_I2C_BUS_CLOSE(t, h) \/ F_I2C_DEV_REMOVE(t, h) \/ F_SPI_DEV_REMOVE(t, h)

Next ==
    \/ \E t \in Threads : Opens(t) \/ \E h \in Handles : Uses(t, h) \/ Ends(t, h)
    \/ \E h \in Handles : Collect(h)
    \/ Restart

Spec == Init /\ [][Next]_vars

-----------------------------------------------------------------------------
\* Scripts that keep the rules of May never bring the device down, though two
\* threads share the peripherals: no call of theirs is refused and nothing they
\* use is gone.  A transfer that fails on the bus does.  (No example shows the
\* rules of chip selects and of one thread to an spi device, and the example of
\* com_spi.c breaks that of lengths.)
SafeWithCare == care = "full" => device \in {"up", "bus"}

\* The guards of close are worth something: as long as calls do not overlap, no
\* handle whose close tests a field damages the memory, in whatever order
\* scripts open, use, close, drop and open again.
GuardsHold == care = "serial" => device \notin Guarded

\* the field of a guarded handle (installed, ch, tx, unit, h)
HeldIsInstalled ==
    \A h \in live : kind[of[h]] \in Guarded =>
        /\ driver[of[h]] = h => h \in held
        /\ care # "none" /\ h \in held => driver[of[h]] = h

\* the record of a careful script
OpenIsInstalled ==
    care = "full" /\ Up => \A p \in Peripherals \ Console :
        /\ driver[p] = Free <=> OpenOn(p) = {}
        /\ attached[p] = OpenDevices(p) /\ lost[p] = 0

\* The field that close tests tells the truth: as long as calls do not overlap it
\* is set exactly while the driver is the handle's, and even when they do, a
\* driver's own handle can still close it.  And the record that a careful script
\* keeps, of what it opened and did not close, is the state of the drivers:
\* nothing else is installed or attached, so that nothing leaks and every port
\* can be opened again.
HandlesTellTruth == HeldIsInstalled /\ OpenIsInstalled
=============================================================================
