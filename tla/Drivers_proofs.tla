--------------------------- MODULE Drivers_proofs ---------------------------
(***************************************************************************)
(* Theorems about Drivers for every number of peripherals of every kind,   *)
(* of handles and of threads.                                              *)
(***************************************************************************)
EXTENDS Drivers, FiniteSetTheorems, TLAPS

(* Only buses have devices.                                                *)
DevsBare == \A h \in devs : kind[of[h]] \in Bare

(* A handle that is being closed is in no other call.                      *)
NoOverlap ==
    care # "none" => \A c \in closing :
        /\ \A d \in closing : c[2] = d[2] => c = d
        /\ \A d \in io : c[2] # d[2]

(* What is being closed has passed the test of its field.                  *)
ClosingHeld ==
    care # "none" => \A c \in closing : kind[of[c[2]]] \in Guarded => c[2] \in held

(* Calls of scripts that make one at a time.                               *)
OneCall == care = "serial" => \A c, d \in Calls : c = d

(* What a careful script has open is there, and nothing else is; what it   *)
(* is using it has open; and it closes no bus under devices.               *)
Record ==
    care = "full" =>
        /\ \A h \in open \cap Handles : Kept(h)
        /\ \A p \in open \cap Peripherals : driver[p] = NoHandle /\ kind[p] = "spi"
        /\ \A p \in Peripherals \ Console : driver[p] # Free =>
              \/ driver[p] = NoHandle /\ p \in open
              \/ /\ driver[p] \in (open \cap Handles) \ devs
                 /\ of[driver[p]] = p
        /\ \A p \in Peripherals : \A x \in attached[p] : x \in open \cap devs /\ of[x] = p
        /\ \A p \in Peripherals : lost[p] = 0
        /\ \A c \in io : c[2] \in open
        /\ \A c \in closing :
              c[2] \in open /\ (c[2] \notin devs => OpenDevices(of[c[2]]) = {})

Shape == DevsBare /\ NoOverlap /\ ClosingHeld /\ OneCall
Safe == SafeWithCare /\ GuardsHold
IInv == TypeOK /\ Shape /\ HeldIsInstalled /\ Record /\ Safe

LEMMA KindsDisjoint ==
    /\ Guarded \cap Global = {} /\ Guarded \cap Bare = {} /\ Global \cap Bare = {}
    /\ {"call", "bus"} \cap Kinds = {}
    /\ Guarded \cup Global \cup Bare = Kinds
  BY DEF Guarded, Global, Bare, Kinds

-----------------------------------------------------------------------------
(* What the actions have in common.                                        *)

LEMMA AbortKeeps ==
    ASSUME IInv, NEW reason \in {"call", "bus"} \cup Kinds, Abort(reason),
           care = "full" => reason = "bus",
           care = "serial" => reason \notin Guarded
    PROVE  IInv'
<1> USE DEF Abort, choices, drivers, handles, calls, IInv
<1>1. TypeOK'
  BY DEF TypeOK
<1>2. Shape'
  BY DEF Shape, DevsBare, NoOverlap, ClosingHeld, OneCall, Calls
<1>3. HeldIsInstalled'
  BY DEF HeldIsInstalled
<1>4. Record'
  BY DEF Record, Kept, OpenDevices
<1>5. Safe'
  BY DEF Safe, SafeWithCare, GuardsHold
<1> QED
  BY <1>1, <1>2, <1>3, <1>4, <1>5

LEMMA SafeKeeps == ASSUME IInv, UNCHANGED <<device, care>> PROVE Safe'
  BY DEF IInv, Safe, SafeWithCare, GuardsHold

(* A transfer begins.                                                      *)
LEMMA BeginKeeps ==
    ASSUME IInv, NEW t \in Threads, NEW h \in Handles, MayUse(t, h), Begin(t, h)
    PROVE  IInv'
<1> USE DEF Begin, choices, drivers, handles, IInv, MayUse, May
<1>1. TypeOK'
  BY DEF TypeOK
<1>2. Shape'
  BY DEF Shape, DevsBare, NoOverlap, ClosingHeld, OneCall, Calls, TypeOK, Cares
<1>3. HeldIsInstalled'
  BY DEF HeldIsInstalled
<1>4. Record'
  BY DEF Record, Kept, OpenDevices
<1>5. Safe'
  BY SafeKeeps
<1> QED
  BY <1>1, <1>2, <1>3, <1>4, <1>5

(* A transfer ends.                                                        *)
LEMMA EndKeeps ==
    ASSUME IInv, NEW t, NEW h, TransferEnds(t, h)
    PROVE  IInv'
<1> USE DriversAssumption DEF TransferEnds, choices, drivers, handles, IInv
<1>1. TypeOK'
  BY DEF TypeOK
<1>2. Shape'
  BY DEF Shape, DevsBare, NoOverlap, ClosingHeld, OneCall, Calls, TypeOK, Cares
<1>3. HeldIsInstalled'
  BY DEF HeldIsInstalled, TypeOK
<1>4. Record'
  BY DEF Record, Kept, OpenDevices, TypeOK
<1>5. Safe'
  BY SafeKeeps
<1> QED
  BY <1>1, <1>2, <1>3, <1>4, <1>5

(* A close has passed its test.                                            *)
LEMMA CloseKeeps ==
    ASSUME IInv, NEW t \in Threads, NEW h \in Handles, BeginClose(t, h)
    PROVE  IInv'
<1> USE DriversAssumption DEF BeginClose, choices, drivers, handles, MayClose, May, Used,
    IInv
<1>1. TypeOK'
  BY DEF TypeOK
<1>2. Shape'
  BY DEF Shape, DevsBare, NoOverlap, ClosingHeld, OneCall, Calls, TypeOK, Cares
<1>3. HeldIsInstalled'
  BY DEF HeldIsInstalled, TypeOK
<1>4. Record'
  BY DEF Record, Kept, OpenDevices, TypeOK, Calls
<1>5. Safe'
  BY SafeKeeps
<1> QED
  BY <1>1, <1>2, <1>3, <1>4, <1>5

(* A driver is installed where there was none.                             *)
LEMMA InstallKeeps ==
    ASSUME IInv, NEW p \in Peripherals, NEW h \in Handles, NEW k \in Kinds, kind[p] = k,
           driver[p] = Free, Make(h, p),
           driver' = [driver EXCEPT ![p] = h],
           held' = IF k \in Guarded THEN held \cup {h} ELSE held,
           UNCHANGED <<devs, attached, lost>>
    PROVE  IInv'
<1> USE DriversAssumption DEF Make, choices, calls, IInv
<1>1. TypeOK'
  BY DEF TypeOK
<1>2. Shape'
  BY DEF Shape, DevsBare, NoOverlap, ClosingHeld, OneCall, Calls, TypeOK, Cares
<1>3. HeldIsInstalled'
  BY DEF HeldIsInstalled, TypeOK
<1>4. Record'
  BY DEF Record, Kept, OpenDevices, TypeOK
<1>5. Safe'
  BY SafeKeeps
<1> QED
  BY <1>1, <1>2, <1>3, <1>4, <1>5

(* A device joins a bus that is not being closed.                          *)
LEMMA AttachKeeps ==
    ASSUME IInv, NEW p \in Peripherals, NEW h \in Handles, kind[p] \in Bare, Attach(p, h),
           care = "full" => \A c \in closing : of[c[2]] = p => c[2] \in devs
    PROVE  IInv'
<1> USE DriversAssumption DEF Attach, Make, choices, calls, IInv
<1>1. TypeOK'
  BY DEF TypeOK
<1>2. Shape'
  BY DEF Shape, DevsBare, NoOverlap, ClosingHeld, OneCall, Calls, TypeOK, Cares
<1>3. HeldIsInstalled'
  BY KindsDisjoint DEF HeldIsInstalled, TypeOK
<1>4. Record'
  BY DEF Record, Kept, OpenDevices, TypeOK
<1>5. Safe'
  BY SafeKeeps
<1> QED
  BY <1>1, <1>2, <1>3, <1>4, <1>5

(* A driver is deleted that was the handle's, or one without a field.      *)
LEMMA DeletedKeeps ==
    ASSUME IInv, NEW t, NEW h \in Handles, <<t, h>> \in closing,
           kind[of[h]] \notin Bare, Deleted(t, h),
           care = "full" \/ (care = "serial" /\ kind[of[h]] \in Guarded) => driver[of[h]] = h
    PROVE  IInv'
<1> USE DriversAssumption DEF Deleted, choices, IInv
<1>1. TypeOK'
  BY DEF TypeOK
<1>2. Shape'
  BY DEF Shape, DevsBare, NoOverlap, ClosingHeld, OneCall, Calls, TypeOK, Cares
<1>3. HeldIsInstalled'
  BY DEF HeldIsInstalled, TypeOK, Cares
<1>4. Record'
  BY DEF Record, Kept, OpenDevices, TypeOK, Shape, DevsBare, NoOverlap
<1>5. Safe'
  BY SafeKeeps
<1> QED
  BY <1>1, <1>2, <1>3, <1>4, <1>5

(* A channel is stopped.                                                   *)
LEMMA PwmFreeKeeps ==
    ASSUME IInv, NEW t \in Threads, NEW h \in Handles, l_pwm_free(t, h)
    PROVE  IInv'
<1> USE DriversAssumption DEF l_pwm_free, choices, calls, MayClose, May, Used, IInv
<1>1. TypeOK'
  BY DEF TypeOK
<1>2. Shape'
  BY DEF Shape, DevsBare, NoOverlap, ClosingHeld, OneCall, Calls, TypeOK, Cares
<1>3. HeldIsInstalled'
  BY DEF HeldIsInstalled, TypeOK, Guarded
<1>4. Record'
  BY DEF Record, Kept, OpenDevices, TypeOK, Calls, Shape, DevsBare, Bare
<1>5. Safe'
  BY SafeKeeps
<1> QED
  BY <1>1, <1>2, <1>3, <1>4, <1>5

(* A channel is taken over.                                                *)
LEMMA PwmNewKeeps ==
    ASSUME IInv, NEW t \in Threads, NEW p \in Peripherals, NEW h \in Handles, l_pwm_new(t, p, h)
    PROVE  IInv'
<1> USE DriversAssumption DEF l_pwm_new, Make, choices, calls, MayOpen, May, OpenOn, IInv
<1>1. TypeOK'
  BY DEF TypeOK
<1>2. Shape'
  BY DEF Shape, DevsBare, NoOverlap, ClosingHeld, OneCall, Calls, TypeOK, Cares
<1>3. HeldIsInstalled'
  BY DEF HeldIsInstalled, TypeOK, Guarded
<1>4. Record'
  BY DEF Record, Kept, OpenDevices, TypeOK
<1>5. Safe'
  BY SafeKeeps
<1> QED
  BY <1>1, <1>2, <1>3, <1>4, <1>5

(* An i2c bus goes.                                                        *)
LEMMA BusCloseKeeps ==
    ASSUME IInv, NEW t, NEW h \in Handles, F_I2C_BUS_CLOSE(t, h),
           Kept(h), Transfers(of[h]) = {}
    PROVE  IInv'
<1> USE DriversAssumption DEF F_I2C_BUS_CLOSE, HasDevices, drivers, choices, Closes, IInv
<1>1. TypeOK'
  BY DEF TypeOK
<1>2. Shape'
  BY DEF Shape, DevsBare, NoOverlap, ClosingHeld, OneCall, Calls, TypeOK, Cares
<1>3. HeldIsInstalled'
  BY DEF HeldIsInstalled, TypeOK, Guarded
<1>4. Record'
  BY DEF Record, Kept, OpenDevices, TypeOK, Shape, DevsBare, NoOverlap
<1>5. Safe'
  BY SafeKeeps
<1> QED
  BY <1>1, <1>2, <1>3, <1>4, <1>5

(* A device leaves its bus.                                                *)
LEMMA RemoveKeeps ==
    ASSUME IInv, NEW t, NEW h \in Handles, NEW k \in Bare, RemoveDevice(t, h, k),
           Kept(h), \A c \in io : c[2] # h
    PROVE  IInv'
<1> USE DriversAssumption DEF RemoveDevice, Busy, choices, Closes, IInv
<1>1. TypeOK'
  BY DEF TypeOK
<1>2. Shape'
  BY DEF Shape, DevsBare, NoOverlap, ClosingHeld, OneCall, Calls, TypeOK, Cares
<1>3. HeldIsInstalled'
  BY DEF HeldIsInstalled, TypeOK
<1>4. Record'
  BY DEF Record, Kept, OpenDevices, TypeOK, Shape, DevsBare, NoOverlap
<1>5. Safe'
  BY SafeKeeps
<1> QED
  BY <1>1, <1>2, <1>3, <1>4, <1>5

(* An spi host is opened.                                                  *)
LEMMA HostKeeps ==
    ASSUME IInv, NEW t \in Threads, NEW p \in Peripherals, L_SPI_BUS_INIT(t, p), driver[p] = Free
    PROVE  IInv'
<1> USE DriversAssumption DEF L_SPI_BUS_INIT, choices, calls, MayOpen, May, IInv
<1>1. TypeOK'
  BY DEF TypeOK
<1>2. Shape'
  BY DEF Shape, DevsBare, NoOverlap, ClosingHeld, OneCall, Calls, TypeOK, Cares
<1>3. HeldIsInstalled'
  BY DEF HeldIsInstalled, TypeOK, Guarded
<1>4. Record'
  BY DEF Record, Kept, OpenDevices, TypeOK
<1>5. Safe'
  BY SafeKeeps
<1> QED
  BY <1>1, <1>2, <1>3, <1>4, <1>5

(* An spi host is freed.                                                   *)
LEMMA HostFreeKeeps ==
    ASSUME IInv, NEW t \in Threads, NEW p \in Peripherals, L_SPI_BUS_FREE(t, p),
           driver[p] # Free, ~HasDevices(p)
    PROVE  IInv'
<1> USE DriversAssumption DEF L_SPI_BUS_FREE, HasDevices, choices, calls, May, IInv
<1>1. TypeOK'
  BY DEF TypeOK
<1>2. Shape'
  BY DEF Shape, DevsBare, NoOverlap, ClosingHeld, OneCall, Calls, TypeOK, Cares
<1>3. HeldIsInstalled'
  BY DEF HeldIsInstalled, TypeOK, Guarded
<1>4. Record'
  BY DEF Record, Kept, OpenDevices, TypeOK
<1>5. Safe'
  BY SafeKeeps
<1> QED
  BY <1>1, <1>2, <1>3, <1>4, <1>5

(* A handle is collected.                                                  *)
LEMMA CollectKeeps ==
    ASSUME IInv, NEW h \in Handles, Collect(h)
    PROVE  IInv'
<1> USE DriversAssumption DEF Collect, Collected, choices, calls, Used, IInv
<1>1. TypeOK'
  <2>1. driver' \in [Peripherals -> Handles \cup {Free, NoHandle}]
    BY DEF TypeOK
  <2>2. attached' \in [Peripherals -> SUBSET Handles]
    BY DEF TypeOK
  <2>3. io' \subseteq Threads \X live' /\ closing' \subseteq Threads \X live'
    BY DEF TypeOK, Calls
  <2> QED
    BY <2>1, <2>2, <2>3 DEF TypeOK
<1>2. Shape'
  BY DEF Shape, DevsBare, NoOverlap, ClosingHeld, OneCall, Calls, TypeOK, Cares
<1>3. HeldIsInstalled'
  BY DEF HeldIsInstalled, TypeOK
<1>4. Record'
  BY DEF Record, Kept, OpenDevices, TypeOK
<1>5. Safe'
  BY SafeKeeps
<1> QED
  BY <1>1, <1>2, <1>3, <1>4, <1>5

(* The device starts again.                                                *)
LEMMA RestartKeeps ==
    ASSUME IInv, Restart
    PROVE  IInv'
<1> USE DriversAssumption DEF Restart, choices, Installed0, NoDevice, NoneLost, IInv
<1>1. TypeOK'
  BY DEF TypeOK
<1>2. Shape'
  BY DEF Shape, DevsBare, NoOverlap, ClosingHeld, OneCall, Calls, TypeOK, Cares
<1>3. HeldIsInstalled'
  BY DEF HeldIsInstalled, TypeOK
<1>4. Record'
  BY DEF Record, Kept, OpenDevices, TypeOK
<1>5. Safe'
  BY DEF Safe, SafeWithCare, GuardsHold, Guarded
<1> QED
  BY <1>1, <1>2, <1>3, <1>4, <1>5

-----------------------------------------------------------------------------
(* The actions.                                                            *)

(* A careful script is never refused a driver: what is installed it has.   *)
LEMMA OpenSafe ==
    ASSUME IInv, NEW t \in Threads, NEW p \in Peripherals, MayOpen(t, p), care = "full"
    PROVE  driver[p] = Free
  BY DriversAssumption DEF IInv, Record, MayOpen, May, OpenOn, TypeOK

LEMMA OpenKeeps ==
    ASSUME IInv, NEW t \in Threads, NEW p \in Peripherals, NEW h \in Handles,
           NEW k \in Kinds, Open(t, p, h, k)
    PROVE  IInv'
<1>1. CASE driver[p] # Free
  <2>1. Abort("call") /\ care # "full"
    BY <1>1, OpenSafe DEF Open
  <2> QED
    BY <2>1, AbortKeeps, KindsDisjoint
<1>2. CASE driver[p] = Free
  BY <1>2, InstallKeeps DEF Open
<1> QED
  BY <1>1, <1>2

(* What a careful script uses exists.                                      *)
LEMMA UsedKept ==
    ASSUME IInv, NEW t \in Threads, NEW h \in Handles, MayUse(t, h), care = "full"
    PROVE  Kept(h)
  BY DEF IInv, Record, MayUse, May

LEMMA UsesKeep ==
    ASSUME IInv, NEW t \in Threads, NEW h \in Handles, Uses(t, h)
    PROVE  IInv'
<1> USE DEF IInv
<1>1. CASE UART_IO(t, h)
  BY <1>1, BeginKeeps DEF UART_IO
<1>2. CASE F_CAN_TX(t, h)
  <2>1. care = "full" => driver[of[h]] # Free
    BY <1>2, UsedKept, DriversAssumption DEF F_CAN_TX, Kept, Shape, DevsBare, Bare, TypeOK
  <2> QED
    BY <1>2, <2>1, BeginKeeps, AbortKeeps, KindsDisjoint DEF F_CAN_TX
<1>3. CASE F_CAN_RX(t, h)
  BY <1>3, BeginKeeps DEF F_CAN_RX
<1>4. ASSUME NEW k \in Guarded, CheckedIo(t, h, k) PROVE IInv'
  <2>1. care = "full" => h \in held
    BY <1>4, UsedKept, KindsDisjoint
       DEF CheckedIo, MayUse, Kept, Shape, DevsBare, HeldIsInstalled
  <2> QED
    BY <1>4, <2>1, BeginKeeps, AbortKeeps, KindsDisjoint DEF CheckedIo
<1>5. ASSUME I2C_DEV_IO(t, h) \/ \E longer \in BOOLEAN : F_SPI_DEV_TXRX(t, h, longer)
      PROVE  IInv'
  <2>1. MayUse(t, h) /\ kind[of[h]] \in Bare /\ of[h] \in Peripherals
    BY <1>5 DEF I2C_DEV_IO, F_SPI_DEV_TXRX, Bare, TypeOK
  <2>2. CASE Begin(t, h)
    BY <2>1, <2>2, BeginKeeps
  <2>3. CASE ~Kept(h) /\ Damage(of[h])
    BY <2>1, <2>3, UsedKept, AbortKeeps, KindsDisjoint DEF Damage
  <2>4. CASE Abort("call") /\ \E longer \in BOOLEAN :
                  May(t, ~longer /\ ~Busy(h)) /\ (longer \/ Busy(h))
    BY <2>4, AbortKeeps, KindsDisjoint DEF May
  <2> QED
    BY <1>5, <2>2, <2>3, <2>4 DEF I2C_DEV_IO, F_SPI_DEV_TXRX
<1>6. ASSUME NEW d \in Handles, F_I2C_BUS_ADD_DEV(t, h, d) PROVE IInv'
  <2>1. kind[of[h]] \in Bare /\ h \notin devs /\ MayUse(t, h) /\ of[h] \in Peripherals
    BY <1>6 DEF F_I2C_BUS_ADD_DEV, Bare, TypeOK
  <2>2. CASE ~Kept(h)
    BY <1>6, <2>1, <2>2, UsedKept, AbortKeeps, KindsDisjoint DEF F_I2C_BUS_ADD_DEV, Damage
  <2>3. CASE Kept(h)
    <3>1. care = "full" => \A c \in closing : of[c[2]] = of[h] => c[2] \in devs
      BY <2>1, <2>3, UsedKept DEF Record, Kept, MayUse, May, TypeOK
    <3> QED
      BY <1>6, <2>1, <2>3, <3>1, AttachKeeps DEF F_I2C_BUS_ADD_DEV
  <2> QED
    BY <2>2, <2>3
<1>7. CASE TransferEnds(t, h)
  BY <1>7, EndKeeps
<1>8. CASE TransferFails(t, h)
  BY <1>8, AbortKeeps, KindsDisjoint DEF TransferFails
<1>9. {"rmt", "adc", "dac"} \subseteq Guarded
  BY DEF Guarded
<1> QED
  BY <1>1, <1>2, <1>3, <1>4, <1>5, <1>6, <1>7, <1>8, <1>9
     DEF Uses, F_SEND_RAW, l_adc_read, l_dac_write

(* A careful script knows whether a chip select is left.                   *)
LEMMA RoomLeft ==
    ASSUME IInv, NEW p \in Peripherals, care = "full",
           Cardinality(OpenDevices(p)) < ChipSelects
    PROVE  HasRoom(p)
<1>1. attached[p] = OpenDevices(p) /\ lost[p] = 0
  BY DEF IInv, Record, Kept, OpenDevices, TypeOK
<1>2. IsFiniteSet(attached[p])
  BY DriversAssumption, FS_Subset DEF IInv, TypeOK
<1>3. Cardinality(attached[p]) \in Nat
  BY <1>2, FS_CardinalityType
<1> QED
  BY <1>1, <1>3, DriversAssumption DEF HasRoom

LEMMA OpensKeep ==
    ASSUME IInv, NEW t \in Threads, Opens(t)
    PROVE  IInv'
<1> USE DEF IInv
<1>1. PICK p \in Peripherals :
        \/ L_SPI_BUS_INIT(t, p) \/ L_SPI_BUS_FREE(t, p)
        \/ \E h \in Handles :
            \/ \E k \in Kinds : Open(t, p, h, k)
            \/ l_pwm_new(t, p, h) \/ L_SPI_ADD_DEVICE(t, p, h)
  BY DEF Opens, L_UART_OPEN, L_I2C_BUS_NEW, L_CAN_START, L_RMT_TX_NEW,
         l_adc_channel, l_dac_new, Kinds, Guarded, Global, Bare
<1>2. CASE L_SPI_BUS_INIT(t, p)
  <2>1. care = "full" => driver[p] = Free
    BY <1>2, OpenSafe DEF L_SPI_BUS_INIT
  <2> QED
    BY <1>2, <2>1, HostKeeps, AbortKeeps, KindsDisjoint DEF L_SPI_BUS_INIT
<1>3. CASE L_SPI_BUS_FREE(t, p)
  <2>1. care = "full" => driver[p] # Free /\ ~HasDevices(p)
    BY <1>3, DriversAssumption
       DEF L_SPI_BUS_FREE, May, Record, OpenDevices, HasDevices, TypeOK
  <2> QED
    BY <1>3, <2>1, HostFreeKeeps, AbortKeeps, KindsDisjoint DEF L_SPI_BUS_FREE
<1>4. ASSUME NEW h \in Handles, L_SPI_ADD_DEVICE(t, p, h) PROVE IInv'
  <2>1. care = "full" => driver[p] = NoHandle
    BY <1>4 DEF L_SPI_ADD_DEVICE, May, Record
  <2>2. care = "full" => \A c \in closing : of[c[2]] = p => c[2] \in devs
    BY <2>1, DriversAssumption DEF Record, Kept, TypeOK
  <2>3. kind[p] \in Bare
    BY <1>4 DEF L_SPI_ADD_DEVICE, Bare
  <2>4. care = "full" => HasRoom(p)
    BY <1>4, RoomLeft DEF L_SPI_ADD_DEVICE, May
  <2> QED
    BY <1>4, <2>1, <2>2, <2>3, <2>4, AttachKeeps, AbortKeeps, KindsDisjoint,
       DriversAssumption DEF L_SPI_ADD_DEVICE
<1> QED
  BY <1>1, <1>2, <1>3, <1>4, OpenKeeps, PwmNewKeeps

(* What is deleted is there: nobody else closed it, and nothing is using it. *)
LEMMA ClosedKept ==
    ASSUME IInv, NEW t, NEW h \in Handles, <<t, h>> \in closing, kind[of[h]] \notin Bare,
           care = "full" \/ (care = "serial" /\ kind[of[h]] \in Guarded)
    PROVE  Kept(h) /\ driver[of[h]] = h
  BY KindsDisjoint
  DEF IInv, Record, Shape, ClosingHeld, DevsBare, HeldIsInstalled, Kept, TypeOK

LEMMA ClosedUnused ==
    ASSUME IInv, NEW t, NEW h \in Handles, <<t, h>> \in closing, care # "none",
           care = "full" => Kept(h) /\ h \notin devs
    PROVE  Transfers(of[h]) = {}
<1> SUFFICES ASSUME NEW c \in io, of[c[2]] = of[h] PROVE FALSE
  BY DEF Transfers
<1> USE DEF IInv
<1>1. c[2] # h
  BY DEF Shape, NoOverlap
<1>2. CASE care = "serial"
  BY <1>1, <1>2 DEF Shape, OneCall, Calls
<1>3. CASE care = "full"
  <2>1. c[2] \in open \cap Handles /\ Kept(c[2])
    BY <1>3 DEF Record, TypeOK
  <2>2. CASE c[2] \in devs
    BY <1>3, <2>1, <2>2 DEF Record, OpenDevices, TypeOK
  <2>3. CASE c[2] \notin devs
    BY <1>1, <1>3, <2>1, <2>3 DEF Kept
  <2> QED
    BY <2>2, <2>3
<1> QED
  BY <1>2, <1>3 DEF TypeOK, Cares

LEMMA DamageKeeps ==
    ASSUME IInv, NEW p \in Peripherals, Damage(p),
           care # "full", care = "serial" => kind[p] \in Bare
    PROVE  IInv'
  BY AbortKeeps, KindsDisjoint DEF Damage, IInv, TypeOK

LEMMA EndsKeep ==
    ASSUME IInv, NEW t \in Threads, NEW h \in Handles, Ends(t, h)
    PROVE  IInv'
<1> USE DEF IInv
<1>p. of[h] \in Peripherals
  BY DEF TypeOK
<1>1. CASE BeginClose(t, h)
  BY <1>1, CloseKeeps
<1>2. CASE l_pwm_free(t, h)
  BY <1>2, PwmFreeKeeps
<1>3. ASSUME NEW k \in Kinds \ Bare, Closes(t, h, k),
             \/ IF Transfers(of[h]) # {} THEN Damage(of[h]) ELSE Deleted(t, h)
             \/ /\ k \in Guarded
                /\ IF ~Kept(h) \/ Transfers(of[h]) # {} THEN Damage(of[h]) ELSE Deleted(t, h)
      PROVE  IInv'
  <2>1. <<t, h>> \in closing /\ kind[of[h]] = k /\ h \notin devs
    BY <1>3 DEF Closes, Shape, DevsBare
  <2>2. care = "full" \/ (care = "serial" /\ k \in Guarded) => Kept(h) /\ driver[of[h]] = h
    BY <2>1, <1>3, ClosedKept
  <2>3. care # "none" => Transfers(of[h]) = {}
    BY <2>1, <2>2, ClosedUnused
  <2>4. CASE Deleted(t, h)
    BY <2>1, <2>2, <2>4, <1>3, DeletedKeeps
  <2>5. CASE ~Deleted(t, h)
    <3>1. Damage(of[h]) /\ care = "none"
      BY <1>3, <2>2, <2>3, <2>5 DEF TypeOK, Cares
    <3> QED
      BY <3>1, <1>p, DamageKeeps
  <2> QED
    BY <2>4, <2>5
<1>4. CASE F_I2C_BUS_CLOSE(t, h)
  <2>1. <<t, h>> \in closing /\ kind[of[h]] \in Bare /\ h \notin devs
    BY <1>4 DEF F_I2C_BUS_CLOSE, Closes, Bare
  <2>2. care = "full" => Kept(h)
    BY <2>1 DEF Record
  <2>3. care = "full" => Transfers(of[h]) = {}
    BY <2>1, <2>2, ClosedUnused
  <2> QED
    BY <1>4, <1>p, <2>1, <2>2, <2>3, BusCloseKeeps, DamageKeeps DEF F_I2C_BUS_CLOSE
<1>5. ASSUME NEW k \in Bare, RemoveDevice(t, h, k) PROVE IInv'
  <2>1. <<t, h>> \in closing /\ kind[of[h]] = k /\ h \in devs
    BY <1>5 DEF RemoveDevice, Closes
  <2>2. care = "full" => Kept(h) /\ \A c \in io : c[2] # h
    BY <2>1 DEF Record, Shape, NoOverlap
  <2> QED
    BY <1>5, <1>p, <2>1, <2>2, RemoveKeeps, DamageKeeps DEF RemoveDevice, Busy
<1>6. /\ {"uart", "rmt", "adc", "dac", "can"} \subseteq Kinds \ Bare
      /\ {"rmt", "adc", "dac"} \subseteq Guarded /\ {"i2c", "spi"} \subseteq Bare
  BY DEF Kinds, Guarded, Global, Bare
<1>7. CASE F_UART_CLOSE(t, h)
  BY <1>3, <1>6, <1>7 DEF F_UART_CLOSE
<1>8. CASE F_CAN_STOP(t, h)
  BY <1>3, <1>6, <1>8 DEF F_CAN_STOP
<1>9. ASSUME NEW k \in Guarded \ Bare, DeleteObject(t, h, k) PROVE IInv'
  BY <1>3, <1>9, KindsDisjoint DEF DeleteObject
<1> QED
  BY <1>1, <1>2, <1>4, <1>5, <1>6, <1>7, <1>8, <1>9
     DEF Ends, F_RMT_CLOSE, l_adc_close, l_dac_free,
         F_I2C_DEV_REMOVE, F_SPI_DEV_REMOVE

-----------------------------------------------------------------------------
(* The inductive invariant.                                                *)

LEMMA InitIInv == Init => IInv
  BY DriversAssumption
  DEF Init, IInv, Installed0, NoDevice, NoneLost, TypeOK, Shape, DevsBare, NoOverlap, ClosingHeld, OneCall,
      Calls,
      HeldIsInstalled, Record, Kept, OpenDevices, Safe, SafeWithCare, GuardsHold,
      Guarded

LEMMA StutterIInv == ASSUME IInv, UNCHANGED vars PROVE IInv'
<1> USE DEF vars, choices, drivers, handles, calls, IInv
<1>1. TypeOK'
  BY DEF TypeOK
<1>2. Shape'
  BY DEF Shape, DevsBare, NoOverlap, ClosingHeld, OneCall, Calls
<1>3. HeldIsInstalled'
  BY DEF HeldIsInstalled
<1>4. Record'
  BY DEF Record, Kept, OpenDevices
<1> QED
  BY <1>1, <1>2, <1>3, <1>4, SafeKeeps

LEMMA NextIInv == IInv /\ [Next]_vars => IInv'
  BY OpensKeep, UsesKeep, EndsKeep, CollectKeeps, RestartKeeps, StutterIInv DEF Next

(* Every invariant of this module follows from this one.                   *)
THEOREM Inductive == Spec => []IInv
  BY InitIInv, NextIInv, PTL DEF Spec

(* The variables keep their types.                                         *)
THEOREM TypeCorrect == Spec => []TypeOK
  BY Inductive, PTL DEF IInv

(* Careful scripts, which receive no more than they send, bring the device *)
(* down with nothing but a transfer that fails on the bus.                 *)
THEOREM CarefulScriptsAreSafe == Spec => []SafeWithCare
  BY Inductive, PTL DEF IInv, Safe

(* As long as calls do not overlap, no handle whose close tests a field    *)
(* damages the memory.                                                     *)
THEOREM GuardsSuffice == Spec => []GuardsHold
  BY Inductive, PTL DEF IInv, Safe

(* The field and a careful script's record tell what is installed.         *)
THEOREM HandlesAreTrue == Spec => []HandlesTellTruth
<1>1. IInv => OpenIsInstalled
  <2> SUFFICES ASSUME IInv, care = "full", NEW p \in Peripherals \ Console
               PROVE  /\ driver[p] = Free <=> OpenOn(p) = {}
                      /\ attached[p] = OpenDevices(p) /\ lost[p] = 0
    BY DEF OpenIsInstalled
  <2> USE DriversAssumption DEF IInv, Record, Kept, TypeOK
  <2>1. driver[p] = Free => OpenOn(p) = {}
    BY DEF OpenOn
  <2>2. driver[p] # Free => OpenOn(p) # {}
    BY DEF OpenOn
  <2>3. attached[p] = OpenDevices(p) /\ lost[p] = 0
    BY DEF OpenDevices
  <2> QED
    BY <2>1, <2>2, <2>3
<1>2. IInv => HandlesTellTruth
  BY <1>1 DEF IInv, HandlesTellTruth
<1> QED
  BY <1>2, Inductive, PTL
=============================================================================
