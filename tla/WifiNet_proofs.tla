--------------------------- MODULE WifiNet_proofs ---------------------------
(***************************************************************************)
(* Theorems about WifiNet for every bound on the waiting events.           *)
(***************************************************************************)
EXTENDS WifiNet, TLAPS

(* A station that scripts want can connect, if it is told to.              *)
WantedCould == wanted => driver = "started" /\ StaMode

(* A station's mode comes with its interface, until a stop takes it.       *)
ModeHasNetif == StaMode => sta_netif \/ at \in {"stopAll", "deinit"}

(* What a call has done by the time it is at a step.                       *)
StepsInOrder ==
    /\ at = "init" => ~wifi_init
    /\ at = "flag" => driver # "off"
    /\ at \in {"create", "setMode", "start", "disconnect", "stop", "destroySta",
               "destroyStaOfAp", "stopAll", "deinit"} => wifi_init
    /\ at = "setMode" => asked \in Modes /\ (asked # "AP" => sta_netif)
    /\ at = "deinit" => link = "down" /\ driver = "stopped"
    /\ at \in {"destroyAll", "clear"} => driver = "off" /\ ~StaMode
    /\ at = "clear" => ~sta_netif /\ ~ap_netif

(* Nothing is wanted before the device is up.                              *)
OffIsReset == device = "off" => ~wanted

IInv ==
    /\ TypeOK /\ FollowsDriver /\ NeverStranded
    /\ WantedCould /\ ModeHasNetif /\ StepsInOrder /\ OffIsReset

(* The state of a device that starts, or has just started.                 *)
IsReset ==
    /\ device \in {"off", "up"}
    /\ event_loop = FALSE /\ g_net_inited = FALSE
    /\ wifi_init = FALSE /\ sta_netif = FALSE /\ ap_netif = FALSE
    /\ driver = "off" /\ mode = "NULL" /\ link = "down"
    /\ events = 0 /\ wanted = FALSE
    /\ at = "idle" /\ asked = "STA"

LEMMA ResetIInv == IsReset => IInv
<1> SUFFICES ASSUME IsReset PROVE IInv
  OBVIOUS
<1> USE DEF IsReset
<1>1. events \in 0..MaxEvents
  BY WifiAssumption
<1>2. at \in Steps /\ asked \in Modes
  BY DEF Steps, Modes
<1>3. TypeOK
  BY <1>1, <1>2, Zenon DEF TypeOK
<1>4. ~StaMode
  BY DEF StaMode
<1>5. FollowsDriver /\ NeverStranded /\ WantedCould /\ ModeHasNetif /\ StepsInOrder /\ OffIsReset
  BY <1>4 DEF FollowsDriver, NeverStranded, WantedCould, ModeHasNetif, StepsInOrder, OffIsReset
<1> QED
  BY <1>3, <1>5 DEF IInv

LEMMA InitIInv == Init => IInv
  BY ResetIInv DEF Init, IsReset

LEMMA RebootIInv == Reboot => IInv'
<1>1. IsReset' => IInv'
  BY ResetIInv, PTL
<1> QED
  BY <1>1 DEF Reboot, Reset, IsReset

-----------------------------------------------------------------------------
LEMMA Posted ==
    ASSUME events \in 0..MaxEvents, NEW n \in {0, 1}, Post(n)
    PROVE  events' \in 0..MaxEvents /\ (events > 0 \/ n = 1 => events' > 0)
  BY WifiAssumption DEF Post

LEMMA PostedDropped ==
    ASSUME TypeOK, Post(Dropped)
    PROVE  events' \in 0..MaxEvents /\ (events > 0 \/ link # "down" => events' > 0)
<1>1. Dropped \in {0, 1} /\ (link # "down" => Dropped = 1)
  BY DEF Dropped
<1> QED
  BY <1>1, Posted DEF TypeOK

(* The driver and its events, between the calls and during them.           *)
LEMMA EventStep ==
    ASSUME IInv, ConnectSucceeds \/ LinkLost \/ HandleDisconnected \/ WifiInitCore
    PROVE  IInv'
<1> USE DEF IInv, TypeOK, netifs, driverState, flags, call, Up, FollowsDriver, NeverStranded,
            WantedCould, ModeHasNetif, StepsInOrder, OffIsReset, StaMode
<1>1. CASE ConnectSucceeds
  BY <1>1 DEF ConnectSucceeds
<1>2. CASE LinkLost
  <2>1. events' \in 0..MaxEvents /\ events' > 0
    BY <1>2, Posted DEF LinkLost
  <2> QED
    BY <1>2, <2>1 DEF LinkLost
<1>3. CASE HandleDisconnected
  <2>1. events' \in 0..MaxEvents
    BY <1>3, WifiAssumption DEF HandleDisconnected
  <2>2. link' \in {link, "connecting"} /\ (link' # link => driver = "started" /\ StaMode)
    BY <1>3 DEF HandleDisconnected, ConnectOk
  <2>3. TypeOK'
    BY <1>3, <2>1, <2>2 DEF HandleDisconnected
  <2>4. NeverStranded'
    BY <1>3 DEF HandleDisconnected, ConnectOk
  <2>5. FollowsDriver'
    BY <1>3, <2>2 DEF HandleDisconnected
  <2>6. WantedCould' /\ ModeHasNetif' /\ StepsInOrder' /\ OffIsReset'
    BY <1>3, <2>2 DEF HandleDisconnected
  <2> QED
    BY <2>3, <2>4, <2>5, <2>6
<1>4. CASE WifiInitCore
  BY <1>4 DEF WifiInitCore
<1> QED
  BY <1>1, <1>2, <1>3, <1>4

(* A call begins, or fails or ends at once.                                *)
LEMMA BeginStep ==
    ASSUME IInv,
           \/ \E m \in Modes \cup {"invalid"} : L_WIFI_MODE(m)
           \/ L_WIFI_STA_START \/ L_WIFI_STA_STOP \/ L_WIFI_AP_START \/ L_WIFI_AP_STOP
           \/ L_NET_INIT
    PROVE  IInv'
<1> USE DEF IInv, TypeOK, Steps, netifs, driverState, flags, call, Rest, Begin, Up, Abort,
            FollowsDriver, NeverStranded, WantedCould, ModeHasNetif, StepsInOrder, OffIsReset,
            StaMode
<1>1. ASSUME NEW m \in Modes \cup {"invalid"}, L_WIFI_MODE(m) PROVE IInv'
  BY <1>1 DEF L_WIFI_MODE
<1>2. CASE L_WIFI_STA_START
  BY <1>2 DEF L_WIFI_STA_START
<1>3. CASE L_WIFI_STA_STOP
  BY <1>3 DEF L_WIFI_STA_STOP
<1>4. CASE L_WIFI_AP_STOP
  BY <1>4 DEF L_WIFI_AP_STOP
<1>5. CASE L_WIFI_AP_START
  BY <1>5 DEF L_WIFI_AP_START
<1>6. CASE L_NET_INIT
  BY <1>6 DEF L_NET_INIT
<1> QED
  BY <1>1, <1>2, <1>3, <1>4, <1>5, <1>6

(* wifi.mode.  It leaves a station that is not taken out of its mode alone. *)
LEMMA ModeStep ==
    ASSUME IInv, InitDriver \/ SetFlag \/ CreateNetifs \/ SetMode \/ StartDriver
    PROVE  IInv'
<1> USE DEF IInv, TypeOK, Steps, Modes, netifs, driverState, flags, Step, Up, FollowsDriver,
            NeverStranded, WantedCould, ModeHasNetif, StepsInOrder, OffIsReset, StaMode
<1>1. CASE InitDriver
  BY <1>1 DEF InitDriver
<1>2. CASE SetFlag
  BY <1>2 DEF SetFlag
<1>3. CASE CreateNetifs
  BY <1>3 DEF CreateNetifs
<1>4. CASE SetMode
  <2>1. events' \in 0..MaxEvents
    BY <1>4, PostedDropped DEF SetMode
  <2> QED
    BY <1>4, <2>1 DEF SetMode
<1>5. CASE StartDriver
  BY <1>5 DEF StartDriver
<1> QED
  BY <1>1, <1>2, <1>3, <1>4, <1>5

(* sta.start, and a stop at level 0.                                       *)
LEMMA StaStep ==
    ASSUME IInv, SetStaConfig \/ Connect \/ Disconnect \/ StopDriver
    PROVE  IInv'
<1> USE DEF IInv, TypeOK, Steps, netifs, driverState, flags, Step, Up, Abort, FollowsDriver,
            NeverStranded, WantedCould, ModeHasNetif, StepsInOrder, OffIsReset, StaMode
<1>1. CASE SetStaConfig
  BY <1>1 DEF SetStaConfig
<1>2. CASE Connect
  BY <1>2 DEF Connect, ConnectOk
<1>3. CASE Disconnect
  <2>1. events' \in 0..MaxEvents
    BY <1>3, PostedDropped DEF Disconnect
  <2> QED
    BY <1>3, <2>1 DEF Disconnect
<1>4. CASE StopDriver
  <2>1. events' \in 0..MaxEvents
    BY <1>4, PostedDropped DEF StopDriver, DriverStops
  <2> QED
    BY <1>4, <2>1 DEF StopDriver, DriverStops
<1> QED
  BY <1>1, <1>2, <1>3, <1>4

(* A stop at level 1: interface, driver, interfaces, flag.                 *)
LEMMA DeinitStep ==
    ASSUME IInv, DestroySta \/ StopAll \/ Deinit \/ DestroyAll \/ ClearFlag
    PROVE  IInv'
<1> USE DEF IInv, TypeOK, Steps, netifs, driverState, flags, Step, Up, FollowsDriver,
            NeverStranded, WantedCould, ModeHasNetif, StepsInOrder, OffIsReset, StaMode
<1>1. CASE DestroySta
  BY <1>1 DEF DestroySta
<1>2. CASE StopAll
  <2>1. events' \in 0..MaxEvents
    BY <1>2, PostedDropped DEF StopAll, DriverStops
  <2>2. TypeOK'
    BY <1>2, <2>1 DEF StopAll, DriverStops
  <2>3. FollowsDriver' /\ NeverStranded'
    BY <1>2 DEF StopAll, DriverStops
  <2>4. WantedCould' /\ ModeHasNetif' /\ StepsInOrder' /\ OffIsReset'
    BY <1>2 DEF StopAll, DriverStops
  <2> QED
    BY <2>2, <2>3, <2>4
<1>3. CASE Deinit
  BY <1>3 DEF Deinit
<1>4. CASE DestroyAll
  BY <1>4 DEF DestroyAll
<1>5. CASE ClearFlag
  BY <1>5 DEF ClearFlag
<1> QED
  BY <1>1, <1>2, <1>3, <1>4, <1>5

LEMMA NextIInv == IInv /\ [Next]_vars => IInv'
<1> SUFFICES ASSUME IInv, [Next]_vars PROVE IInv'
  OBVIOUS
<1>1. CASE UNCHANGED vars
  BY <1>1 DEF vars, netifs, driverState, flags, call, IInv, TypeOK, FollowsDriver,
              NeverStranded, WantedCould, ModeHasNetif, StepsInOrder, OffIsReset, StaMode, Up
<1>2. CASE Reboot
  BY <1>2, RebootIInv
<1> QED
  BY <1>1, <1>2, EventStep, BeginStep, ModeStep, StaStep, DeinitStep, Zenon DEF Next

-----------------------------------------------------------------------------
(* Every invariant of this module follows from this one.                   *)
THEOREM Inductive == Spec => []IInv
  BY InitIInv, NextIInv, PTL DEF Spec

(* The variables keep their types.                                         *)
THEOREM TypeCorrect == Spec => []TypeOK
  BY Inductive, PTL DEF IInv

(* wifi_init, the pointers of the interfaces and the driver agree, but for *)
(* the steps of a call that FollowsDriver names.                           *)
THEOREM FlagsAreTrue == Spec => []FollowsDriver
  BY Inductive, PTL DEF IInv

(* Auto-reconnect gives up on no station that scripts want.                *)
THEOREM Reconnects == Spec => []NeverStranded
  BY Inductive, PTL DEF IInv
=============================================================================
