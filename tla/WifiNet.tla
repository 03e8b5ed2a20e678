------------------------------ MODULE WifiNet ------------------------------
(***************************************************************************)
(* The Wi-Fi and net libraries (components/NET/net_wifi.c and net_net.c):  *)
(* the calls of a script, the event task that runs wifi_event_handler, and *)
(* the ESP-IDF driver under them, modelled by the answers these two files  *)
(* depend on.  A call is a sequence of steps, one for each call it makes   *)
(* of the driver, with the driver and the event task running between them; *)
(* scripts make one call at a time.  A driver call under ESP_ERROR_CHECK   *)
(* that fails aborts the device; an aborted device starts again.           *)
(***************************************************************************)
EXTENDS Integers

CONSTANT MaxEvents  \* bound on the events waiting for the event task

ASSUME WifiAssumption == MaxEvents \in Nat \ {0}

Modes == {"STA", "AP", "APSTA"}

\* what a call does next: nothing, the steps of wifi.mode, of sta.start, of a
\* stop at level 0, and of a stop at level 1
Steps == {"idle", "init", "flag", "create", "setMode", "start", "setConfig", "connect",
          "disconnect", "stop",
          "destroySta", "destroyStaOfAp", "stopAll", "deinit", "destroyAll", "clear"}

VARIABLES
    device,        \* "off" (starting), "up" or "abort"
    event_loop,    \* whether the default event loop exists
    g_net_inited,  \* net_net.c
    wifi_init,     \* net_wifi.c
    sta_netif, ap_netif,  \* whether these point to a network interface
    driver,        \* "off", "stopped" or "started"
    mode,          \* of the driver: "NULL", "STA", "AP" or "APSTA"
    link,          \* the station: "down", "connecting" or "up"
    events,        \* WIFI_EVENT_STA_DISCONNECTED events not handled yet
    at,            \* what the call in progress does next
    asked,         \* the mode that wifi.mode was last given
    wanted         \* history: sta.start was the last call about the station

netifs == <<sta_netif, ap_netif>>
driverState == <<driver, mode, link>>
flags == <<event_loop, g_net_inited>>
call == <<at, asked>>
vars == <<device, flags, wifi_init, netifs, driverState, events, call, wanted>>

TypeOK ==
    /\ device \in {"off", "up", "abort"}
    /\ event_loop \in BOOLEAN /\ g_net_inited \in BOOLEAN /\ wifi_init \in BOOLEAN
    /\ sta_netif \in BOOLEAN /\ ap_netif \in BOOLEAN /\ wanted \in BOOLEAN
    /\ driver \in {"off", "stopped", "started"}
    /\ mode \in {"NULL", "STA", "AP", "APSTA"}
    /\ link \in {"down", "connecting", "up"}
    /\ events \in 0..MaxEvents
    /\ at \in Steps /\ asked \in Modes \cup {"invalid"}

Reset(dev) ==
    /\ device' = dev
    /\ event_loop' = FALSE /\ g_net_inited' = FALSE
    /\ wifi_init' = FALSE /\ sta_netif' = FALSE /\ ap_netif' = FALSE
    /\ driver' = "off" /\ mode' = "NULL" /\ link' = "down"
    /\ events' = 0 /\ wanted' = FALSE
    /\ at' = "idle" /\ asked' = "STA"

Init ==
    /\ device = "off"
    /\ event_loop = FALSE /\ g_net_inited = FALSE
    /\ wifi_init = FALSE /\ sta_netif = FALSE /\ ap_netif = FALSE
    /\ driver = "off" /\ mode = "NULL" /\ link = "down"
    /\ events = 0 /\ wanted = FALSE
    /\ at = "idle" /\ asked = "STA"

Up == device = "up"
Abort == device' = "abort"
StaMode == mode \in {"STA", "APSTA"}
ApMode == mode \in {"AP", "APSTA"}

-----------------------------------------------------------------------------
(* The driver's answers.                                                   *)

SetStaConfigOk == driver # "off" /\ StaMode /\ link # "connecting"
SetApConfigOk == driver # "off" /\ ApMode
ConnectOk == driver = "started" /\ StaMode /\ link # "connecting"
DisconnectOk == driver = "started"

\* the station loses what it had; the driver tells the event task
Post(n) == events' = IF events + n > MaxEvents THEN MaxEvents ELSE events + n
Dropped == IF link = "down" THEN 0 ELSE 1

ConnectSucceeds ==
    /\ Up /\ link = "connecting"
    /\ link' = "up"
    /\ UNCHANGED <<device, flags, wifi_init, netifs, driver, mode, events, call, wanted>>

\* no access point, a wrong password, or the access point goes away
LinkLost ==
    /\ Up /\ link # "down"
    /\ link' = "down"
    /\ Post(1)
    /\ UNCHANGED <<device, flags, wifi_init, netifs, driver, mode, call, wanted>>

-----------------------------------------------------------------------------
\* LUA_OPEN_WIFI, before any script
WifiInitCore ==
    /\ device = "off"
    /\ device' = "up"
    /\ event_loop' = TRUE
    /\ UNCHANGED <<g_net_inited, wifi_init, netifs, driverState, events, call, wanted>>

\* variant: no reconnection
HandleDisconnected_logs ==
    /\ Up /\ events > 0
    /\ events' = events - 1
    /\ UNCHANGED <<device, flags, wifi_init, netifs, driverState, call, wanted>>

\* wifi_event_handler: a station that is disconnected connects again; the
\* result of esp_wifi_connect is not looked at
HandleDisconnected ==
    /\ Up /\ events > 0
    /\ events' = events - 1
    /\ link' = IF ConnectOk /\ link = "down" THEN "connecting" ELSE link
    /\ UNCHANGED <<device, flags, wifi_init, netifs, driver, mode, call, wanted>>

-----------------------------------------------------------------------------
(* The calls begin.  A stop of an uninitialised Wi-Fi is a Lua error.      *)

Begin(step) == Up /\ at = "idle" /\ at' = step
Step(step, next) == Up /\ at = step /\ at' = next

L_WIFI_MODE(m) ==
    /\ Begin(IF wifi_init THEN "create" ELSE "init")
    /\ asked' = m
    /\ UNCHANGED <<device, flags, wifi_init, netifs, driverState, events, wanted>>

Rest == <<device, flags, wifi_init, netifs, driverState, events, asked, wanted>>

L_WIFI_STA_START == Begin("setConfig") /\ UNCHANGED Rest

L_WIFI_STA_STOP ==
    /\ wifi_init
    /\ Begin("disconnect") \/ Begin("destroySta")
    /\ UNCHANGED Rest

L_WIFI_AP_STOP ==
    /\ wifi_init
    /\ Begin("stop") \/ Begin("destroyStaOfAp")
    /\ UNCHANGED Rest

\* a call that is one step; when it succeeds nothing here changes
L_WIFI_AP_START ==
    /\ Up /\ at = "idle"
    /\ ~SetApConfigOk /\ Abort
    /\ UNCHANGED <<flags, wifi_init, netifs, driverState, events, call, wanted>>

\* net.init creates the default event loop, which fails when there is one
L_NET_INIT ==
    /\ Up /\ at = "idle" /\ ~g_net_inited
    /\ IF event_loop THEN Abort /\ UNCHANGED flags
                     ELSE event_loop' = TRUE /\ g_net_inited' = TRUE /\ UNCHANGED device
    /\ UNCHANGED <<wifi_init, netifs, driverState, events, call, wanted>>

-----------------------------------------------------------------------------
(* wifi.mode                                                               *)

\* esp_wifi_init
InitDriver ==
    /\ Step("init", "flag")
    /\ driver' = "stopped"
    /\ UNCHANGED <<device, flags, wifi_init, netifs, mode, link, events, asked, wanted>>

SetFlag ==
    /\ Step("flag", "create")
    /\ wifi_init' = TRUE
    /\ UNCHANGED <<device, flags, netifs, driverState, events, asked, wanted>>

\* variant: no return after the switch's default
CreateNetifs_goesOn ==
    /\ Step("create", "setMode")
    /\ sta_netif' = (sta_netif \/ asked \in {"STA", "APSTA"})
    /\ ap_netif' = (ap_netif \/ asked \in {"AP", "APSTA"})
    /\ UNCHANGED <<device, flags, wifi_init, driverState, events, asked, wanted>>

\* the interfaces that are lacking are made; an unknown mode is a Lua error
CreateNetifs ==
    /\ Step("create", IF asked = "invalid" THEN "idle" ELSE "setMode")
    /\ sta_netif' = (sta_netif \/ asked \in {"STA", "APSTA"})
    /\ ap_netif' = (ap_netif \/ asked \in {"AP", "APSTA"})
    /\ UNCHANGED <<device, flags, wifi_init, driverState, events, asked, wanted>>

\* esp_wifi_set_mode: without its mode a station loses its connection
SetMode ==
    /\ Step("setMode", "start")
    /\ mode' = asked
    /\ IF asked = "AP" THEN link' = "down" /\ Post(Dropped)
                       ELSE UNCHANGED <<link, events>>
    /\ wanted' = (wanted /\ asked # "AP")
    /\ UNCHANGED <<device, flags, wifi_init, netifs, driver, asked>>

\* esp_wifi_start
StartDriver ==
    /\ Step("start", "idle")
    /\ driver' = "started"
    /\ UNCHANGED <<device, flags, wifi_init, netifs, mode, link, events, asked, wanted>>

-----------------------------------------------------------------------------
(* sta.start                                                               *)

SetStaConfig ==
    /\ Step("setConfig", "connect")
    /\ IF SetStaConfigOk THEN UNCHANGED device ELSE Abort
    /\ UNCHANGED <<flags, wifi_init, netifs, driverState, events, asked, wanted>>

\* the event task may have told the driver to connect meanwhile
Connect ==
    /\ Step("connect", "idle")
    /\ IF ConnectOk
         THEN link' = "connecting" /\ wanted' = TRUE /\ UNCHANGED device
         ELSE Abort /\ UNCHANGED <<link, wanted>>
    /\ UNCHANGED <<flags, wifi_init, netifs, driver, mode, events, asked>>

-----------------------------------------------------------------------------
(* stop at level 0: the station disconnects, and the driver stops; that of *)
(* the access point stops the driver, and with it the station.             *)

Disconnect ==
    /\ Step("disconnect", "stop")
    /\ IF DisconnectOk THEN link' = "down" /\ Post(Dropped) /\ UNCHANGED device
                       ELSE Abort /\ UNCHANGED <<link, events>>
    /\ wanted' = FALSE
    /\ UNCHANGED <<flags, wifi_init, netifs, driver, mode, asked>>

\* esp_wifi_stop
DriverStops ==
    /\ driver' = "stopped" /\ link' = "down"
    /\ Post(Dropped)
    /\ wanted' = FALSE

StopDriver ==
    /\ Step("stop", "idle")
    /\ DriverStops
    /\ UNCHANGED <<device, flags, wifi_init, netifs, mode, asked>>

-----------------------------------------------------------------------------
(* stop at level 1                                                         *)

\* the station's interface goes first, the driver running; an access point that
\* has its own interface destroys the station's too
DestroySta ==
    /\ \/ Step("destroySta", "stopAll") /\ sta_netif' = FALSE
       \/ Step("destroyStaOfAp", "stopAll") /\ sta_netif' = (sta_netif /\ ~ap_netif)
    /\ UNCHANGED <<device, flags, wifi_init, ap_netif, driverState, events, asked, wanted>>

\* wifi_deinit, whose test of wifi_init the call has already made
StopAll ==
    /\ Step("stopAll", "deinit")
    /\ DriverStops
    /\ UNCHANGED <<device, flags, wifi_init, netifs, mode, asked>>

\* esp_wifi_deinit
Deinit ==
    /\ Step("deinit", "destroyAll")
    /\ driver' = "off" /\ mode' = "NULL"
    /\ UNCHANGED <<device, flags, wifi_init, netifs, link, events, asked, wanted>>

\* variant: as in L_WIFI_AP_STOP, the wrong interface
DestroyAll_twice ==
    /\ Step("destroyAll", "clear")
    /\ sta_netif' = FALSE
    /\ UNCHANGED <<device, flags, wifi_init, ap_netif, driverState, events, asked, wanted>>

DestroyAll ==
    /\ Step("destroyAll", "clear")
    /\ sta_netif' = FALSE /\ ap_netif' = FALSE
    /\ UNCHANGED <<device, flags, wifi_init, driverState, events, asked, wanted>>

ClearFlag ==
    /\ Step("clear", "idle")
    /\ wifi_init' = FALSE
    /\ UNCHANGED <<device, flags, netifs, driverState, events, asked, wanted>>

\* ESP_ERROR_CHECK has called abort: the device starts again
Reboot == device = "abort" /\ Reset("off")

-----------------------------------------------------------------------------
Next ==
    \/ WifiInitCore \/ ConnectSucceeds \/ LinkLost \/ HandleDisconnected
    \/ \E m \in Modes \cup {"invalid"} : L_WIFI_MODE(m)
    \/ L_WIFI_STA_START \/ L_WIFI_STA_STOP \/ L_WIFI_AP_START \/ L_WIFI_AP_STOP
    \/ L_NET_INIT
    \/ InitDriver \/ SetFlag \/ CreateNetifs \/ SetMode \/ StartDriver
    \/ SetStaConfig \/ Connect \/ Disconnect \/ StopDriver
    \/ DestroySta \/ StopAll \/ Deinit \/ DestroyAll \/ ClearFlag
    \/ Reboot

Spec == Init /\ [][Next]_vars

-----------------------------------------------------------------------------
\* The library's flag and pointers follow the driver, whatever the calls, their
\* order and the events meanwhile, except while a call that changes both is
\* between the two.  wifi_init says whether esp_wifi_deinit is due, but for a
\* wifi.mode that has just called esp_wifi_init and a stop that has called
\* esp_wifi_deinit; no interface outlives the driver it was made for, but in that
\* stop; and a station that has or seeks a connection has its interface, but in a
\* stop at level 1, which destroys the interface before it stops the driver.
FollowsDriver ==
    /\ wifi_init # (driver # "off") => at \in {"flag", "destroyAll", "clear"}
    /\ sta_netif \/ ap_netif => wifi_init /\ (driver # "off" \/ at = "destroyAll")
    /\ link # "down" => /\ driver = "started" /\ StaMode
                        /\ sta_netif \/ at = "stopAll"

\* Auto-reconnect never gives up: a station that was started, and neither
\* stopped nor taken out of its mode since, is connected, connecting, or about
\* to be told to connect.
NeverStranded == wanted /\ Up => link # "down" \/ events > 0
=============================================================================
