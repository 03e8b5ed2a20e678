----------------------------- MODULE MCWifiNet -----------------------------
(* WifiNet with a few events waiting: enough for a stale one to meet a      *)
(* later start or stop.                                                     *)
EXTENDS WifiNet
=============================================================================
