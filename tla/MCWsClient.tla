----------------------------- MODULE MCWsClient -----------------------------
(* WsClient with two threads.                                               *)
EXTENDS WsClient
=============================================================================
