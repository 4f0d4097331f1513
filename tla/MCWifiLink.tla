----------------------------- MODULE MCWifiLink -----------------------------
(* WifiLink for TLC. *)
EXTENDS WifiLink
=============================================================================
