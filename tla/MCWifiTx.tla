------------------------------ MODULE MCWifiTx ------------------------------
(* WifiTx for TLC. *)
EXTENDS WifiTx
=============================================================================
