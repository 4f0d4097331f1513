----------------------------- MODULE MCNetTnfs -----------------------------
(* NetTnfs for TLC. *)
EXTENDS NetTnfs
=============================================================================
